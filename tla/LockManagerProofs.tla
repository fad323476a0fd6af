------------------------- MODULE LockManagerProofs -------------------------
(***************************************************************************)
(* Theorems about LockManager, for any sets of keys, tokens and ttls and   *)
(* any nesting limit.                                                      *)
(***************************************************************************)
EXTENDS LockManager, TLAPS

(* The inductive strengthening of ClientViewAgrees: besides agreeing with    *)
(* the table, a caller's lease is live exactly when the record is its own.   *)
(* Without the converse a nested Lock could count 1 where the table counts 2.*)
Agree(k, t) ==
    /\ lease[k][t] >= 0 <=> HeldBy(locks[k], t)
    /\ lease[k][t] >= 0 => /\ locks[k].expiresAt = lease[k][t]
                           /\ locks[k].reentrancy = depth[k][t]

IInv == TypeOK /\ (\A k \in Key : \A t \in Token : Agree(k, t))

-----------------------------------------------------------------------------
(* What the operators on a record return. *)

(* A record stays a record under lazy deletion and under the clock. *)
LEMMA PassiveType ==
    ASSUME NEW e \in Entry \cup {NoEntry}
    PROVE  DropLapsed(e) \in Entry \cup {NoEntry} /\ AfterTick(e) \in Entry \cup {NoEntry}
  BY NoEntryAssumption DEF DropLapsed, AfterTick, Sooner, Entry

(* A record stays a record under lockInternal, Unlock and Heartbeat. *)
LEMMA RecordType ==
    ASSUME NEW e \in Entry \cup {NoEntry}, NEW t \in Token, NEW ttl \in Nat
    PROVE  /\ AfterLock(e, t, ttl) \in Entry \cup {NoEntry}
           /\ AfterUnlock(e, t) \in Entry \cup {NoEntry}
           /\ AfterHeartbeat(e, t, ttl) \in Entry \cup {NoEntry}
<1>1. CASE e = NoEntry
  BY <1>1 DEF AfterLock, AfterUnlock, AfterHeartbeat, DropLapsed, AfterTick, Held, HeldBy,
     UnlockOk, HeartbeatOk, Entry
<1>2. CASE e \in Entry
  <2>1. e # NoEntry
    BY <1>2, NoEntryAssumption
  <2>2. AfterLock(e, t, ttl) \in Entry \cup {NoEntry}
    <3>1. [token |-> t, expiresAt |-> ttl, reentrancy |-> 1] \in Entry
      BY DEF Entry
    <3>2. [token |-> t, expiresAt |-> ttl, reentrancy |-> e.reentrancy + 1] \in Entry
      BY <1>2 DEF Entry
    <3>q. QED BY <1>2, <3>1, <3>2 DEF AfterLock
  <2>3. AfterUnlock(e, t) \in Entry \cup {NoEntry}
    BY <1>2, <2>1 DEF AfterUnlock, UnlockOk, DropLapsed, Held, HeldBy, IsExpired, Entry
  <2>4. AfterHeartbeat(e, t, ttl) \in Entry \cup {NoEntry}
    BY <1>2, <2>1 DEF AfterHeartbeat, HeartbeatOk, DropLapsed, Held, HeldBy, IsExpired, Entry
  <2>q. QED BY <2>2, <2>3, <2>4
<1>q. QED BY <1>1, <1>2

(* Updating one caller's counter on one key keeps a table of counters. *)
LEMMA CounterType ==
    ASSUME NEW f \in [Key -> [Token -> Int]], NEW k \in Key, NEW t \in Token, NEW v \in Int
    PROVE  [f EXCEPT ![k][t] = v] \in [Key -> [Token -> Int]]
  OBVIOUS

(* Updating the record of one key keeps a lock table. *)
LEMMA TableType ==
    ASSUME NEW f \in [Key -> Entry \cup {NoEntry}], NEW k \in Key, NEW e \in Entry \cup {NoEntry}
    PROVE  [f EXCEPT ![k] = e] \in [Key -> Entry \cup {NoEntry}]
  OBVIOUS

(* Initially nothing is held and nobody believes to hold anything. *)
LEMMA InitInv == Init => IInv
<1> SUFFICES ASSUME Init PROVE IInv
  OBVIOUS
<1>1. TypeOK
  <2>1. -1 \in Int /\ 0 \in Int
    OBVIOUS
  <2>2. lease \in [Key -> [Token -> Int]] /\ depth \in [Key -> [Token -> Int]]
    BY <2>1 DEF Init
  <2>3. locks \in [Key -> Entry \cup {NoEntry}]
    BY DEF Init
  <2>q. QED BY Zenon, <2>2, <2>3 DEF Init, TypeOK
<1>2. ASSUME NEW k \in Key, NEW t \in Token PROVE Agree(k, t)
  BY DEF Init, Agree, HeldBy, Held
<1>q. QED BY <1>1, <1>2 DEF IInv

(* Steps that touch neither the table nor the callers' view. *)
LEMMA LifecycleInv ==
    ASSUME IInv, UNCHANGED <<locks, lease, depth>>,
           running' \in BOOLEAN, stopped' \in BOOLEAN, stopCh' \in {"open", "closed"},
           starter' \in {"idle", "spawn"}, cleaner' \in {"none", "loop", "done"},
           stopper' \in {"idle", "wait", "done"}, crashed' \subseteq Token
    PROVE  IInv'
  BY DEF IInv, TypeOK, Agree, HeldBy, Held, IsExpired

(* Deleting lapsed records, for one key or for all, changes nobody's view. *)
LEMMA DropInv ==
    ASSUME IInv, UNCHANGED <<lifeVars, lease, depth, crashed>>,
           locks' \in [Key -> Entry \cup {NoEntry}],
           \A k \in Key : locks'[k] = locks[k] \/ locks'[k] = DropLapsed(locks[k])
    PROVE  IInv'
<1>1. TypeOK'
  BY DEF IInv, TypeOK, lifeVars
<1>2. ASSUME NEW k \in Key, NEW t \in Token PROVE Agree(k, t)'
  <2>1. Agree(k, t) /\ locks[k] \in Entry \cup {NoEntry}
    BY DEF IInv, TypeOK
  <2>q. QED BY <2>1 DEF Agree, HeldBy, Held, DropLapsed, IsExpired
<1>q. QED BY <1>1, <1>2 DEF IInv

(* lockInternal. *)
LEMMA LockInv ==
    ASSUME IInv, NEW k \in Key, NEW t \in Token, NEW ttl \in TTL, Lock(k, t, ttl)
    PROVE  IInv'
<1>0. ttl \in Nat \ {0}
  BY TTLAssumption
<1>1. TypeOK'
  <2>1. TypeOK /\ lease[k][t] \in Int /\ depth[k][t] \in Int /\ ttl \in Int
    BY <1>0 DEF IInv, TypeOK
  <2>2. locks' \in [Key -> Entry \cup {NoEntry}]
    BY <1>0, <2>1, RecordType, TableType DEF TypeOK, Lock
  <2>3. lease' \in [Key -> [Token -> Int]]
    BY <2>1, CounterType DEF TypeOK, Lock
  <2>4. depth' \in [Key -> [Token -> Int]]
    BY <2>1, CounterType DEF TypeOK, Lock
  <2>q. QED BY <2>1, <2>2, <2>3, <2>4 DEF TypeOK, Lock, lifeVars
<1>2. ASSUME NEW k1 \in Key, NEW t1 \in Token PROVE Agree(k1, t1)'
  <2>1. Agree(k1, t1) /\ Agree(k, t) /\ TypeOK
    BY DEF IInv
  <2>2. CASE k1 # k
    BY <2>1, <2>2 DEF Lock, Agree, HeldBy, Held, IsExpired, TypeOK
  <2>3. CASE k1 = k
    <3>1. locks'[k] = AfterLock(locks[k], t, ttl) /\ locks[k] \in Entry \cup {NoEntry}
      BY <2>1 DEF Lock, TypeOK
    <3>2. CASE ~ LockOk(locks[k], t)
      BY <2>1, <2>3, <3>1, <3>2 DEF Lock, Agree, AfterLock, LockOk, Held
    <3>3. CASE LockOk(locks[k], t)
      <4>1. /\ lease'[k][t1] = IF t1 = t THEN ttl ELSE lease[k][t1]
            /\ depth'[k][t1] = IF t1 = t THEN (IF lease[k][t] < 0 THEN 1 ELSE depth[k][t] + 1)
                                         ELSE depth[k][t1]
        BY <2>1, <3>3 DEF Lock, TypeOK
      <4>2. CASE ~ Held(locks[k])
        <5>1. locks'[k] = [token |-> t, expiresAt |-> ttl, reentrancy |-> 1]
          BY <3>1, <4>2 DEF AfterLock
        <5>2. lease[k][t1] < 0 /\ lease[k][t] < 0
          BY <2>1, <2>3, <4>2 DEF Agree, HeldBy, TypeOK
        <5>3. locks'[k] \in Entry
          BY <5>1, <1>0 DEF Entry
        <5>q. QED BY <1>0, <2>1, <2>3, <4>1, <5>1, <5>2, <5>3, NoEntryAssumption
                  DEF Agree, HeldBy, Held, IsExpired, TypeOK
      <4>3. CASE Held(locks[k])
        <5>1. locks[k] \in Entry /\ locks[k].token = t
          BY <3>1, <3>3, <4>3 DEF LockOk, Held
        <5>2. locks'[k] = [token |-> t, expiresAt |-> ttl,
                           reentrancy |-> locks[k].reentrancy + 1]
          BY <3>1, <3>3, <4>3 DEF AfterLock
        <5>3. lease[k][t] >= 0 /\ locks[k].reentrancy = depth[k][t]
          BY <2>1, <4>3, <5>1 DEF Agree, HeldBy
        <5>4. /\ locks'[k] \in Entry /\ locks'[k].token = t /\ locks'[k].expiresAt = ttl
              /\ locks'[k].reentrancy = depth[k][t] + 1
          BY <1>0, <5>1, <5>2, <5>3 DEF Entry
        <5>q. QED BY <1>0, <2>1, <2>3, <4>1, <4>3, <5>1, <5>3, <5>4, NoEntryAssumption
                  DEF Agree, HeldBy, Held, IsExpired, TypeOK
      <4>q. QED BY <4>2, <4>3
    <3>q. QED BY <3>2, <3>3
  <2>q. QED BY <2>2, <2>3
<1>q. QED BY <1>1, <1>2 DEF IInv

(* Unlock. *)
LEMMA UnlockInv ==
    ASSUME IInv, NEW k \in Key, NEW t \in Token, Unlock(k, t)
    PROVE  IInv'
<1>1. TypeOK'
  <2>1. TypeOK /\ lease[k][t] \in Int /\ depth[k][t] \in Int
    BY DEF IInv, TypeOK
  <2>2. locks' \in [Key -> Entry \cup {NoEntry}]
    <3>1. AfterUnlock(locks[k], t) \in Entry \cup {NoEntry}
      BY Zenon, <2>1, RecordType, 0 \in Nat DEF TypeOK
    <3>q. QED BY <2>1, <3>1, TableType DEF TypeOK, Unlock
  <2>3. lease' \in [Key -> [Token -> Int]]
    BY <2>1, CounterType DEF TypeOK, Unlock
  <2>4. depth' \in [Key -> [Token -> Int]]
    BY <2>1, CounterType DEF TypeOK, Unlock
  <2>q. QED BY <2>1, <2>2, <2>3, <2>4 DEF TypeOK, Unlock, lifeVars
<1>2. ASSUME NEW k1 \in Key, NEW t1 \in Token PROVE Agree(k1, t1)'
  <2>1. Agree(k1, t1) /\ Agree(k, t) /\ TypeOK
    BY DEF IInv
  <2>2. CASE k1 # k
    BY <2>1, <2>2 DEF Unlock, Agree, HeldBy, Held, IsExpired, TypeOK
  <2>3. CASE k1 = k
    <3>1. locks'[k] = AfterUnlock(locks[k], t) /\ locks[k] \in Entry \cup {NoEntry}
      BY <2>1 DEF Unlock, TypeOK
    <3>2. CASE ~ UnlockOk(locks[k], t)
      BY <2>1, <2>3, <3>1, <3>2 DEF Unlock, Agree, AfterUnlock, DropLapsed, HeldBy, Held
    <3>3. CASE UnlockOk(locks[k], t)
      <4>1. /\ lease'[k][t1] = IF t1 = t THEN (IF depth[k][t] > 1 THEN lease[k][t] ELSE -1)
                                         ELSE lease[k][t1]
            /\ depth'[k][t1] = IF t1 = t THEN depth[k][t] - 1 ELSE depth[k][t1]
        BY <2>1, <3>3 DEF Unlock, TypeOK
      <4>2. /\ locks[k] \in Entry /\ Held(locks[k]) /\ locks[k].token = t
            /\ lease[k][t] >= 0 /\ locks[k].reentrancy = depth[k][t]
            /\ locks[k].expiresAt = lease[k][t]
        BY <2>1, <3>1, <3>3 DEF UnlockOk, HeldBy, Held, Agree
      <4>3. CASE depth[k][t] > 1
        <5>1. locks'[k] = [locks[k] EXCEPT !.reentrancy = @ - 1]
          BY <3>1, <3>3, <4>2, <4>3 DEF AfterUnlock
        <5>2. /\ locks'[k] \in Entry /\ locks'[k].token = t
              /\ locks'[k].expiresAt = lease[k][t] /\ locks'[k].reentrancy = depth[k][t] - 1
          BY <4>2, <4>3, <5>1 DEF Entry
        <5>q. QED BY <2>1, <2>3, <4>1, <4>2, <4>3, <5>2, NoEntryAssumption
                  DEF Agree, HeldBy, Held, IsExpired, TypeOK
      <4>4. CASE ~ (depth[k][t] > 1)
        <5>1. locks'[k] = NoEntry
          BY <3>1, <3>3, <4>2, <4>4 DEF AfterUnlock
        <5>q. QED BY <2>1, <2>3, <4>1, <4>2, <4>4, <5>1 DEF Agree, HeldBy, Held, TypeOK
      <4>q. QED BY <4>3, <4>4
    <3>q. QED BY <3>2, <3>3
  <2>q. QED BY <2>2, <2>3
<1>q. QED BY <1>1, <1>2 DEF IInv

(* Heartbeat. *)
LEMMA HeartbeatInv ==
    ASSUME IInv, NEW k \in Key, NEW t \in Token, NEW ttl \in TTL, Heartbeat(k, t, ttl)
    PROVE  IInv'
<1>0. ttl \in Nat \ {0}
  BY TTLAssumption
<1>1. TypeOK'
  <2>1. TypeOK /\ ttl \in Int
    BY <1>0 DEF IInv, TypeOK
  <2>2. locks' \in [Key -> Entry \cup {NoEntry}]
    BY Zenon, <1>0, <2>1, RecordType, TableType DEF TypeOK, Heartbeat
  <2>3. lease' \in [Key -> [Token -> Int]]
    BY <2>1, CounterType DEF TypeOK, Heartbeat
  <2>q. QED BY <2>1, <2>2, <2>3 DEF TypeOK, Heartbeat, lifeVars
<1>2. ASSUME NEW k1 \in Key, NEW t1 \in Token PROVE Agree(k1, t1)'
  <2>1. Agree(k1, t1) /\ Agree(k, t) /\ TypeOK
    BY DEF IInv
  <2>2. CASE k1 # k
    BY <2>1, <2>2 DEF Heartbeat, Agree, HeldBy, Held, IsExpired, TypeOK
  <2>3. CASE k1 = k
    <3>1. locks'[k] = AfterHeartbeat(locks[k], t, ttl) /\ locks[k] \in Entry \cup {NoEntry}
      BY <2>1 DEF Heartbeat, TypeOK
    <3>2. CASE ~ HeartbeatOk(locks[k], t)
      BY <2>1, <2>3, <3>1, <3>2 DEF Heartbeat, Agree, AfterHeartbeat, DropLapsed, HeldBy, Held
    <3>3. CASE HeartbeatOk(locks[k], t)
      <4>1. /\ lease'[k][t1] = IF t1 = t THEN ttl ELSE lease[k][t1]
            /\ depth' = depth
        BY <2>1, <3>3 DEF Heartbeat, TypeOK
      <4>2. /\ locks[k] \in Entry /\ Held(locks[k]) /\ locks[k].token = t
            /\ lease[k][t] >= 0 /\ locks[k].reentrancy = depth[k][t]
        BY <2>1, <3>1, <3>3 DEF HeartbeatOk, HeldBy, Held, Agree
      <4>3. locks'[k] = [locks[k] EXCEPT !.expiresAt = ttl]
        BY <3>1, <3>3 DEF AfterHeartbeat
      <4>4. /\ locks'[k] \in Entry /\ locks'[k].token = t
            /\ locks'[k].expiresAt = ttl /\ locks'[k].reentrancy = depth[k][t]
        BY <1>0, <4>2, <4>3 DEF Entry
      <4>q. QED BY <1>0, <2>1, <2>3, <4>1, <4>2, <4>4, NoEntryAssumption
                DEF Agree, HeldBy, Held, IsExpired, TypeOK
    <3>q. QED BY <3>2, <3>3
  <2>q. QED BY <2>2, <2>3
<1>q. QED BY <1>1, <1>2 DEF IInv

(* The clock moves the table and the callers' leases together. *)
LEMMA TickInv == ASSUME IInv, Tick PROVE IInv'
<1>1. TypeOK'
  <2>1. TypeOK
    BY DEF IInv
  <2>2. locks' \in [Key -> Entry \cup {NoEntry}]
    BY <2>1, PassiveType DEF Tick, TypeOK
  <2>3. lease' \in [Key -> [Token -> Int]]
    BY <2>1 DEF Tick, TypeOK, Sooner
  <2>q. QED BY <2>1, <2>2, <2>3 DEF Tick, TypeOK, lifeVars
<1>2. ASSUME NEW k \in Key, NEW t \in Token PROVE Agree(k, t)'
  <2>1. /\ Agree(k, t) /\ locks[k] \in Entry \cup {NoEntry} /\ lease[k][t] \in Int
        /\ locks'[k] = AfterTick(locks[k]) /\ lease'[k][t] = Sooner(lease[k][t])
        /\ depth' = depth
    BY DEF IInv, TypeOK, Tick
  <2>2. CASE locks[k] = NoEntry
    BY <2>1, <2>2 DEF Agree, AfterTick, HeldBy, Held, Sooner
  <2>3. CASE locks[k] \in Entry
    <3>1. /\ locks'[k] = [locks[k] EXCEPT !.expiresAt = Sooner(locks[k].expiresAt)]
          /\ locks'[k] \in Entry /\ locks[k] # NoEntry /\ locks'[k] # NoEntry
      BY <2>1, <2>3, NoEntryAssumption DEF AfterTick, Entry, Sooner
    <3>2. /\ locks'[k].token = locks[k].token /\ locks'[k].reentrancy = locks[k].reentrancy
          /\ locks'[k].expiresAt = Sooner(locks[k].expiresAt)
          /\ locks[k].expiresAt \in Int
      BY <2>3, <3>1 DEF Entry
    <3>q. QED BY <2>1, <2>3, <3>1, <3>2 DEF Agree, HeldBy, Held, IsExpired, Sooner
  <2>q. QED BY <2>1, <2>2, <2>3
<1>q. QED BY <1>1, <1>2 DEF IInv

(* The operator's calls end the record and every lease on it. *)
LEMMA RevokeInv ==
    ASSUME IInv, (\E k \in Key : ForceUnlock(k)) \/ Clear
    PROVE  IInv'
<1>1. TypeOK'
  <2>1. TypeOK
    BY DEF IInv
  <2>2. CASE Clear
    BY <2>1, <2>2 DEF TypeOK, Clear, lifeVars
  <2>3. ASSUME NEW k \in Key, ForceUnlock(k) PROVE TypeOK'
    <3>1. lease' \in [Key -> [Token -> Int]]
      BY <2>1, <2>3 DEF TypeOK, ForceUnlock
    <3>q. QED BY <2>1, <2>3, <3>1 DEF TypeOK, ForceUnlock, lifeVars
  <2>q. QED BY <2>2, <2>3
<1>2. ASSUME NEW k \in Key, NEW t \in Token PROVE Agree(k, t)'
  <2>1. Agree(k, t) /\ TypeOK
    BY DEF IInv
  <2>2. CASE Clear
    BY <2>1, <2>2 DEF Clear, Agree, HeldBy, Held
  <2>3. ASSUME NEW k1 \in Key, ForceUnlock(k1) PROVE Agree(k, t)'
    BY <2>1, <2>3 DEF ForceUnlock, Agree, HeldBy, Held, TypeOK, IsExpired
  <2>q. QED BY <2>2, <2>3
<1>q. QED BY <1>1, <1>2 DEF IInv

-----------------------------------------------------------------------------
(* Every step of the manager, its callers, its cleaner and the clock         *)
(* preserves the inductive invariant.                                        *)
THEOREM StepInv == IInv /\ [Next]_vars => IInv'
<1> SUFFICES ASSUME IInv, [Next]_vars PROVE IInv'
  OBVIOUS
<1>0. TypeOK
  BY DEF IInv
<1>1. ASSUME NEW k \in Key, NEW t \in Token, Unlock(k, t) PROVE IInv'
  BY <1>1, UnlockInv
<1>2. ASSUME NEW k \in Key, NEW t \in Token, NEW ttl \in TTL, Lock(k, t, ttl) PROVE IInv'
  BY <1>2, LockInv
<1>3. ASSUME NEW k \in Key, NEW t \in Token, NEW ttl \in TTL, Heartbeat(k, t, ttl) PROVE IInv'
  BY <1>3, HeartbeatInv
<1>4. ASSUME NEW k \in Key, Query(k) PROVE IInv'
  <2>1. locks' \in [Key -> Entry \cup {NoEntry}]
    BY <1>0, <1>4, PassiveType, TableType DEF Query, TypeOK
  <2>q. QED BY <1>0, <1>4, <2>1, DropInv DEF Query, TypeOK
<1>5. ASSUME NEW k \in Key, ForceUnlock(k) PROVE IInv'
  BY <1>5, RevokeInv
<1>6. CASE Clear
  BY <1>6, RevokeInv
<1>7. CASE CleanExpired \/ CleanTick
  <2>1. locks' \in [Key -> Entry \cup {NoEntry}]
    BY <1>0, <1>7, PassiveType DEF CleanExpired, CleanTick, CleanedLocks, TypeOK
  <2>q. QED BY <1>7, <2>1, DropInv DEF CleanExpired, CleanTick, CleanedLocks
<1>8. CASE Start \/ StartSpawn \/ Stop \/ StopReturn \/ CleanExit
  BY Zenon, <1>0, <1>8, LifecycleInv DEF Start, StartSpawn, Stop, StopReturn, CleanExit, TypeOK
<1>9. CASE Tick
  BY <1>9, TickInv
<1>10. ASSUME NEW t \in Token, Crash(t) PROVE IInv'
  BY <1>0, <1>10, LifecycleInv DEF Crash, lifeVars, TypeOK
<1>11. CASE UNCHANGED vars
  BY <1>0, <1>11, LifecycleInv DEF vars, lifeVars, TypeOK
<1>q. QED
  BY <1>1, <1>2, <1>3, <1>4, <1>5, <1>6, <1>7, <1>8, <1>9, <1>10, <1>11
     DEF Next, Call, Lifecycle

(* The lock table and the lifecycle flags keep their types, whatever order   *)
(* calls, ticks, Start and Stop come in.                                     *)
THEOREM TypeCorrect == Spec => []TypeOK
<1>1. IInv => TypeOK
  BY DEF IInv
<1>q. QED BY <1>1, InitInv, StepInv, PTL DEF Spec

(* What a caller may conclude from its own calls is always what the lock     *)
(* table says: lockInternal, Unlock, Heartbeat and the expiry tests agree on *)
(* when a record ends and how deep it is nested.                             *)
THEOREM ViewCorrect == Spec => []ClientViewAgrees
<1>1. IInv => ClientViewAgrees
  BY DEF IInv, Agree, ClientViewAgrees
<1>q. QED BY <1>1, InitInv, StepInv, PTL DEF Spec

(* Mutual exclusion: no two callers can both rely on a key at one time, for  *)
(* any number of callers and keys, any ttls and any nesting limit.           *)
THEOREM Exclusion == Spec => []MutualExclusion
<1>1. IInv => MutualExclusion
  BY DEF IInv, Agree, MutualExclusion, HeldBy
<1>q. QED BY <1>1, InitInv, StepInv, PTL DEF Spec

-----------------------------------------------------------------------------
(* The owner of a key as the callers see it. *)
OwnerOf(e) == IF Held(e) THEN e.token ELSE NoEntry

Owner == [k \in Key |-> OwnerOf(locks[k])]

(* One call or tick changes the owner of the keys it touches only to nobody, *)
(* or from nobody.                                                           *)
LEMMA OwnerStep ==
    ASSUME TypeOK, [Next]_vars
    PROVE  \/ \E k \in Key, t \in Token :
                 Owner[k] = NoEntry /\ Owner' = [Owner EXCEPT ![k] = t]
           \/ \A k \in Key : Owner'[k] \in {Owner[k], NoEntry}
<1> USE DEF Owner
<1>1. ASSUME NEW k \in Key, NEW t \in Token, NEW ttl \in TTL, Lock(k, t, ttl)
      PROVE  \/ Owner[k] = NoEntry /\ Owner' = [Owner EXCEPT ![k] = t]
             \/ Owner' = Owner
  <2>0. ttl \in Nat \ {0}
    BY TTLAssumption
  <2>1. locks' = [locks EXCEPT ![k] = AfterLock(locks[k], t, ttl)]
    BY <1>1 DEF Lock
  <2>2. locks[k] \in Entry \cup {NoEntry} /\ locks \in [Key -> Entry \cup {NoEntry}]
    BY DEF TypeOK
  <2>3. CASE ~ Held(locks[k])
    <3>1. /\ locks'[k] = [token |-> t, expiresAt |-> ttl, reentrancy |-> 1]
          /\ locks'[k] \in Entry
      BY <2>0, <2>1, <2>2, <2>3 DEF AfterLock, Entry
    <3>2. OwnerOf(locks'[k]) = t /\ OwnerOf(locks[k]) = NoEntry
      BY <2>0, <2>3, <3>1, NoEntryAssumption DEF OwnerOf, Held, IsExpired
    <3>q. QED BY Zenon, <2>1, <2>2, <3>2
  <2>4. CASE Held(locks[k])
    <3>1. OwnerOf(locks'[k]) = OwnerOf(locks[k])
      <4>1. CASE LockOk(locks[k], t)
        <5>1. locks[k] \in Entry /\ locks[k].token = t
          BY <2>2, <2>4, <4>1 DEF LockOk, Held
        <5>2. /\ locks'[k] = [token |-> t, expiresAt |-> ttl, reentrancy |-> locks[k].reentrancy + 1]
              /\ locks'[k] \in Entry
          BY <2>0, <2>1, <2>2, <2>4, <4>1, <5>1 DEF AfterLock, Entry
        <5>q. QED BY <2>0, <2>4, <5>1, <5>2, NoEntryAssumption DEF OwnerOf, Held, IsExpired
      <4>2. CASE ~ LockOk(locks[k], t)
        BY <2>1, <2>2, <2>4, <4>2 DEF AfterLock
      <4>q. QED BY <4>1, <4>2
    <3>q. QED BY <2>1, <2>2, <3>1
  <2>q. QED BY <2>3, <2>4
<1>2. ASSUME NEW e \in Entry \cup {NoEntry}, NEW t \in Token, NEW ttl \in Nat
      PROVE  /\ OwnerOf(AfterUnlock(e, t)) \in {OwnerOf(e), NoEntry}
             /\ OwnerOf(AfterHeartbeat(e, t, ttl)) \in {OwnerOf(e), NoEntry}
  <2>1. CASE ~ HeldBy(e, t)
    BY <2>1 DEF AfterUnlock, AfterHeartbeat, UnlockOk, HeartbeatOk, DropLapsed, OwnerOf, Held
  <2>2. CASE HeldBy(e, t)
    <3>1. e \in Entry /\ e # NoEntry /\ Held(e) /\ e.token = t
      BY <2>2 DEF HeldBy, Held
    <3>2. [e EXCEPT !.reentrancy = @ - 1].token = t /\ [e EXCEPT !.expiresAt = ttl].token = t
      BY <3>1 DEF Entry
    <3>3. OwnerOf(e) = t
      BY <3>1 DEF OwnerOf
    <3>4. OwnerOf(AfterUnlock(e, t)) \in {t, NoEntry}
      BY <2>2, <3>2 DEF AfterUnlock, UnlockOk, OwnerOf, Held
    <3>5. OwnerOf(AfterHeartbeat(e, t, ttl)) \in {t, NoEntry}
      BY <2>2, <3>2 DEF AfterHeartbeat, HeartbeatOk, OwnerOf
    <3>q. QED BY <3>3, <3>4, <3>5
  <2>q. QED BY <2>1, <2>2
<1>3. ASSUME NEW e \in Entry \cup {NoEntry}
      PROVE  /\ OwnerOf(DropLapsed(e)) \in {OwnerOf(e), NoEntry}
             /\ OwnerOf(AfterTick(e)) \in {OwnerOf(e), NoEntry}
             /\ OwnerOf(NoEntry) = NoEntry
  <2>1. OwnerOf(AfterTick(e)) \in {OwnerOf(e), NoEntry}
    BY NoEntryAssumption DEF OwnerOf, Held, IsExpired, AfterTick, Sooner, Entry
  <2>q. QED BY <2>1 DEF OwnerOf, Held, DropLapsed
<1>4. ASSUME NEW k \in Key, NEW t \in Token, NEW ttl \in TTL,
             Unlock(k, t) \/ Heartbeat(k, t, ttl)
      PROVE  \A k1 \in Key : Owner'[k1] \in {Owner[k1], NoEntry}
  <2>1. ttl \in Nat /\ locks[k] \in Entry \cup {NoEntry}
    BY TTLAssumption DEF TypeOK
  <2>q. QED BY <1>2, <1>4, <2>1 DEF Unlock, Heartbeat, TypeOK
<1>5. ASSUME NEW k \in Key, NEW t \in Token, Unlock(k, t)
      PROVE  \A k1 \in Key : Owner'[k1] \in {Owner[k1], NoEntry}
  <2>1. 0 \in Nat /\ locks[k] \in Entry \cup {NoEntry}
    BY DEF TypeOK
  <2>q. QED BY <1>2, <1>5, <2>1 DEF Unlock, TypeOK
<1>6. ASSUME NEW k \in Key, Query(k) \/ ForceUnlock(k)
      PROVE  \A k1 \in Key : Owner'[k1] \in {Owner[k1], NoEntry}
  BY <1>3, <1>6 DEF Query, ForceUnlock, TypeOK
<1>7. CASE Clear \/ CleanExpired \/ CleanTick \/ Tick
  BY <1>3, <1>7 DEF Clear, CleanExpired, CleanTick, CleanedLocks, Tick, TypeOK
<1>8. ASSUME UNCHANGED locks
      PROVE  \A k \in Key : Owner'[k] \in {Owner[k], NoEntry}
  BY <1>8 DEF OwnerOf, Held, IsExpired
<1>9. CASE Start \/ StartSpawn \/ Stop \/ StopReturn \/ CleanExit \/ (\E t \in Token : Crash(t))
  BY <1>8, <1>9 DEF Start, StartSpawn, Stop, StopReturn, CleanExit, Crash
<1>10. CASE UNCHANGED vars
  BY <1>8, <1>10 DEF vars
<1>q. QED
  BY Zenon, <1>1, <1>4, <1>5, <1>6, <1>7, <1>8, <1>9, <1>10 DEF Next, Call, Lifecycle

(* The lock manager implements ExclusiveLease, the service without tokens,   *)
(* tables or clocks: a key changes owner only by becoming free in between.   *)
THEOREM Refinement == Spec => ImplementsLease
<1>1. Init => Abstract!Init
  BY DEF Init, Abstract!Init, Held
<1>2. TypeOK /\ [Next]_vars => [Abstract!Next]_(Owner)
  <2> SUFFICES ASSUME TypeOK, [Next]_vars PROVE Abstract!Next \/ Owner' = Owner
    OBVIOUS
  <2>1. ASSUME NEW k \in Key, NEW t \in Token,
               Owner[k] = NoEntry, Owner' = [Owner EXCEPT ![k] = t]
        PROVE  Abstract!Next
    BY Zenon, <2>1 DEF Abstract!Next, Abstract!Acquire, Owner, OwnerOf
  <2>2. ASSUME \A k \in Key : Owner'[k] \in {Owner[k], NoEntry}, Owner' # Owner
        PROVE  Abstract!Next
    <3> DEFINE K == {k \in Key : Owner'[k] = NoEntry}
    <3>1. K # {}
      BY Zenon, <2>2 DEF Owner
    <3>2. Owner' = [k \in Key |-> IF k \in K THEN NoEntry ELSE Owner[k]]
      BY <2>2 DEF Owner
    <3>3. \E J \in SUBSET Key :
             J # {} /\ Owner' = [k \in Key |-> IF k \in J THEN NoEntry ELSE Owner[k]]
      BY Zenon, <3>1, <3>2
    <3>4. PICK J \in SUBSET Key :
             J # {} /\ Owner' = [k \in Key |-> IF k \in J THEN NoEntry ELSE Owner[k]]
      BY <3>3
    <3>5. Abstract!Release(J)
      BY <3>4 DEF Abstract!Release, Owner, OwnerOf
    <3>q. QED BY <3>5 DEF Abstract!Next
  <2>q. QED BY <2>1, <2>2, OwnerStep
<1>3. Owner = [k \in Key |-> IF Held(locks[k]) THEN locks[k].token ELSE NoEntry]
  BY DEF Owner, OwnerOf
<1>q. QED BY <1>1, <1>2, TypeCorrect, PTL DEF Spec, ImplementsLease, Abstract!Spec, Owner, OwnerOf
=============================================================================
