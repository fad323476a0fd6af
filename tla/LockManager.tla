---------------------------- MODULE LockManager ----------------------------
(***************************************************************************)
(* distlock.LockManager: one table of locks, shared by callers, an         *)
(* operator who may force locks open, and the background cleaner that      *)
(* Start spawns and Stop ends.  Callers may crash at any time.             *)
(*                                                                         *)
(* lease and depth are not in the code: they record what a caller may      *)
(* conclude from the answers to its own calls and its own clock.           *)
(***************************************************************************)
EXTENDS LockTable

CONSTANTS Key, TTL

ASSUME TTLAssumption == TTL \subseteq Nat \ {0}   \* ttl <= 0 is refused

VARIABLES
    locks,     \* lm.locks, a record or NoEntry for every key
    running,   \* lm.running
    stopped,   \* lm.stopped
    stopCh,    \* "open" or "closed"
    starter,   \* the goroutine in Start: "idle", "spawn" after it unlocked mu
    cleaner,   \* the goroutine cleanLoop: "none", "loop" or "done"
    stopper,   \* the goroutine in Stop: "idle", "wait" in wg.Wait, "done"
    lease,     \* lease[k][t]: ticks t may still rely on k, -1 for none
    depth,     \* depth[k][t]: Locks of k by t not yet undone by an Unlock
    crashed    \* callers that make no further call

lifeVars == <<running, stopped, stopCh, starter, cleaner, stopper>>
vars == <<locks, lifeVars, lease, depth, crashed>>

Init ==
    /\ locks = [k \in Key |-> NoEntry]
    /\ running = FALSE
    /\ stopped = FALSE
    /\ stopCh = "open"
    /\ starter = "idle"
    /\ cleaner = "none"
    /\ stopper = "idle"
    /\ lease = [k \in Key |-> [t \in Token |-> -1]]
    /\ depth = [k \in Key |-> [t \in Token |-> 0]]
    /\ crashed = {}

-----------------------------------------------------------------------------
(* Start unlocks mu before it calls wg.Add and spawns the cleaner. *)
Start ==
    /\ ~ stopped /\ ~ running
    /\ running' = TRUE
    /\ starter' = "spawn"
    /\ UNCHANGED <<locks, stopped, stopCh, cleaner, stopper, lease, depth, crashed>>

StartSpawn ==
    /\ starter = "spawn"
    /\ starter' = "idle"
    /\ cleaner' = "loop"
    /\ UNCHANGED <<locks, running, stopped, stopCh, stopper, lease, depth, crashed>>

Stop ==
    /\ ~ stopped
    /\ stopped' = TRUE
    /\ running' = FALSE
    /\ stopCh' = IF running THEN "closed" ELSE stopCh
    /\ stopper' = "wait"
    /\ UNCHANGED <<locks, starter, cleaner, lease, depth, crashed>>

(* wg.Wait: the counter is positive exactly while the cleaner loops. *)
StopReturn ==
    /\ stopper = "wait" /\ cleaner # "loop"
    /\ stopper' = "done"
    /\ UNCHANGED <<locks, running, stopped, stopCh, starter, cleaner, lease, depth, crashed>>

-----------------------------------------------------------------------------
(* Calls.  A stopped manager answers ErrLockManagerStopped and does nothing. *)

(* Lock and TryLock differ only in how they report "held by another token". *)
Lock(k, t, ttl) ==
    /\ ~ stopped /\ t \notin crashed
    /\ locks' = [locks EXCEPT ![k] = AfterLock(@, t, ttl)]
    /\ IF LockOk(locks[k], t)
       THEN /\ lease' = [lease EXCEPT ![k][t] = ttl]
            /\ depth' = [depth EXCEPT ![k][t] = IF lease[k][t] < 0 THEN 1 ELSE @ + 1]
       ELSE UNCHANGED <<lease, depth>>
    /\ UNCHANGED <<lifeVars, crashed>>

Unlock(k, t) ==
    /\ ~ stopped /\ t \notin crashed
    /\ locks' = [locks EXCEPT ![k] = AfterUnlock(@, t)]
    /\ IF UnlockOk(locks[k], t)
       THEN /\ depth' = [depth EXCEPT ![k][t] = @ - 1]
            /\ lease' = [lease EXCEPT ![k][t] = IF depth[k][t] > 1 THEN @ ELSE -1]
       ELSE UNCHANGED <<lease, depth>>
    /\ UNCHANGED <<lifeVars, crashed>>

Heartbeat(k, t, ttl) ==
    /\ ~ stopped /\ t \notin crashed
    /\ locks' = [locks EXCEPT ![k] = AfterHeartbeat(@, t, ttl)]
    /\ lease' = IF HeartbeatOk(locks[k], t) THEN [lease EXCEPT ![k][t] = ttl] ELSE lease
    /\ UNCHANGED <<lifeVars, depth, crashed>>

(* IsLocked and GetHolder (behind GetRemainingTTL too) delete a lapsed record. *)
Query(k) ==
    /\ ~ stopped
    /\ locks' = [locks EXCEPT ![k] = DropLapsed(@)]
    /\ UNCHANGED <<lifeVars, lease, depth, crashed>>

(* The operator's calls revoke leases without asking for a token. *)
ForceUnlock(k) ==
    /\ ~ stopped
    /\ locks' = [locks EXCEPT ![k] = NoEntry]
    /\ lease' = [lease EXCEPT ![k] = [t \in Token |-> -1]]
    /\ UNCHANGED <<lifeVars, depth, crashed>>

Clear ==
    /\ ~ stopped
    /\ locks' = [k \in Key |-> NoEntry]
    /\ lease' = [k \in Key |-> [t \in Token |-> -1]]
    /\ UNCHANGED <<lifeVars, depth, crashed>>

-----------------------------------------------------------------------------
(* CleanExpired, called by an operator or by the cleaner on a tick. *)
CleanedLocks == [k \in Key |-> DropLapsed(locks[k])]

CleanExpired ==
    /\ ~ stopped
    /\ locks' = CleanedLocks
    /\ UNCHANGED <<lifeVars, lease, depth, crashed>>

(* The ticker branch of cleanLoop; the call fails once the manager is stopped. *)
CleanTick ==
    /\ cleaner = "loop"
    /\ locks' = IF stopped THEN locks ELSE CleanedLocks
    /\ UNCHANGED <<lifeVars, lease, depth, crashed>>

(* The stopCh branch of cleanLoop. *)
CleanExit ==
    /\ cleaner = "loop" /\ stopCh = "closed"
    /\ cleaner' = "done"
    /\ UNCHANGED <<locks, running, stopped, stopCh, starter, stopper, lease, depth, crashed>>

(* Environment: time passes; a caller crashes. *)
Tick ==
    /\ locks' = [k \in Key |-> AfterTick(locks[k])]
    /\ lease' = [k \in Key |-> [t \in Token |-> Sooner(lease[k][t])]]
    /\ UNCHANGED <<lifeVars, depth, crashed>>

Crash(t) ==
    /\ t \notin crashed
    /\ crashed' = crashed \cup {t}
    /\ UNCHANGED <<locks, lifeVars, lease, depth>>

-----------------------------------------------------------------------------
Call ==
    \E k \in Key :
        \/ \E t \in Token : Unlock(k, t)
        \/ \E t \in Token, ttl \in TTL : Lock(k, t, ttl) \/ Heartbeat(k, t, ttl)
        \/ Query(k)
        \/ ForceUnlock(k)

Lifecycle == Start \/ StartSpawn \/ Stop \/ StopReturn \/ CleanTick \/ CleanExit

Next ==
    \/ Call \/ Clear \/ CleanExpired
    \/ Lifecycle
    \/ Tick
    \/ \E t \in Token : Crash(t)

Spec == Init /\ [][Next]_vars

(* Time advances and the library's own goroutines are scheduled; callers     *)
(* owe nothing.  A closed stopCh stays ready, so the cleaner's select takes  *)
(* it at the latest between two ticks.                                       *)
FairSpec ==
    /\ Spec
    /\ WF_vars(Tick)
    /\ WF_vars(StartSpawn)
    /\ WF_vars(CleanTick)
    /\ WF_vars(CleanExit)
    /\ WF_vars(StopReturn)

-----------------------------------------------------------------------------
TypeOK ==
    /\ locks \in [Key -> Entry \cup {NoEntry}]
    /\ running \in BOOLEAN
    /\ stopped \in BOOLEAN
    /\ stopCh \in {"open", "closed"}
    /\ starter \in {"idle", "spawn"}
    /\ cleaner \in {"none", "loop", "done"}
    /\ stopper \in {"idle", "wait", "done"}
    /\ lease \in [Key -> [Token -> Int]]
    /\ depth \in [Key -> [Token -> Int]]
    /\ crashed \subseteq Token

(* Two callers never both rely on one key: while a caller's last successful  *)
(* Lock or Heartbeat has not run out and the operator has not stepped in, no *)
(* other caller is told that it holds the key.                               *)
MutualExclusion ==
    \A k \in Key : \A t1, t2 \in Token :
        lease[k][t1] >= 0 /\ lease[k][t2] >= 0 => t1 = t2

(* What a caller concludes from its own answers is what the table says: the  *)
(* record is there, is its own, lapses exactly when it thinks, and will take *)
(* exactly as many Unlocks to go away as it has Locks outstanding.           *)
ClientViewAgrees ==
    \A k \in Key : \A t \in Token :
        lease[k][t] >= 0 =>
            /\ HeldBy(locks[k], t)
            /\ locks[k].expiresAt = lease[k][t]
            /\ locks[k].reentrancy = depth[k][t]

(* The reentrancy count of a record never passes the configured limit. *)
ReentrancyBounded ==
    \A k \in Key : locks[k] # NoEntry => locks[k].reentrancy <= MaxReentrancy

(* A crashed caller does not hold a lock for ever: its lease ends by itself. *)
FreeOfCrashed(k) == \A t \in crashed : ~ HeldBy(locks[k], t)

CrashedHolderFreed == \A k \in Key : []<>FreeOfCrashed(k)

(* Stop returns, and however it raced with Start the cleaner ends for good. *)
Quiet == stopped => stopper = "done" /\ starter = "idle" /\ cleaner # "loop"

StopQuiesces == <>[]Quiet

(* The callers' view: the owner of a key is the token of its live record. *)
Abstract == INSTANCE ExclusiveLease
    WITH NoOwner <- NoEntry,
         owner <- [k \in Key |-> IF Held(locks[k]) THEN locks[k].token ELSE NoEntry]

(* The manager implements the exclusive lease: a key passes from one owner   *)
(* to the next only through a state in which it is free.                     *)
ImplementsLease == Abstract!Spec
=============================================================================
