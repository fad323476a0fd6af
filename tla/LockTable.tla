----------------------------- MODULE LockTable -----------------------------
(***************************************************************************)
(* The lock record of package distlock and what one call of a LockManager  *)
(* does to it.  Every method of LockManager holds lm.mu from its first     *)
(* read of the table to its return, so a call is a function from the       *)
(* record of a key to a result and a new record.  LockManager, Redlock and *)
(* LeaderElector are built from these operators.                           *)
(*                                                                         *)
(* Time.  An expiry is kept relative to the current time: expiresAt is the *)
(* number of clock ticks from now to the instant the code stores, and a    *)
(* tick decrements it.  The code reads its clock once per call, so nothing *)
(* depends on the absolute time.  An expiry stops at -1, "in the past".    *)
(*                                                                         *)
(* A definition named ...Slip is a plausible error in the definition that  *)
(* follows it.  No specification uses it; the checks substitute it to show *)
(* that the properties notice.                                             *)
(***************************************************************************)
EXTENDS Integers

CONSTANTS Token,          \* callers' tokens (the empty token is refused)
          MaxReentrancy,  \* LockManagerConfig.MaxReentrancy
          NoEntry         \* "the map has no record for this key"

(* NewLockManagerWithConfig replaces a bound below 1 by the default. *)
ASSUME MaxReentrancyAssumption == MaxReentrancy \in Nat \ {0}

Entry == [token : Token, expiresAt : Int, reentrancy : Nat \ {0}]

ASSUME NoEntryAssumption == NoEntry \notin Entry

(* Slip: a nested record never lapses. *)
IsExpiredNestedSlip(e) == e.expiresAt < 0 /\ e.reentrancy = 1

(* now.After(e.expiresAt): at the instant of expiry the record still holds. *)
IsExpired(e) == e.expiresAt < 0

Held(e) == e # NoEntry /\ ~ IsExpired(e)

HeldBy(e, t) == Held(e) /\ e.token = t

(* Slip: no comparison of tokens. *)
LockOkTokenSlip(e, t) == ~ Held(e) \/ e.reentrancy < MaxReentrancy

(* lockInternal: a missing or lapsed record is taken over, the holder's own  *)
(* is counted up and its expiry restarted, any other call changes nothing.   *)
LockOk(e, t) ==
    \/ ~ Held(e)
    \/ e.token = t /\ e.reentrancy < MaxReentrancy

(* Slip: a nested Lock renews the expiry and forgets entry.reentrancy++. *)
AfterLockSlip(e, t, ttl) ==
    IF ~ Held(e) THEN [token |-> t, expiresAt |-> ttl, reentrancy |-> 1]
    ELSE IF LockOk(e, t) THEN [e EXCEPT !.expiresAt = ttl]
    ELSE e

AfterLock(e, t, ttl) ==
    IF ~ Held(e) THEN [token |-> t, expiresAt |-> ttl, reentrancy |-> 1]
    ELSE IF LockOk(e, t)
    THEN [token |-> t, expiresAt |-> ttl, reentrancy |-> e.reentrancy + 1]
    ELSE e

(* A call that meets a lapsed record deletes it: IsLocked, GetHolder, and    *)
(* the expiry branches of Unlock and Heartbeat.                              *)
DropLapsed(e) == IF Held(e) THEN e ELSE NoEntry

(* Slip: Unlock without the token comparison. *)
UnlockOkSlip(e, t) == Held(e)

UnlockOk(e, t) == HeldBy(e, t)

AfterUnlock(e, t) ==
    IF ~ UnlockOk(e, t) THEN DropLapsed(e)
    ELSE IF e.reentrancy > 1 THEN [e EXCEPT !.reentrancy = @ - 1]
    ELSE NoEntry

HeartbeatOk(e, t) == HeldBy(e, t)

AfterHeartbeat(e, t, ttl) ==
    IF HeartbeatOk(e, t) THEN [e EXCEPT !.expiresAt = ttl] ELSE DropLapsed(e)

(* One unit of time passes. *)
Sooner(x) == IF x < 0 THEN x ELSE x - 1

AfterTick(e) == IF e = NoEntry THEN e ELSE [e EXCEPT !.expiresAt = Sooner(@)]
=============================================================================
