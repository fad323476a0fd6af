--------------------------- MODULE LeaderElector ---------------------------
(***************************************************************************)
(* leaderelect.LeaderElector on a distlock.LockManager backend: electors   *)
(* compete for the record of one election key.  Each elector is up to four *)
(* goroutines that share e.mu: the loop, and callers inside Start, Stop    *)
(* and Resign.  A backend call is one step, a critical section of e.mu is  *)
(* one step; everything else interleaves.  An elector's token is its node  *)
(* ID.                                                                     *)
(*                                                                         *)
(* Left out: term, leaderID and the event callbacks, which are only shown  *)
(* to observers; no branch that changes a role or the record reads them.   *)
(*                                                                         *)
(* Prompt = TRUE describes a run in which no goroutine is delayed: time    *)
(* passes only when nothing is ready to run.                               *)
(***************************************************************************)
EXTENDS LockTable

CONSTANTS LeaseDuration, HeartbeatInterval, CheckInterval, Prompt,
          Events   \* which of the calls and failures below happen at all

Elector == Token

(* Config.Validate: both factors lie in (0, 1), the heartbeat's is smaller. *)
ConfigAssumption ==
    /\ LeaseDuration \in Nat /\ HeartbeatInterval \in Nat /\ CheckInterval \in Nat
    /\ 0 < HeartbeatInterval /\ HeartbeatInterval < CheckInterval
    /\ CheckInterval < LeaseDuration
    /\ Prompt \in BOOLEAN
    /\ Events \subseteq {"Stop", "Resign", "Crash", "StopBackend"}

VARIABLES
    entry,    \* the backend's record of the election key
    backend,  \* FALSE once the lock manager is stopped: every call errs
    el        \* el[e]: the fields of elector e and where its goroutines are

vars == <<entry, backend, el>>

New == [role |-> "Follower", running |-> FALSE, stopped |-> FALSE,
        start |-> "idle", stop |-> "idle", resign |-> "idle",
        loop |-> "none", seen |-> NoEntry,
        hb |-> HeartbeatInterval, hbDue |-> FALSE,   \* heartbeatTicker
        ck |-> CheckInterval, ckDue |-> FALSE,       \* checkTicker
        alive |-> TRUE]

Init ==
    /\ entry = NoEntry
    /\ backend = TRUE
    /\ el = [e \in Elector |-> New]

Holds(e) == HeldBy(entry, e)

-----------------------------------------------------------------------------
(* Start marks the elector running, unlocks mu, then spawns the loop. *)
Start(e) ==
    /\ el[e].alive /\ ~ el[e].stopped /\ ~ el[e].running
    /\ el' = [el EXCEPT ![e].running = TRUE, ![e].start = "spawn"]
    /\ UNCHANGED <<entry, backend>>

StartSpawn(e) ==
    /\ el[e].alive /\ el[e].start = "spawn"
    /\ el' = [el EXCEPT ![e].start = "idle", ![e].loop = "check"]
    /\ UNCHANGED <<entry, backend>>

(* Stop: the first critical section closes stopCh ... *)
Stop(e) ==
    /\ "Stop" \in Events
    /\ el[e].alive /\ ~ el[e].stopped
    /\ el' = [el EXCEPT ![e].stopped = TRUE, ![e].running = FALSE, ![e].stop = "wait"]
    /\ UNCHANGED <<entry, backend>>

LoopEnded(e) == el[e].loop \in {"none", "done"}

(* ... the second one, after wg.Wait, gives up the role ... *)
StopDemote(e) ==
    /\ el[e].alive /\ el[e].stop = "wait" /\ LoopEnded(e)
    /\ el' = [el EXCEPT ![e].role = "Follower",
                        ![e].stop = IF el[e].role = "Leader" THEN "unlock" ELSE "done"]
    /\ UNCHANGED <<entry, backend>>

(* ... and a former leader releases the record, whatever Unlock answers. *)
StopUnlock(e) ==
    /\ el[e].alive /\ el[e].stop = "unlock"
    /\ entry' = IF backend THEN AfterUnlock(entry, e) ELSE entry
    /\ el' = [el EXCEPT ![e].stop = "done"]
    /\ UNCHANGED backend

-----------------------------------------------------------------------------
(* The loop.  It starts in checkLeader, then selects. *)

(* A leader's heartbeat tick; the handler tests IsLeader before the call. *)
SelectHeartbeat(e) ==
    /\ el[e].alive /\ el[e].loop = "select" /\ el[e].hbDue
    /\ el' = [el EXCEPT ![e].hbDue = FALSE,
                        ![e].loop = IF el[e].role = "Leader" THEN "beat" ELSE "select"]
    /\ UNCHANGED <<entry, backend>>

SelectCheck(e) ==
    /\ el[e].alive /\ el[e].loop = "select" /\ el[e].ckDue
    /\ el' = [el EXCEPT ![e].ckDue = FALSE, ![e].loop = "check"]
    /\ UNCHANGED <<entry, backend>>

(* stopCh is closed by Stop only if the elector was running, that is, if     *)
(* there is or will be a loop to read it.                                    *)
SelectStop(e) ==
    /\ "Stop" \in Events
    /\ el[e].alive /\ el[e].loop = "select" /\ el[e].stopped
    /\ el' = [el EXCEPT ![e].loop = "done"]
    /\ UNCHANGED <<entry, backend>>

(* Slip: the heartbeat asks for the holder and does not extend the lease. *)
DoHeartbeatSlip(e) ==
    /\ el[e].alive /\ el[e].loop = "beat"
    /\ el' = [el EXCEPT ![e].loop =
                 IF backend /\ HeartbeatOk(entry, e) THEN "select" ELSE "beatFailed"]
    /\ UNCHANGED <<entry, backend>>

(* doHeartbeat *)
DoHeartbeat(e) ==
    /\ el[e].alive /\ el[e].loop = "beat"
    /\ entry' = IF backend THEN AfterHeartbeat(entry, e, LeaseDuration) ELSE entry
    /\ el' = [el EXCEPT ![e].loop =
                 IF backend /\ HeartbeatOk(entry, e) THEN "select" ELSE "beatFailed"]
    /\ UNCHANGED backend

HeartbeatFailed(e) ==
    /\ el[e].alive /\ el[e].loop = "beatFailed"
    /\ el' = [el EXCEPT ![e].role = "Follower",
                        ![e].loop = "select"]
    /\ UNCHANGED <<entry, backend>>

(* checkLeader: GetHolder; any error starts an election. *)
CheckLeader(e) ==
    /\ el[e].alive /\ el[e].loop = "check"
    /\ entry' = IF backend THEN DropLapsed(entry) ELSE entry
    /\ el' = [el EXCEPT ![e].loop = IF backend /\ Held(entry) THEN "checkRole" ELSE "elect",
                        ![e].seen = IF backend /\ Held(entry) THEN entry.token ELSE NoEntry]
    /\ UNCHANGED backend

CheckRole(e) ==
    /\ el[e].alive /\ el[e].loop = "checkRole"
    /\ el' = [el EXCEPT
         ![e].loop = IF el[e].role # "Leader" /\ el[e].seen = e THEN "won" ELSE "select",
         ![e].seen = NoEntry]
    /\ UNCHANGED <<entry, backend>>

(* startElection *)
StartElection(e) ==
    /\ el[e].alive /\ el[e].loop = "elect"
    /\ el' = IF el[e].role = "Leader"
             THEN [el EXCEPT ![e].loop = "select"]
             ELSE [el EXCEPT ![e].role = "Candidate", ![e].loop = "tryLock"]
    /\ UNCHANGED <<entry, backend>>

TryLock(e) ==
    /\ el[e].alive /\ el[e].loop = "tryLock"
    /\ entry' = IF backend THEN AfterLock(entry, e, LeaseDuration) ELSE entry
    /\ el' = [el EXCEPT ![e].loop = IF ~ backend THEN "lockErr"
                                    ELSE IF LockOk(entry, e) THEN "won" ELSE "lost"]
    /\ UNCHANGED backend

ElectionErr(e) ==
    /\ el[e].alive /\ el[e].loop = "lockErr"
    /\ el' = [el EXCEPT ![e].role = "Follower", ![e].loop = "select"]
    /\ UNCHANGED <<entry, backend>>

ElectionLost(e) ==
    /\ el[e].alive /\ el[e].loop = "lost"
    /\ el' = [el EXCEPT ![e].role = "Follower",
                        ![e].loop = "askWinner"]
    /\ UNCHANGED <<entry, backend>>

AskWinner(e) ==
    /\ el[e].alive /\ el[e].loop = "askWinner"
    /\ entry' = IF backend THEN DropLapsed(entry) ELSE entry
    /\ el' = [el EXCEPT ![e].loop = "select"]
    /\ UNCHANGED backend

BecomeLeader(e) ==
    /\ el[e].alive /\ el[e].loop = "won"
    /\ el' = [el EXCEPT ![e].role = "Leader", ![e].loop = "select"]
    /\ UNCHANGED <<entry, backend>>

-----------------------------------------------------------------------------
(* Resign reads the role, unlocks the backend, then gives up the role. *)
Resign(e) ==
    /\ "Resign" \in Events
    /\ el[e].alive /\ el[e].resign = "idle"
    /\ el[e].running /\ el[e].role = "Leader"
    /\ el' = [el EXCEPT ![e].resign = "unlock"]
    /\ UNCHANGED <<entry, backend>>

(* Of the errors of Unlock only ErrLockNotHeld (no record, another token) is *)
(* passed over; a lapsed record or a stopped backend ends Resign here.       *)
ResignUnlock(e) ==
    /\ el[e].alive /\ el[e].resign = "unlock"
    /\ entry' = IF backend THEN AfterUnlock(entry, e) ELSE entry
    /\ el' = [el EXCEPT ![e].resign =
                 IF ~ backend \/ (entry # NoEntry /\ IsExpired(entry)) THEN "idle" ELSE "demote"]
    /\ UNCHANGED backend

ResignDemote(e) ==
    /\ el[e].alive /\ el[e].resign = "demote"
    /\ el' = [el EXCEPT ![e].role = "Follower",
                        ![e].resign = "idle"]
    /\ UNCHANGED <<entry, backend>>

-----------------------------------------------------------------------------
(* Environment. *)

(* The process of e dies. *)
Crash(e) ==
    /\ "Crash" \in Events
    /\ el[e].alive
    /\ el' = [el EXCEPT ![e].alive = FALSE]
    /\ UNCHANGED <<entry, backend>>

StopBackend ==
    /\ "StopBackend" \in Events
    /\ backend
    /\ backend' = FALSE
    /\ UNCHANGED <<entry, el>>

(* A goroutine of e has something to do now. *)
Busy(e) ==
    /\ el[e].alive
    /\ \/ el[e].start = "spawn" \/ el[e].stop \in {"wait", "unlock"}
       \/ el[e].resign # "idle"
       \/ ~ LoopEnded(e) /\ (el[e].loop # "select" \/ el[e].hbDue \/ el[e].ckDue)

(* One tick.  A Go ticker whose last tick has not been read drops the next. *)
Ticked(r) ==
    IF r.loop \in {"none", "done"} THEN r
    ELSE [r EXCEPT !.hb = IF @ = 1 THEN HeartbeatInterval ELSE @ - 1,
                   !.hbDue = @ \/ r.hb = 1,
                   !.ck = IF @ = 1 THEN CheckInterval ELSE @ - 1,
                   !.ckDue = @ \/ r.ck = 1]

Tick ==
    /\ Prompt => \A e \in Elector : ~ Busy(e)
    /\ entry' = AfterTick(entry)
    /\ el' = [e \in Elector |-> Ticked(el[e])]
    /\ UNCHANGED backend

-----------------------------------------------------------------------------
RunLoop(e) ==
    \/ SelectHeartbeat(e) \/ SelectCheck(e) \/ SelectStop(e)
    \/ DoHeartbeat(e) \/ HeartbeatFailed(e)
    \/ CheckLeader(e) \/ CheckRole(e)
    \/ StartElection(e) \/ TryLock(e) \/ ElectionErr(e) \/ ElectionLost(e)
    \/ AskWinner(e) \/ BecomeLeader(e)

Finish(e) == StartSpawn(e) \/ StopDemote(e) \/ StopUnlock(e) \/ ResignUnlock(e) \/ ResignDemote(e)

Next ==
    \/ \E e \in Elector :
          Start(e) \/ Stop(e) \/ Resign(e) \/ RunLoop(e) \/ Finish(e) \/ Crash(e)
    \/ StopBackend
    \/ Tick

Spec == Init /\ [][Next]_vars

(* The scheduler runs every goroutine that is ready, and a select that is    *)
(* offered one branch again and again takes it: Go chooses among the ready   *)
(* branches at random.  Nobody is obliged to call Start, Stop or Resign.     *)
FairSpec ==
    /\ Spec
    /\ WF_vars(Tick)
    /\ \A e \in Elector :
          /\ WF_vars(RunLoop(e)) /\ WF_vars(StartSpawn(e))
          /\ WF_vars(StopDemote(e)) /\ WF_vars(StopUnlock(e))
          /\ WF_vars(ResignUnlock(e)) /\ WF_vars(ResignDemote(e))
          /\ SF_vars(SelectHeartbeat(e)) /\ SF_vars(SelectCheck(e))

-----------------------------------------------------------------------------
ElectorState ==
    [role : {"Follower", "Candidate", "Leader"}, running : BOOLEAN, stopped : BOOLEAN,
     start : {"idle", "spawn"}, stop : {"idle", "wait", "unlock", "done"},
     resign : {"idle", "unlock", "demote"},
     loop : {"none", "select", "beat", "beatFailed", "check", "checkRole",
             "elect", "tryLock", "lockErr", "lost", "askWinner", "won", "done"},
     seen : Elector \cup {NoEntry},
     hb : Nat, hbDue : BOOLEAN, ck : Nat, ckDue : BOOLEAN, alive : BOOLEAN]

TypeOK ==
    /\ entry \in Entry \cup {NoEntry}
    /\ backend \in BOOLEAN
    /\ el \in [Elector -> ElectorState]

IsLeader(e) == el[e].alive /\ el[e].role = "Leader"

(* The record is never nested: whatever the loop, Resign and Stop of one     *)
(* elector do, the elector asks for the lock only when it does not hold it,  *)
(* so that one Unlock always releases it.                                    *)
SingleHold == entry # NoEntry => entry.reentrancy = 1

(* With nobody delayed, nobody resigning and the backend up, a leader holds  *)
(* the lock: heartbeats at HeartbeatInterval keep the lease from lapsing, so *)
(* there is never a second leader, and a crashed one is replaced safely.     *)
(* (After a Stop that raced with Start see StopReleases.)                    *)
LeaderHoldsLease ==
    \A e \in Elector : IsLeader(e) /\ backend /\ el[e].stop # "done" => Holds(e)

(* However the loop, Resign and Stop of an elector interleave, its lock is   *)
(* never nested; and with nobody delayed and nobody resigning a leader holds *)
(* the lock whenever the backend is up.                                      *)
LeasesExclude == SingleHold /\ (Prompt /\ "Resign" \notin Events => LeaderHoldsLease)

(* An elector whose lease was lost while it was delayed does not stay leader *)
(* for good: it steps down or wins the lock again.                           *)
LeadsByLease(e) == IsLeader(e) => Holds(e)

StaleLeaderStepsDown == \A e \in Elector : []<>LeadsByLease(e)

(* While some elector keeps running on a working backend, there is a leader  *)
(* again and again, whoever crashes, stops or resigns.                       *)
Running(e) == el[e].alive /\ el[e].running
SomeLeader == \E e \in Elector : IsLeader(e)
NobodyRuns == ~ backend \/ \A e \in Elector : ~ Running(e)
SomeResign == \E e \in Elector : el[e].resign # "idle"

LeaderRecurs == []<>SomeLeader \/ <>[]NobodyRuns \/ []<>SomeResign

(* The promise of docs/leaderelect.md: at any time only one elector claims   *)
(* to be the leader.                                                         *)
OneLeader == \A e, f \in Elector : IsLeader(e) /\ IsLeader(f) => e = f

(* The promise of docs/leaderelect.md on Stop: once it has returned, nothing *)
(* is held any more.                                                         *)
StopReleases ==
    \A e \in Elector : el[e].alive /\ backend /\ el[e].stop = "done" => ~ Holds(e)
=============================================================================
