------------------------ MODULE LeaderElectorProofs ------------------------
(***************************************************************************)
(* Theorems about LeaderElector, for any set of electors, any lease and    *)
(* intervals that Config.Validate accepts, and any mix of the calls and    *)
(* failures in Events, delayed goroutines included.                        *)
(***************************************************************************)
EXTENDS LeaderElector, TLAPS

(* Where the loop of e stands, and what it knows of the record there: it     *)
(* asks for the lock, reports a defeat or a lost lease only while e does not *)
(* hold the record.                                                          *)
LoopInv(e) ==
    /\ ~ el[e].running /\ ~ el[e].stopped => el[e].loop = "none" /\ el[e].start = "idle"
    /\ el[e].start = "spawn" => el[e].loop = "none"
    /\ el[e].loop \in {"elect", "tryLock", "lost", "beatFailed"} /\ backend => ~ Holds(e)
    /\ el[e].loop = "lockErr" => ~ backend
    /\ el[e].loop = "none" => el[e].role = "Follower"
    /\ el[e].loop = "done" => el[e].stopped
    /\ el[e].stopped <=> el[e].stop # "idle"
    /\ el[e].stop = "unlock" => el[e].loop = "done" /\ el[e].role # "Leader"
    /\ "Resign" \notin Events => el[e].resign = "idle"
    /\ "Stop" \notin Events => el[e].stop = "idle"
    /\ el[e].hb \in 1 .. HeartbeatInterval /\ el[e].ck \in 1 .. CheckInterval

(* How long the lease of a leader lasts at least: a lease from the last      *)
(* heartbeat, less the time until the next; while that one is due, a lease   *)
(* less one interval.                                                        *)
Remaining(e) ==
    LeaseDuration - HeartbeatInterval
        + (IF el[e].hbDue \/ el[e].loop = "beat" THEN 0 ELSE el[e].hb)

(* Without delays and resignations: leaders, and only they, hold the record. *)
LeaseInv(e) ==
    Prompt /\ "Resign" \notin Events /\ backend /\ el[e].alive /\ el[e].stop # "done" =>
        /\ el[e].role = "Leader" \/ el[e].loop = "won" =>
              Holds(e) /\ entry.expiresAt >= Remaining(e)
        /\ Holds(e) => el[e].role = "Leader" \/ el[e].loop = "won" \/ el[e].stop = "unlock"
        /\ el[e].loop = "checkRole" /\ el[e].seen = e => el[e].role = "Leader"

IInv ==
    /\ TypeOK
    /\ SingleHold
    /\ "StopBackend" \notin Events => backend
    /\ \A e \in Elector : LoopInv(e) /\ LeaseInv(e)

(* What is known of one elector. *)
ElInv(e) == LoopInv(e) /\ LeaseInv(e)

-----------------------------------------------------------------------------
(* The record of the key, held at most once. *)
Single(r) == r \in Entry \cup {NoEntry} /\ (r # NoEntry => r.reentrancy = 1)

(* Another elector holds the record q only if it held r, and q is r. *)
SparesOthers(r, q, e) ==
    \A f \in Elector \ {e} : HeldBy(r, f) \/ HeldBy(q, f) => q = r

(* GetHolder changes nothing that somebody holds. *)
LEMMA AfterGet ==
    ASSUME NEW r, Single(r), NEW e \in Elector
    PROVE  /\ Single(DropLapsed(r)) /\ SparesOthers(r, DropLapsed(r), e)
           /\ HeldBy(r, e) => DropLapsed(r) = r
           /\ ~ HeldBy(r, e) => ~ HeldBy(DropLapsed(r), e)
BY DEF Single, SparesOthers, DropLapsed, HeldBy, Held

(* Unlock releases a record that is held once. *)
LEMMA AfterRelease ==
    ASSUME NEW r, Single(r), NEW e \in Elector
    PROVE  /\ Single(AfterUnlock(r, e)) /\ SparesOthers(r, AfterUnlock(r, e), e)
           /\ ~ HeldBy(AfterUnlock(r, e), e)
BY DEF Single, SparesOthers, AfterUnlock, UnlockOk, DropLapsed, HeldBy, Held

(* Heartbeat restarts the lease of the holder and does nothing for others. *)
LEMMA AfterBeat ==
    ASSUME ConfigAssumption, NEW r, Single(r), NEW e \in Elector,
           NEW q, q = AfterHeartbeat(r, e, LeaseDuration)
    PROVE  /\ Single(q) /\ SparesOthers(r, q, e)
           /\ HeldBy(r, e) => HeldBy(q, e) /\ q.expiresAt = LeaseDuration
           /\ ~ HeldBy(r, e) => ~ HeldBy(q, e)
<1>1. CASE HeldBy(r, e)
  <2>1. r \in Entry /\ r.token = e /\ r.reentrancy = 1 /\ LeaseDuration \in Nat
    BY <1>1 DEF Single, HeldBy, Held, ConfigAssumption
  <2>2. q \in Entry /\ q.expiresAt = LeaseDuration /\ q.token = e /\ q.reentrancy = 1
    BY <1>1, <2>1 DEF AfterHeartbeat, HeartbeatOk, Entry
  <2>3. HeldBy(q, e)
    BY <2>1, <2>2, NoEntryAssumption DEF HeldBy, Held, IsExpired
  <2>q. QED BY <1>1, <2>1, <2>2, <2>3 DEF Single, SparesOthers, HeldBy
<1>2. CASE ~ HeldBy(r, e)
  BY <1>2, AfterGet DEF AfterHeartbeat, HeartbeatOk
<1>q. QED BY <1>1, <1>2

(* TryLock by an elector that does not hold the record: it gets it for a     *)
(* lease, or somebody else has it and nothing changes.                       *)
LEMMA AfterTry ==
    ASSUME ConfigAssumption, NEW r, Single(r), NEW e \in Elector, ~ HeldBy(r, e),
           NEW q, q = AfterLock(r, e, LeaseDuration)
    PROVE  /\ Single(q) /\ SparesOthers(r, q, e)
           /\ LockOk(r, e) => HeldBy(q, e) /\ q.expiresAt = LeaseDuration
           /\ ~ LockOk(r, e) => ~ HeldBy(q, e)
<1>1. CASE Held(r)
  BY <1>1 DEF AfterLock, LockOk, SparesOthers, Single, HeldBy
<1>2. CASE ~ Held(r)
  <2>1. LeaseDuration \in Nat
    BY DEF ConfigAssumption
  <2>2. q \in Entry /\ q.expiresAt = LeaseDuration /\ q.token = e /\ q.reentrancy = 1
    BY <1>2, <2>1 DEF AfterLock, Entry, Elector
  <2>3. HeldBy(q, e)
    BY <2>1, <2>2, NoEntryAssumption DEF HeldBy, Held, IsExpired
  <2>q. QED BY <1>2, <2>2, <2>3 DEF Single, SparesOthers, HeldBy, LockOk
<1>q. QED BY <1>1, <1>2

-----------------------------------------------------------------------------
(* A step that touches neither an elector nor the record it holds keeps what *)
(* is known about it.                                                        *)
LEMMA OthersInv ==
    ASSUME NEW e \in Elector, NEW f \in Elector \ {e}, ElInv(f),
           el'[f] = el[f], backend' = backend, SparesOthers(entry, entry', e)
    PROVE  ElInv(f)'
<1>1. (Holds(f)' <=> Holds(f)) /\ (Holds(f) => entry' = entry)
  BY DEF SparesOthers, Holds
<1>2. LoopInv(f)'
  BY <1>1 DEF ElInv, LoopInv
<1>3. LeaseInv(f)'
  BY <1>1 DEF ElInv, LeaseInv, Remaining
<1>q. QED BY <1>2, <1>3 DEF ElInv

(* It is enough to look at the elector that takes the step. *)
LEMMA StepOf ==
    ASSUME IInv, NEW e \in Elector, Single(entry'), SparesOthers(entry, entry', e),
           backend' = backend, NEW r \in ElectorState, el' = [el EXCEPT ![e] = r],
           ElInv(e)'
    PROVE  IInv'
<1>1. TypeOK' /\ SingleHold'
  BY DEF IInv, TypeOK, Single, SingleHold
<1>2. \A f \in Elector \ {e} : el'[f] = el[f] /\ ElInv(f)
  BY DEF IInv, TypeOK, ElInv
<1>3. \A f \in Elector \ {e} : ElInv(f)'
  BY <1>2, OthersInv
<1>q. QED BY <1>1, <1>3 DEF IInv, ElInv

(* The same for a step without a call of the backend. *)
LEMMA QuietStepOf ==
    ASSUME IInv, NEW e \in Elector, UNCHANGED <<entry, backend>>,
           NEW r \in ElectorState, el' = [el EXCEPT ![e] = r], ElInv(e)'
    PROVE  IInv'
<1>1. Single(entry') /\ SparesOthers(entry, entry', e)
  BY DEF IInv, TypeOK, SingleHold, Single, SparesOthers
<1>q. QED BY Zenon, <1>1, StepOf

-----------------------------------------------------------------------------
(* The tickers, and the fields that the loop does not write. *)
KeepsTickers(r, s) == r.hb = s.hb /\ r.hbDue = s.hbDue /\ r.ck = s.ck /\ r.alive = s.alive

KeepsCalls(r, s) ==
    /\ r.running = s.running /\ r.stopped = s.stopped /\ r.start = s.start
    /\ r.stop = s.stop /\ r.resign = s.resign

KeepsRole(r, s) == r.role = s.role /\ r.loop = s.loop /\ r.seen = s.seen

(* Start: a loop begins once. *)
LEMMA StartInv ==
    ASSUME ConfigAssumption, IInv, NEW e \in Elector, Start(e)
    PROVE  IInv'
<1>1. el[e] \in ElectorState /\ ElInv(e) /\ UNCHANGED <<entry, backend>>
  BY DEF IInv, TypeOK, ElInv, Start
<1>2. PICK r \in ElectorState : r = [el[e] EXCEPT !.running = TRUE, !.start = "spawn"]
  BY Zenon, <1>1 DEF ElectorState
<1>3. el' = [el EXCEPT ![e] = r] /\ el'[e] = r
  BY Zenon, <1>2 DEF Start, IInv, TypeOK
<1>4. /\ KeepsTickers(r, el[e]) /\ KeepsRole(r, el[e]) /\ r.running
      /\ r.start = "spawn" /\ r.stopped = el[e].stopped /\ r.stop = el[e].stop
      /\ r.resign = el[e].resign
  BY <1>1, <1>2 DEF ElectorState, KeepsTickers, KeepsRole
<1>5. LoopInv(e)'
  BY <1>1, <1>3, <1>4 DEF Start, ElInv, LoopInv, Holds, KeepsTickers, KeepsRole
<1>6. LeaseInv(e)'
  BY <1>1, <1>3, <1>4 DEF Start, ElInv, LoopInv, LeaseInv, Holds, Remaining,
     KeepsTickers, KeepsRole
<1>q. QED BY Zenon, <1>1, <1>3, <1>5, <1>6, QuietStepOf DEF ElInv

(* The loop begins in checkLeader. *)
LEMMA StartSpawnInv ==
    ASSUME ConfigAssumption, IInv, NEW e \in Elector, StartSpawn(e)
    PROVE  IInv'
<1>1. el[e] \in ElectorState /\ ElInv(e) /\ UNCHANGED <<entry, backend>>
  BY DEF IInv, TypeOK, ElInv, StartSpawn
<1>2. PICK r \in ElectorState : r = [el[e] EXCEPT !.start = "idle", !.loop = "check"]
  BY Zenon, <1>1 DEF ElectorState
<1>3. el' = [el EXCEPT ![e] = r] /\ el'[e] = r
  BY Zenon, <1>2 DEF StartSpawn, IInv, TypeOK
<1>4. /\ KeepsTickers(r, el[e]) /\ r.start = "idle" /\ r.loop = "check"
      /\ r.running = el[e].running /\ r.stopped = el[e].stopped /\ r.stop = el[e].stop
      /\ r.resign = el[e].resign /\ r.role = el[e].role /\ r.seen = el[e].seen
  BY <1>1, <1>2 DEF ElectorState, KeepsTickers
<1>5. LoopInv(e)'
  BY <1>1, <1>3, <1>4 DEF StartSpawn, ElInv, LoopInv, Holds, KeepsTickers
<1>6. LeaseInv(e)'
  BY <1>1, <1>3, <1>4 DEF StartSpawn, ElInv, LoopInv, LeaseInv, Holds, Remaining,
     KeepsTickers
<1>q. QED BY Zenon, <1>1, <1>3, <1>5, <1>6, QuietStepOf DEF ElInv

(* Stop closes stopCh and waits for the loop. *)
LEMMA StopInv ==
    ASSUME ConfigAssumption, IInv, NEW e \in Elector, Stop(e)
    PROVE  IInv'
<1>1. el[e] \in ElectorState /\ ElInv(e) /\ UNCHANGED <<entry, backend>>
  BY DEF IInv, TypeOK, ElInv, Stop
<1>2. PICK r \in ElectorState : r =
         [el[e] EXCEPT !.stopped = TRUE, !.running = FALSE, !.stop = "wait"]
  BY Zenon, <1>1 DEF ElectorState
<1>3. el' = [el EXCEPT ![e] = r] /\ el'[e] = r
  BY Zenon, <1>2 DEF Stop, IInv, TypeOK
<1>4. /\ KeepsTickers(r, el[e]) /\ KeepsRole(r, el[e]) /\ r.stopped /\ ~ r.running
      /\ r.stop = "wait" /\ r.start = el[e].start /\ r.resign = el[e].resign
  BY <1>1, <1>2 DEF ElectorState, KeepsTickers, KeepsRole
<1>5. LoopInv(e)'
  BY <1>1, <1>3, <1>4 DEF Stop, ElInv, LoopInv, Holds, KeepsTickers, KeepsRole
<1>6. LeaseInv(e)'
  BY <1>1, <1>3, <1>4 DEF Stop, ElInv, LoopInv, LeaseInv, Holds, Remaining,
     KeepsTickers, KeepsRole
<1>q. QED BY Zenon, <1>1, <1>3, <1>5, <1>6, QuietStepOf DEF ElInv

(* After the loop Stop gives up the role: a leader has a record to release. *)
LEMMA StopDemoteInv ==
    ASSUME ConfigAssumption, IInv, NEW e \in Elector, StopDemote(e)
    PROVE  IInv'
<1>1. el[e] \in ElectorState /\ ElInv(e) /\ UNCHANGED <<entry, backend>>
  BY DEF IInv, TypeOK, ElInv, StopDemote
<1>2. PICK r \in ElectorState : r =
         [el[e] EXCEPT !.role = "Follower", !.stop = IF el[e].role = "Leader" THEN "unlock" ELSE "done"]
  BY Zenon, <1>1 DEF ElectorState
<1>3. el' = [el EXCEPT ![e] = r] /\ el'[e] = r
  BY Zenon, <1>2 DEF StopDemote, IInv, TypeOK
<1>4. /\ KeepsTickers(r, el[e]) /\ r.role = "Follower"
      /\ r.stop = (IF el[e].role = "Leader" THEN "unlock" ELSE "done")
      /\ r.running = el[e].running /\ r.stopped = el[e].stopped
      /\ r.start = el[e].start /\ r.resign = el[e].resign /\ r.loop = el[e].loop
      /\ r.seen = el[e].seen
  BY <1>1, <1>2 DEF ElectorState, KeepsTickers
<1>5. LoopInv(e)'
  BY <1>1, <1>3, <1>4 DEF StopDemote, ElInv, LoopInv, Holds, KeepsTickers, LoopEnded
<1>6. LeaseInv(e)'
  BY <1>1, <1>3, <1>4 DEF StopDemote, ElInv, LoopInv, LeaseInv, Holds, Remaining,
     KeepsTickers, LoopEnded
<1>q. QED BY Zenon, <1>1, <1>3, <1>5, <1>6, QuietStepOf DEF ElInv

(* A heartbeat tick sends a leader to doHeartbeat. *)
LEMMA SelectHeartbeatInv ==
    ASSUME ConfigAssumption, IInv, NEW e \in Elector, SelectHeartbeat(e)
    PROVE  IInv'
<1>1. el[e] \in ElectorState /\ ElInv(e) /\ UNCHANGED <<entry, backend>>
  BY DEF IInv, TypeOK, ElInv, SelectHeartbeat
<1>2. PICK r \in ElectorState : r =
         [el[e] EXCEPT !.hbDue = FALSE, !.loop = IF el[e].role = "Leader" THEN "beat" ELSE "select"]
  BY Zenon, <1>1 DEF ElectorState
<1>3. el' = [el EXCEPT ![e] = r] /\ el'[e] = r
  BY Zenon, <1>2 DEF SelectHeartbeat, IInv, TypeOK
<1>4. /\ KeepsCalls(r, el[e]) /\ ~ r.hbDue
      /\ r.loop = (IF el[e].role = "Leader" THEN "beat" ELSE "select")
      /\ r.hb = el[e].hb /\ r.ck = el[e].ck /\ r.alive = el[e].alive
      /\ r.role = el[e].role /\ r.seen = el[e].seen
  BY <1>1, <1>2 DEF ElectorState, KeepsCalls
<1>5. LoopInv(e)'
  BY <1>1, <1>3, <1>4 DEF SelectHeartbeat, ElInv, LoopInv, Holds, KeepsCalls
<1>6. LeaseInv(e)'
  BY <1>1, <1>3, <1>4 DEF SelectHeartbeat, ElInv, LoopInv, LeaseInv, Holds, Remaining,
     KeepsCalls
<1>q. QED BY Zenon, <1>1, <1>3, <1>5, <1>6, QuietStepOf DEF ElInv

(* A check tick sends the loop to checkLeader. *)
LEMMA SelectCheckInv ==
    ASSUME ConfigAssumption, IInv, NEW e \in Elector, SelectCheck(e)
    PROVE  IInv'
<1>1. el[e] \in ElectorState /\ ElInv(e) /\ UNCHANGED <<entry, backend>>
  BY DEF IInv, TypeOK, ElInv, SelectCheck
<1>2. PICK r \in ElectorState : r = [el[e] EXCEPT !.ckDue = FALSE, !.loop = "check"]
  BY Zenon, <1>1 DEF ElectorState
<1>3. el' = [el EXCEPT ![e] = r] /\ el'[e] = r
  BY Zenon, <1>2 DEF SelectCheck, IInv, TypeOK
<1>4. /\ KeepsTickers(r, el[e]) /\ KeepsCalls(r, el[e]) /\ r.loop = "check"
      /\ r.role = el[e].role /\ r.seen = el[e].seen
  BY <1>1, <1>2 DEF ElectorState, KeepsTickers, KeepsCalls
<1>5. LoopInv(e)'
  BY <1>1, <1>3, <1>4 DEF SelectCheck, ElInv, LoopInv, Holds, KeepsTickers, KeepsCalls
<1>6. LeaseInv(e)'
  BY <1>1, <1>3, <1>4 DEF SelectCheck, ElInv, LoopInv, LeaseInv, Holds, Remaining,
     KeepsTickers, KeepsCalls
<1>q. QED BY Zenon, <1>1, <1>3, <1>5, <1>6, QuietStepOf DEF ElInv

(* The loop ends when stopCh is closed. *)
LEMMA SelectStopInv ==
    ASSUME ConfigAssumption, IInv, NEW e \in Elector, SelectStop(e)
    PROVE  IInv'
<1>1. el[e] \in ElectorState /\ ElInv(e) /\ UNCHANGED <<entry, backend>>
  BY DEF IInv, TypeOK, ElInv, SelectStop
<1>2. PICK r \in ElectorState : r = [el[e] EXCEPT !.loop = "done"]
  BY Zenon, <1>1 DEF ElectorState
<1>3. el' = [el EXCEPT ![e] = r] /\ el'[e] = r
  BY <1>2 DEF SelectStop, IInv, TypeOK
<1>4. /\ KeepsTickers(r, el[e]) /\ KeepsCalls(r, el[e]) /\ r.loop = "done"
      /\ r.role = el[e].role /\ r.seen = el[e].seen
  BY <1>1, <1>2 DEF ElectorState, KeepsTickers, KeepsCalls
<1>5. LoopInv(e)'
  BY <1>1, <1>3, <1>4 DEF SelectStop, ElInv, LoopInv, Holds, KeepsTickers, KeepsCalls
<1>6. LeaseInv(e)'
  BY <1>1, <1>3, <1>4 DEF SelectStop, ElInv, LoopInv, LeaseInv, Holds, Remaining,
     KeepsTickers, KeepsCalls
<1>q. QED BY Zenon, <1>1, <1>3, <1>5, <1>6, QuietStepOf DEF ElInv

(* A leader whose heartbeat failed does not hold the record, and steps down. *)
LEMMA HeartbeatFailedInv ==
    ASSUME ConfigAssumption, IInv, NEW e \in Elector, HeartbeatFailed(e)
    PROVE  IInv'
<1>1. el[e] \in ElectorState /\ ElInv(e) /\ UNCHANGED <<entry, backend>>
  BY DEF IInv, TypeOK, ElInv, HeartbeatFailed
<1>2. PICK r \in ElectorState : r =
         [el[e] EXCEPT !.role = "Follower", !.loop = "select"]
  BY Zenon, <1>1 DEF ElectorState
<1>3. el' = [el EXCEPT ![e] = r] /\ el'[e] = r
  BY Zenon, <1>2 DEF HeartbeatFailed, IInv, TypeOK
<1>4. /\ KeepsTickers(r, el[e]) /\ KeepsCalls(r, el[e]) /\ r.role = "Follower"
      /\ r.loop = "select" /\ r.seen = el[e].seen
  BY <1>1, <1>2 DEF ElectorState, KeepsTickers, KeepsCalls
<1>5. LoopInv(e)'
  BY <1>1, <1>3, <1>4 DEF HeartbeatFailed, ElInv, LoopInv, Holds, KeepsTickers, KeepsCalls
<1>6. LeaseInv(e)'
  BY <1>1, <1>3, <1>4 DEF HeartbeatFailed, ElInv, LoopInv, LeaseInv, Holds, Remaining,
     KeepsTickers, KeepsCalls
<1>q. QED BY Zenon, <1>1, <1>3, <1>5, <1>6, QuietStepOf DEF ElInv

(* checkLeader finds another leader, or itself. *)
LEMMA CheckRoleInv ==
    ASSUME ConfigAssumption, IInv, NEW e \in Elector, CheckRole(e)
    PROVE  IInv'
<1>1. el[e] \in ElectorState /\ ElInv(e) /\ UNCHANGED <<entry, backend>>
  BY DEF IInv, TypeOK, ElInv, CheckRole
<1>2. PICK r \in ElectorState : r =
         [el[e] EXCEPT !.loop = IF el[e].role # "Leader" /\ el[e].seen = e THEN "won" ELSE "select", !.seen = NoEntry]
  BY Zenon, <1>1 DEF ElectorState
<1>3. el' = [el EXCEPT ![e] = r] /\ el'[e] = r
  BY Zenon, <1>2 DEF CheckRole, IInv, TypeOK
<1>4. /\ KeepsTickers(r, el[e]) /\ KeepsCalls(r, el[e])
      /\ r.loop = (IF el[e].role # "Leader" /\ el[e].seen = e THEN "won" ELSE "select")
      /\ r.role = el[e].role
  BY <1>1, <1>2 DEF ElectorState, KeepsTickers, KeepsCalls
<1>5. LoopInv(e)'
  BY <1>1, <1>3, <1>4 DEF CheckRole, ElInv, LoopInv, Holds, KeepsTickers, KeepsCalls
<1>6. LeaseInv(e)'
  BY <1>1, <1>3, <1>4 DEF CheckRole, ElInv, LoopInv, LeaseInv, Holds, Remaining,
     KeepsTickers, KeepsCalls
<1>q. QED BY Zenon, <1>1, <1>3, <1>5, <1>6, QuietStepOf DEF ElInv

(* An election on a stopped backend makes a follower. *)
LEMMA ElectionErrInv ==
    ASSUME ConfigAssumption, IInv, NEW e \in Elector, ElectionErr(e)
    PROVE  IInv'
<1>1. el[e] \in ElectorState /\ ElInv(e) /\ UNCHANGED <<entry, backend>>
  BY DEF IInv, TypeOK, ElInv, ElectionErr
<1>2. PICK r \in ElectorState : r =
         [el[e] EXCEPT !.role = "Follower", !.loop = "select"]
  BY Zenon, <1>1 DEF ElectorState
<1>3. el' = [el EXCEPT ![e] = r] /\ el'[e] = r
  BY Zenon, <1>2 DEF ElectionErr, IInv, TypeOK
<1>4. /\ KeepsTickers(r, el[e]) /\ KeepsCalls(r, el[e]) /\ r.role = "Follower"
      /\ r.loop = "select" /\ r.seen = el[e].seen
  BY <1>1, <1>2 DEF ElectorState, KeepsTickers, KeepsCalls
<1>5. LoopInv(e)'
  BY <1>1, <1>3, <1>4 DEF ElectionErr, ElInv, LoopInv, Holds, KeepsTickers, KeepsCalls
<1>6. LeaseInv(e)'
  BY <1>1, <1>3, <1>4 DEF ElectionErr, ElInv, LoopInv, LeaseInv, Holds, Remaining,
     KeepsTickers, KeepsCalls
<1>q. QED BY Zenon, <1>1, <1>3, <1>5, <1>6, QuietStepOf DEF ElInv

(* A lost election makes a follower. *)
LEMMA ElectionLostInv ==
    ASSUME ConfigAssumption, IInv, NEW e \in Elector, ElectionLost(e)
    PROVE  IInv'
<1>1. el[e] \in ElectorState /\ ElInv(e) /\ UNCHANGED <<entry, backend>>
  BY DEF IInv, TypeOK, ElInv, ElectionLost
<1>2. PICK r \in ElectorState : r =
         [el[e] EXCEPT !.role = "Follower", !.loop = "askWinner"]
  BY Zenon, <1>1 DEF ElectorState
<1>3. el' = [el EXCEPT ![e] = r] /\ el'[e] = r
  BY Zenon, <1>2 DEF ElectionLost, IInv, TypeOK
<1>4. /\ KeepsTickers(r, el[e]) /\ KeepsCalls(r, el[e]) /\ r.role = "Follower"
      /\ r.loop = "askWinner" /\ r.seen = el[e].seen
  BY <1>1, <1>2 DEF ElectorState, KeepsTickers, KeepsCalls
<1>5. LoopInv(e)'
  BY <1>1, <1>3, <1>4 DEF ElectionLost, ElInv, LoopInv, Holds, KeepsTickers, KeepsCalls
<1>6. LeaseInv(e)'
  BY <1>1, <1>3, <1>4 DEF ElectionLost, ElInv, LoopInv, LeaseInv, Holds, Remaining,
     KeepsTickers, KeepsCalls
<1>q. QED BY Zenon, <1>1, <1>3, <1>5, <1>6, QuietStepOf DEF ElInv

(* The winner becomes the leader. *)
LEMMA BecomeLeaderInv ==
    ASSUME ConfigAssumption, IInv, NEW e \in Elector, BecomeLeader(e)
    PROVE  IInv'
<1>1. el[e] \in ElectorState /\ ElInv(e) /\ UNCHANGED <<entry, backend>>
  BY DEF IInv, TypeOK, ElInv, BecomeLeader
<1>2. PICK r \in ElectorState : r =
         [el[e] EXCEPT !.role = "Leader", !.loop = "select"]
  BY Zenon, <1>1 DEF ElectorState
<1>3. el' = [el EXCEPT ![e] = r] /\ el'[e] = r
  BY Zenon, <1>2 DEF BecomeLeader, IInv, TypeOK
<1>4. /\ KeepsTickers(r, el[e]) /\ KeepsCalls(r, el[e]) /\ r.role = "Leader"
      /\ r.loop = "select" /\ r.seen = el[e].seen
  BY <1>1, <1>2 DEF ElectorState, KeepsTickers, KeepsCalls
<1>5. LoopInv(e)'
  BY <1>1, <1>3, <1>4 DEF BecomeLeader, ElInv, LoopInv, Holds, KeepsTickers, KeepsCalls
<1>6. LeaseInv(e)'
  BY <1>1, <1>3, <1>4 DEF BecomeLeader, ElInv, LoopInv, LeaseInv, Holds, Remaining,
     KeepsTickers, KeepsCalls
<1>q. QED BY Zenon, <1>1, <1>3, <1>5, <1>6, QuietStepOf DEF ElInv

(* Resign begins with a leader. *)
LEMMA ResignInv ==
    ASSUME ConfigAssumption, IInv, NEW e \in Elector, Resign(e)
    PROVE  IInv'
<1>1. el[e] \in ElectorState /\ ElInv(e) /\ UNCHANGED <<entry, backend>>
  BY DEF IInv, TypeOK, ElInv, Resign
<1>2. PICK r \in ElectorState : r = [el[e] EXCEPT !.resign = "unlock"]
  BY Zenon, <1>1 DEF ElectorState
<1>3. el' = [el EXCEPT ![e] = r] /\ el'[e] = r
  BY <1>2 DEF Resign, IInv, TypeOK
<1>4. /\ KeepsTickers(r, el[e]) /\ KeepsRole(r, el[e]) /\ r.resign = "unlock"
      /\ r.running = el[e].running /\ r.stopped = el[e].stopped
      /\ r.start = el[e].start /\ r.stop = el[e].stop
  BY <1>1, <1>2 DEF ElectorState, KeepsTickers, KeepsRole
<1>5. LoopInv(e)'
  BY <1>1, <1>3, <1>4 DEF Resign, ElInv, LoopInv, Holds, KeepsTickers, KeepsRole
<1>6. LeaseInv(e)'
  BY <1>1, <1>3, <1>4 DEF Resign, ElInv, LoopInv, LeaseInv, Holds, Remaining,
     KeepsTickers, KeepsRole
<1>q. QED BY Zenon, <1>1, <1>3, <1>5, <1>6, QuietStepOf DEF ElInv

(* Resign ends with a follower. *)
LEMMA ResignDemoteInv ==
    ASSUME ConfigAssumption, IInv, NEW e \in Elector, ResignDemote(e)
    PROVE  IInv'
<1>1. el[e] \in ElectorState /\ ElInv(e) /\ UNCHANGED <<entry, backend>>
  BY DEF IInv, TypeOK, ElInv, ResignDemote
<1>2. PICK r \in ElectorState : r =
         [el[e] EXCEPT !.role = "Follower", !.resign = "idle"]
  BY Zenon, <1>1 DEF ElectorState
<1>3. el' = [el EXCEPT ![e] = r] /\ el'[e] = r
  BY Zenon, <1>2 DEF ResignDemote, IInv, TypeOK
<1>4. /\ KeepsTickers(r, el[e]) /\ r.role = "Follower" /\ r.resign = "idle"
      /\ r.running = el[e].running /\ r.stopped = el[e].stopped
      /\ r.start = el[e].start /\ r.stop = el[e].stop /\ r.loop = el[e].loop
      /\ r.seen = el[e].seen
  BY <1>1, <1>2 DEF ElectorState, KeepsTickers
<1>5. LoopInv(e)'
  BY <1>1, <1>3, <1>4 DEF ResignDemote, ElInv, LoopInv, Holds, KeepsTickers
<1>6. LeaseInv(e)'
  BY <1>1, <1>3, <1>4 DEF ResignDemote, ElInv, LoopInv, LeaseInv, Holds, Remaining,
     KeepsTickers
<1>q. QED BY Zenon, <1>1, <1>3, <1>5, <1>6, QuietStepOf DEF ElInv

(* A process that died claims nothing. *)
LEMMA CrashInv ==
    ASSUME ConfigAssumption, IInv, NEW e \in Elector, Crash(e)
    PROVE  IInv'
<1>1. el[e] \in ElectorState /\ ElInv(e) /\ UNCHANGED <<entry, backend>>
  BY DEF IInv, TypeOK, ElInv, Crash
<1>2. PICK r \in ElectorState : r = [el[e] EXCEPT !.alive = FALSE]
  BY Zenon, <1>1 DEF ElectorState
<1>3. el' = [el EXCEPT ![e] = r] /\ el'[e] = r
  BY <1>2 DEF Crash, IInv, TypeOK
<1>4. /\ KeepsCalls(r, el[e]) /\ KeepsRole(r, el[e]) /\ ~ r.alive /\ r.hb = el[e].hb
      /\ r.hbDue = el[e].hbDue /\ r.ck = el[e].ck
  BY <1>1, <1>2 DEF ElectorState, KeepsCalls, KeepsRole
<1>5. LoopInv(e)'
  BY <1>1, <1>3, <1>4 DEF Crash, ElInv, LoopInv, Holds, KeepsCalls, KeepsRole
<1>6. LeaseInv(e)'
  BY <1>1, <1>3, <1>4 DEF Crash, ElInv, LoopInv, LeaseInv, Holds, Remaining,
     KeepsCalls, KeepsRole
<1>q. QED BY Zenon, <1>1, <1>3, <1>5, <1>6, QuietStepOf DEF ElInv

(* startElection goes on with TryLock unless e leads already. *)
LEMMA StartElectionInv ==
    ASSUME ConfigAssumption, IInv, NEW e \in Elector, StartElection(e)
    PROVE  IInv'
<1>1. el[e] \in ElectorState /\ ElInv(e) /\ UNCHANGED <<entry, backend>>
  BY DEF IInv, TypeOK, ElInv, StartElection
<1>2. PICK r \in ElectorState :
         r = IF el[e].role = "Leader" THEN [el[e] EXCEPT !.loop = "select"]
             ELSE [el[e] EXCEPT !.role = "Candidate", !.loop = "tryLock"]
  BY Zenon, <1>1 DEF ElectorState
<1>3. el' = [el EXCEPT ![e] = r] /\ el'[e] = r
  BY Zenon, <1>2 DEF StartElection, IInv, TypeOK
<1>4. /\ KeepsTickers(r, el[e]) /\ KeepsCalls(r, el[e]) /\ r.seen = el[e].seen
      /\ r.role = (IF el[e].role = "Leader" THEN "Leader" ELSE "Candidate")
      /\ r.loop = (IF el[e].role = "Leader" THEN "select" ELSE "tryLock")
  BY <1>1, <1>2 DEF ElectorState, KeepsTickers, KeepsCalls
<1>5. LoopInv(e)'
  BY <1>1, <1>3, <1>4 DEF StartElection, ElInv, LoopInv, Holds, KeepsTickers, KeepsCalls
<1>6. LeaseInv(e)'
  BY <1>1, <1>3, <1>4 DEF StartElection, ElInv, LoopInv, LeaseInv, Holds, Remaining,
     KeepsTickers, KeepsCalls
<1>q. QED BY Zenon, <1>1, <1>3, <1>5, <1>6, QuietStepOf DEF ElInv

-----------------------------------------------------------------------------
(* Stop releases the record of a former leader. *)
LEMMA StopUnlockInv ==
    ASSUME ConfigAssumption, IInv, NEW e \in Elector, StopUnlock(e)
    PROVE  IInv'
<1>1. el[e] \in ElectorState /\ ElInv(e) /\ backend' = backend /\ Single(entry)
  BY DEF IInv, TypeOK, ElInv, StopUnlock, Single, SingleHold
<1>2. PICK r \in ElectorState : r = [el[e] EXCEPT !.stop = "done"]
  BY Zenon, <1>1 DEF ElectorState
<1>3. el' = [el EXCEPT ![e] = r] /\ el'[e] = r
  BY <1>2 DEF StopUnlock, IInv, TypeOK
<1>4. /\ KeepsTickers(r, el[e]) /\ KeepsRole(r, el[e]) /\ r.stop = "done"
      /\ r.running = el[e].running /\ r.stopped = el[e].stopped
      /\ r.start = el[e].start /\ r.resign = el[e].resign
  BY <1>1, <1>2 DEF ElectorState, KeepsTickers, KeepsRole
<1>5. Single(entry') /\ SparesOthers(entry, entry', e)
  BY <1>1, AfterRelease DEF StopUnlock, SparesOthers
<1>6. LoopInv(e)'
  BY <1>1, <1>3, <1>4 DEF StopUnlock, ElInv, LoopInv, KeepsTickers, KeepsRole
<1>7. LeaseInv(e)'
  BY <1>3, <1>4 DEF LeaseInv
<1>q. QED BY Zenon, <1>1, <1>3, <1>5, <1>6, <1>7, StepOf DEF ElInv

(* Resign releases the record, which is not nested. *)
LEMMA ResignUnlockInv ==
    ASSUME ConfigAssumption, IInv, NEW e \in Elector, ResignUnlock(e)
    PROVE  IInv'
<1>1. /\ el[e] \in ElectorState /\ ElInv(e) /\ backend' = backend /\ Single(entry)
      /\ "Resign" \in Events
  BY DEF IInv, TypeOK, ElInv, LoopInv, ResignUnlock, Single, SingleHold
<1>2. PICK r \in ElectorState :
         r = [el[e] EXCEPT !.resign =
                 IF ~ backend \/ (entry # NoEntry /\ IsExpired(entry)) THEN "idle" ELSE "demote"]
  BY Zenon, <1>1 DEF ElectorState
<1>3. el' = [el EXCEPT ![e] = r] /\ el'[e] = r
  BY <1>2 DEF ResignUnlock, IInv, TypeOK
<1>4. /\ KeepsTickers(r, el[e]) /\ KeepsRole(r, el[e]) /\ r.stop = el[e].stop
      /\ r.running = el[e].running /\ r.stopped = el[e].stopped /\ r.start = el[e].start
  BY <1>1, <1>2 DEF ElectorState, KeepsTickers, KeepsRole
<1>5. /\ Single(entry') /\ SparesOthers(entry, entry', e)
      /\ backend => ~ HeldBy(entry', e)
  BY <1>1, AfterRelease DEF ResignUnlock, SparesOthers
<1>6. LoopInv(e)'
  BY <1>1, <1>3, <1>4, <1>5 DEF ResignUnlock, ElInv, LoopInv, Holds, KeepsTickers, KeepsRole
<1>7. LeaseInv(e)'
  BY <1>1 DEF LeaseInv
<1>q. QED BY Zenon, <1>1, <1>3, <1>5, <1>6, <1>7, StepOf DEF ElInv

(* doHeartbeat starts a new lease, or finds the record lost. *)
LEMMA DoHeartbeatInv ==
    ASSUME ConfigAssumption, IInv, NEW e \in Elector, DoHeartbeat(e)
    PROVE  IInv'
<1>1. el[e] \in ElectorState /\ ElInv(e) /\ backend' = backend /\ Single(entry)
  BY DEF IInv, TypeOK, ElInv, DoHeartbeat, Single, SingleHold
<1>2. PICK r \in ElectorState :
         r = [el[e] EXCEPT !.loop =
                 IF backend /\ HeartbeatOk(entry, e) THEN "select" ELSE "beatFailed"]
  BY Zenon, <1>1 DEF ElectorState
<1>3. el' = [el EXCEPT ![e] = r] /\ el'[e] = r
  BY <1>2 DEF DoHeartbeat, IInv, TypeOK
<1>4. /\ KeepsTickers(r, el[e]) /\ KeepsCalls(r, el[e])
      /\ r.role = el[e].role /\ r.seen = el[e].seen
      /\ r.loop = (IF backend /\ HeldBy(entry, e) THEN "select" ELSE "beatFailed")
  BY <1>1, <1>2 DEF ElectorState, KeepsTickers, KeepsCalls, HeartbeatOk
<1>5. /\ Single(entry') /\ SparesOthers(entry, entry', e)
      /\ backend /\ HeldBy(entry, e) =>
            HeldBy(entry', e) /\ entry'.expiresAt = LeaseDuration
      /\ backend /\ ~ HeldBy(entry, e) => ~ HeldBy(entry', e)
  BY <1>1, AfterBeat DEF DoHeartbeat, SparesOthers
<1>6. LoopInv(e)'
  <2>1. /\ r.loop \in {"select", "beatFailed"} /\ el[e].loop = "beat"
        /\ r.loop = "beatFailed" /\ backend => ~ HeldBy(entry', e)
    BY <1>4, <1>5 DEF DoHeartbeat
  <2>q. QED BY <1>1, <1>3, <1>4, <2>1 DEF ElInv, LoopInv, Holds, KeepsTickers, KeepsCalls
<1>7. el[e].hb \in 1 .. HeartbeatInterval /\ Remaining(e)' <= LeaseDuration
  BY <1>1, <1>3, <1>4 DEF ElInv, LoopInv, Remaining, KeepsTickers, ConfigAssumption
<1>8. LeaseInv(e)'
  BY <1>1, <1>3, <1>4, <1>5, <1>7
     DEF DoHeartbeat, ElInv, LoopInv, LeaseInv, Holds, KeepsTickers, KeepsCalls, ConfigAssumption
<1>q. QED BY Zenon, <1>1, <1>3, <1>5, <1>6, <1>8, StepOf DEF ElInv

(* checkLeader: an elector that finds itself the holder is the leader.       *)
LEMMA CheckLeaderInv ==
    ASSUME ConfigAssumption, IInv, NEW e \in Elector, CheckLeader(e)
    PROVE  IInv'
<1>1. el[e] \in ElectorState /\ ElInv(e) /\ backend' = backend /\ Single(entry)
  BY DEF IInv, TypeOK, ElInv, CheckLeader, Single, SingleHold
<1>2. PICK q \in Elector \cup {NoEntry} :
         q = IF backend /\ Held(entry) THEN entry.token ELSE NoEntry
  BY <1>1 DEF Single, Held, Entry, Elector
<1>3. PICK r \in ElectorState :
         r = [el[e] EXCEPT !.loop = IF backend /\ Held(entry) THEN "checkRole" ELSE "elect",
                           !.seen = q]
  BY Zenon, <1>1 DEF ElectorState
<1>4. el' = [el EXCEPT ![e] = r] /\ el'[e] = r
  BY Zenon, <1>2, <1>3 DEF CheckLeader, IInv, TypeOK
<1>5. /\ KeepsTickers(r, el[e]) /\ KeepsCalls(r, el[e])
      /\ r.role = el[e].role /\ r.seen = q
      /\ r.loop = (IF backend /\ Held(entry) THEN "checkRole" ELSE "elect")
  BY <1>1, <1>3 DEF ElectorState, KeepsTickers, KeepsCalls
<1>6. /\ Single(entry') /\ SparesOthers(entry, entry', e)
      /\ HeldBy(entry, e) => entry' = entry
      /\ ~ HeldBy(entry, e) => ~ HeldBy(entry', e)
  BY <1>1, AfterGet DEF CheckLeader, SparesOthers
<1>7. LoopInv(e)'
  BY <1>1, <1>4, <1>5, <1>6
     DEF CheckLeader, ElInv, LoopInv, Holds, HeldBy, KeepsTickers, KeepsCalls
<1>8. backend /\ Held(entry) /\ q = e => Holds(e)
  BY <1>2 DEF Holds, HeldBy
<1>9. LeaseInv(e)'
  <2>1. /\ r.loop \in {"checkRole", "elect"} /\ el[e].loop = "check"
        /\ r.loop = "checkRole" /\ q = e => Holds(e)
    BY <1>5, <1>8 DEF CheckLeader
  <2>2. (Holds(e)' <=> Holds(e)) /\ (Holds(e) => entry' = entry)
    BY <1>6 DEF Holds
  <2>3. Remaining(e)' = Remaining(e)
    BY <1>4, <1>5, <2>1 DEF Remaining, KeepsTickers
  <2>q. QED BY <1>1, <1>4, <1>5, <2>1, <2>2, <2>3
            DEF ElInv, LoopInv, LeaseInv, KeepsTickers, KeepsCalls
<1>q. QED BY Zenon, <1>1, <1>4, <1>6, <1>7, <1>9, StepOf DEF ElInv

(* TryLock: the winner has a lease before it. *)
LEMMA TryLockInv ==
    ASSUME ConfigAssumption, IInv, NEW e \in Elector, TryLock(e)
    PROVE  IInv'
<1>1. /\ el[e] \in ElectorState /\ ElInv(e) /\ backend' = backend /\ Single(entry)
      /\ backend => ~ HeldBy(entry, e)
  BY DEF IInv, TypeOK, ElInv, LoopInv, Holds, TryLock, Single, SingleHold
<1>2. PICK r \in ElectorState :
         r = [el[e] EXCEPT !.loop = IF ~ backend THEN "lockErr"
                                    ELSE IF LockOk(entry, e) THEN "won" ELSE "lost"]
  BY Zenon, <1>1 DEF ElectorState
<1>3. el' = [el EXCEPT ![e] = r] /\ el'[e] = r
  BY <1>2 DEF TryLock, IInv, TypeOK
<1>4. /\ KeepsTickers(r, el[e]) /\ KeepsCalls(r, el[e])
      /\ r.role = el[e].role /\ r.seen = el[e].seen
      /\ r.loop = (IF ~ backend THEN "lockErr" ELSE IF LockOk(entry, e) THEN "won" ELSE "lost")
  BY <1>1, <1>2 DEF ElectorState, KeepsTickers, KeepsCalls
<1>5. /\ Single(entry') /\ SparesOthers(entry, entry', e)
      /\ backend /\ LockOk(entry, e) =>
            HeldBy(entry', e) /\ entry'.expiresAt = LeaseDuration
      /\ backend /\ ~ LockOk(entry, e) => ~ HeldBy(entry', e)
  BY <1>1, AfterTry DEF TryLock, SparesOthers
<1>6. LoopInv(e)'
  BY <1>1, <1>3, <1>4, <1>5 DEF TryLock, ElInv, LoopInv, Holds, KeepsTickers, KeepsCalls
<1>7. el[e].hb \in 1 .. HeartbeatInterval /\ Remaining(e)' <= LeaseDuration
  BY <1>1, <1>3, <1>4 DEF ElInv, LoopInv, Remaining, KeepsTickers, ConfigAssumption
<1>8. LeaseInv(e)'
  BY <1>1, <1>3, <1>4, <1>5, <1>7
     DEF TryLock, ElInv, LoopInv, LeaseInv, Holds, KeepsTickers, KeepsCalls, ConfigAssumption
<1>q. QED BY Zenon, <1>1, <1>3, <1>5, <1>6, <1>8, StepOf DEF ElInv

(* The loser asks who won. *)
LEMMA AskWinnerInv ==
    ASSUME ConfigAssumption, IInv, NEW e \in Elector, AskWinner(e)
    PROVE  IInv'
<1>1. el[e] \in ElectorState /\ ElInv(e) /\ backend' = backend /\ Single(entry)
  BY DEF IInv, TypeOK, ElInv, AskWinner, Single, SingleHold
<1>2. PICK r \in ElectorState : r = [el[e] EXCEPT !.loop = "select"]
  BY Zenon, <1>1 DEF ElectorState
<1>3. el' = [el EXCEPT ![e] = r] /\ el'[e] = r
  BY <1>2 DEF AskWinner, IInv, TypeOK
<1>4. /\ KeepsTickers(r, el[e]) /\ KeepsCalls(r, el[e])
      /\ r.role = el[e].role /\ r.seen = el[e].seen /\ r.loop = "select"
  BY <1>1, <1>2 DEF ElectorState, KeepsTickers, KeepsCalls
<1>5. /\ Single(entry') /\ SparesOthers(entry, entry', e)
      /\ HeldBy(entry, e) => entry' = entry
      /\ ~ HeldBy(entry, e) => ~ HeldBy(entry', e)
  BY <1>1, AfterGet DEF AskWinner, SparesOthers
<1>6. LoopInv(e)'
  BY <1>1, <1>3, <1>4, <1>5 DEF AskWinner, ElInv, LoopInv, Holds, KeepsTickers, KeepsCalls
<1>7. LeaseInv(e)'
  BY <1>1, <1>3, <1>4, <1>5
     DEF AskWinner, ElInv, LoopInv, LeaseInv, Holds, Remaining, KeepsTickers, KeepsCalls
<1>q. QED BY Zenon, <1>1, <1>3, <1>5, <1>6, <1>7, StepOf DEF ElInv

-----------------------------------------------------------------------------
(* Calls of a stopped backend err: nothing is promised from then on. *)
LEMMA StopBackendInv ==
    ASSUME ConfigAssumption, IInv, StopBackend
    PROVE  IInv'
<1>1. UNCHANGED <<entry, el>> /\ ~ backend' /\ backend' \in BOOLEAN /\ "StopBackend" \in Events
  BY Zenon DEF StopBackend
<1>2. TypeOK' /\ SingleHold'
  BY <1>1 DEF IInv, TypeOK, SingleHold
<1>3. \A e \in Elector : LoopInv(e)' /\ LeaseInv(e)'
  BY <1>1 DEF IInv, LoopInv, LeaseInv
<1>q. QED BY <1>1, <1>2, <1>3 DEF IInv

(* What a tick does to the fields of an elector. *)
LEMMA TickedFields ==
    ASSUME ConfigAssumption, NEW r \in ElectorState, NEW q, q = Ticked(r),
           r.hb \in 1 .. HeartbeatInterval, r.ck \in 1 .. CheckInterval
    PROVE  /\ q \in ElectorState /\ KeepsCalls(q, r) /\ KeepsRole(q, r) /\ q.alive = r.alive
           /\ q.hb \in 1 .. HeartbeatInterval /\ q.ck \in 1 .. CheckInterval
           /\ ~ r.hbDue /\ ~ q.hbDue => q.hb = r.hb - 1 \/ r.loop \in {"none", "done"}
           /\ ~ r.hbDue /\ q.hbDue => r.hb = 1
<1>1. CASE r.loop \in {"none", "done"}
  BY <1>1 DEF Ticked, KeepsCalls, KeepsRole
<1>2. CASE r.loop \notin {"none", "done"}
  <2>1. HeartbeatInterval \in Nat /\ CheckInterval \in Nat
    BY DEF ConfigAssumption
  <2>2. PICK h \in 1 .. HeartbeatInterval : h = IF r.hb = 1 THEN HeartbeatInterval ELSE r.hb - 1
    BY <2>1
  <2>3. PICK c \in 1 .. CheckInterval : c = IF r.ck = 1 THEN CheckInterval ELSE r.ck - 1
    BY <2>1
  <2>4. PICK hd \in BOOLEAN : hd = (r.hbDue \/ r.hb = 1)
    BY Zenon
  <2>5. PICK cd \in BOOLEAN : cd = (r.ckDue \/ r.ck = 1)
    BY Zenon
  <2>6. q = [r EXCEPT !.hb = h, !.hbDue = hd, !.ck = c, !.ckDue = cd]
    BY <1>2, <2>2, <2>3, <2>4, <2>5 DEF Ticked
  <2>7. h \in Nat /\ c \in Nat
    BY <2>1
  <2>8. /\ q \in ElectorState /\ KeepsCalls(q, r) /\ KeepsRole(q, r) /\ q.alive = r.alive
        /\ q.hb = h /\ q.hbDue = hd /\ q.ck = c
    BY Zenon, <2>6, <2>7 DEF ElectorState, KeepsCalls, KeepsRole
  <2>9. (~ r.hbDue /\ ~ hd => r.hb # 1) /\ (~ r.hbDue /\ hd => r.hb = 1)
    BY Zenon, <2>4
  <2>q. QED BY <2>2, <2>3, <2>8, <2>9
<1>q. QED BY <1>1, <1>2

(* A tick: with nobody delayed, a lease loses a tick only when its leader    *)
(* waits for the next heartbeat.                                             *)
LEMMA TickInv ==
    ASSUME ConfigAssumption, IInv, Tick
    PROVE  IInv'
<1>1. /\ entry' = AfterTick(entry) /\ backend' = backend /\ Single(entry)
      /\ el \in [Elector -> ElectorState] /\ backend \in BOOLEAN
  BY DEF IInv, TypeOK, Tick, Single, SingleHold
<1>2. /\ Single(entry')
      /\ \A e \in Elector : Holds(e)' => Holds(e)
      /\ \A e \in Elector : Holds(e) /\ entry.expiresAt >= 1 =>
            Holds(e)' /\ entry'.expiresAt = entry.expiresAt - 1
  <2>1. CASE entry = NoEntry
    BY <1>1, <2>1 DEF AfterTick, Holds, HeldBy, Held
  <2>2. CASE entry # NoEntry
    <3>1. /\ entry' \in Entry /\ entry \in Entry /\ entry'.expiresAt = Sooner(entry.expiresAt)
          /\ entry'.token = entry.token /\ entry'.reentrancy = entry.reentrancy
      BY <1>1, <2>2 DEF AfterTick, Entry, Sooner, Single
    <3>q. QED BY <1>1, <2>2, <3>1, NoEntryAssumption
              DEF Holds, HeldBy, Held, IsExpired, Sooner, Entry, Single
  <2>q. QED BY <2>1, <2>2
<1>3. ASSUME NEW e \in Elector
      PROVE  el'[e] \in ElectorState /\ LoopInv(e)' /\ LeaseInv(e)'
  <2>1. /\ el[e] \in ElectorState /\ LoopInv(e) /\ LeaseInv(e) /\ el'[e] = Ticked(el[e])
    BY <1>1 DEF IInv, Tick
  <2>2. /\ el'[e] \in ElectorState /\ KeepsCalls(el'[e], el[e]) /\ KeepsRole(el'[e], el[e])
        /\ el'[e].alive = el[e].alive
        /\ el'[e].hb \in 1 .. HeartbeatInterval /\ el'[e].ck \in 1 .. CheckInterval
        /\ ~ el[e].hbDue /\ ~ el'[e].hbDue =>
              el'[e].hb = el[e].hb - 1 \/ el[e].loop \in {"none", "done"}
        /\ ~ el[e].hbDue /\ el'[e].hbDue => el[e].hb = 1
    BY <2>1, TickedFields DEF LoopInv
  <2>3. LoopInv(e)'
    BY <1>1, <1>2, <2>1, <2>2 DEF LoopInv, KeepsCalls, KeepsRole
  <2>4. ASSUME Prompt, "Resign" \notin Events, backend, el[e].alive, el[e].stop # "done",
               el[e].role = "Leader" \/ el[e].loop = "won"
        PROVE  Holds(e)' /\ entry'.expiresAt >= Remaining(e)'
    <3>1. ~ Busy(e)
      BY <2>4 DEF Tick
    <3>2. el[e].stop \in {"idle", "wait", "unlock", "done"}
      BY <2>1 DEF ElectorState
    <3>3. el[e].loop = "select" /\ ~ el[e].hbDue
      BY <2>1, <2>4, <3>1, <3>2 DEF Busy, LoopEnded, LoopInv
    <3>4. Holds(e) /\ entry.expiresAt >= LeaseDuration - HeartbeatInterval + el[e].hb
      BY <2>1, <2>4, <3>3 DEF LeaseInv, Remaining
    <3>5. /\ LeaseDuration \in Nat /\ HeartbeatInterval \in Nat
          /\ HeartbeatInterval < LeaseDuration
          /\ el[e].hb \in 1 .. HeartbeatInterval /\ entry.expiresAt \in Int
      BY <1>1, <2>1, <3>4 DEF ConfigAssumption, LoopInv, Holds, HeldBy, Held, Single, Entry
    <3>6. Holds(e)' /\ entry'.expiresAt = entry.expiresAt - 1
      BY <1>2, <3>4, <3>5
    <3>7. entry'.expiresAt >= LeaseDuration - HeartbeatInterval + el[e].hb - 1
      BY <3>4, <3>5, <3>6
    <3>8. Remaining(e)' <= LeaseDuration - HeartbeatInterval + el[e].hb - 1
      <4>1. CASE el'[e].hbDue
        BY <2>2, <3>3, <3>5, <4>1 DEF Remaining
      <4>2. CASE ~ el'[e].hbDue
        BY <2>2, <3>3, <3>5, <4>2 DEF Remaining, KeepsRole
      <4>q. QED BY <4>1, <4>2
    <3>9. Remaining(e)' \in Int
      BY <2>2, <3>5 DEF Remaining
    <3>q. QED BY <3>5, <3>6, <3>7, <3>8, <3>9
  <2>5. LeaseInv(e)'
    BY <1>1, <1>2, <2>1, <2>2, <2>4 DEF LeaseInv, KeepsCalls, KeepsRole
  <2>q. QED BY <2>2, <2>3, <2>5
<1>4. el' \in [Elector -> ElectorState]
  BY <1>3 DEF Tick
<1>q. QED BY <1>1, <1>2, <1>3, <1>4 DEF IInv, TypeOK, Single, SingleHold

-----------------------------------------------------------------------------
(* New: nobody runs and there is no record. *)
LEMMA InitInv ==
    ASSUME ConfigAssumption, Init
    PROVE  IInv
<1>1. New \in ElectorState /\ backend = TRUE /\ entry = NoEntry
  BY DEF New, ElectorState, ConfigAssumption, Init
<1>2. TypeOK /\ SingleHold
  BY <1>1 DEF Init, TypeOK, SingleHold
<1>3. \A e \in Elector : ~ Holds(e) /\ el[e] = New
  BY <1>1 DEF Init, Holds, HeldBy, Held
<1>4. \A e \in Elector : LoopInv(e)
  BY <1>1, <1>3 DEF LoopInv, New, ConfigAssumption
<1>5. \A e \in Elector : LeaseInv(e)
  BY <1>1, <1>3 DEF LeaseInv, New
<1>q. QED BY <1>1, <1>2, <1>4, <1>5 DEF IInv

(* Every step keeps the invariant. *)
LEMMA NextInv ==
    ASSUME ConfigAssumption, IInv, [Next]_vars
    PROVE  IInv'
<1>1. ASSUME NEW e \in Elector, RunLoop(e)
      PROVE  IInv'
  BY <1>1, SelectHeartbeatInv, SelectCheckInv, SelectStopInv, DoHeartbeatInv,
     HeartbeatFailedInv, CheckLeaderInv, CheckRoleInv, StartElectionInv, TryLockInv,
     ElectionErrInv, ElectionLostInv, AskWinnerInv, BecomeLeaderInv DEF RunLoop
<1>2. ASSUME NEW e \in Elector, Finish(e)
      PROVE  IInv'
  BY <1>2, StartSpawnInv, StopDemoteInv, StopUnlockInv, ResignUnlockInv, ResignDemoteInv
     DEF Finish
<1>3. ASSUME NEW e \in Elector, Start(e) \/ Stop(e) \/ Resign(e) \/ Crash(e)
      PROVE  IInv'
  BY <1>3, StartInv, StopInv, ResignInv, CrashInv
<1>4. CASE UNCHANGED vars
  BY <1>4 DEF vars, IInv, TypeOK, SingleHold, LoopInv, LeaseInv, Holds, Remaining
<1>q. QED BY <1>1, <1>2, <1>3, <1>4, StopBackendInv, TickInv DEF Next

(* Every field of an elector and the record keep their types. *)
THEOREM TypeCorrect == ASSUME ConfigAssumption PROVE Spec => []TypeOK
<1>1. IInv => TypeOK
  BY DEF IInv
<1>q. QED BY InitInv, NextInv, <1>1, PTL DEF Spec

(* However the loops, Resign and Stop interleave, the record is never        *)
(* nested, so one Unlock releases it; and with nobody delayed or resigning,  *)
(* whoever crashes or stops, a leader on a working backend holds the lease.  *)
THEOREM Exclusive == ASSUME ConfigAssumption PROVE Spec => []LeasesExclude
<1>1. ASSUME IInv
      PROVE  LeasesExclude
  <2>1. ASSUME Prompt, "Resign" \notin Events
        PROVE  LeaderHoldsLease
    BY <1>1, <2>1 DEF IInv, LeaseInv, LeaderHoldsLease, IsLeader
  <2>q. QED BY <1>1, <2>1 DEF IInv, LeasesExclude
<1>q. QED BY InitInv, NextInv, <1>1, PTL DEF Spec

(* The promise of docs/leaderelect.md, at any time only one elector claims   *)
(* to be the leader, holds when no goroutine is delayed, nobody calls Resign *)
(* or Stop and the backend stays up, whoever crashes.                        *)
THEOREM OnlyLeader ==
    ASSUME ConfigAssumption, Prompt, Events \subseteq {"Crash"}
    PROVE  Spec => []OneLeader
<1>1. ASSUME IInv
      PROVE  OneLeader
  <2>1. "Resign" \notin Events /\ "Stop" \notin Events /\ "StopBackend" \notin Events
    OBVIOUS
  <2>2. \A e \in Elector : IsLeader(e) => Holds(e)
    BY <1>1, <2>1 DEF IInv, LoopInv, LeaseInv, IsLeader
  <2>q. QED BY <2>2 DEF OneLeader, Holds, HeldBy
<1>q. QED BY InitInv, NextInv, <1>1, PTL DEF Spec
=============================================================================
