------------------------------ MODULE Barrier ------------------------------
(***************************************************************************)
(* barrier.Barrier and the barrier.CyclicBarrier built on it.  A process   *)
(* calls Await, which under cb.mu starts a new round if the last one has   *)
(* been released, and then Wait on the inner barrier.  The releaser (the   *)
(* last arrival, or the timer of a party that gave up) leaves b.mu, runs   *)
(* the callback and only then answers the parties it took out of waiters.  *)
(*                                                                         *)
(* A waiter id is never reused, so the timer callback's test that its      *)
(* waiter is still in the map decides; the generation counter it tests     *)
(* first says the same, and is left out.                                   *)
(***************************************************************************)
EXTENDS Integers, FiniteSets

CONSTANTS
    Proc,
    Parties,    \* the party counts a reset may choose
    Timers,     \* whether callers pass a timeout
    MaxRound    \* bounds cb.round and trips

BarrierAssumption ==
    /\ IsFiniteSet(Proc) /\ Parties \subseteq Nat \ {0}
    /\ Timers \subseteq BOOLEAN /\ MaxRound \in Nat

VARIABLES
    participants, effectiveNeeded, arrived, waiting, broken, released,
    waiters,    \* processes whose waiter is in the map
    round,      \* cb.round
    pc,         \* "idle", "reset" (in Await, holding cb.mu), "call", "wait"
    timed,      \* processes whose Wait has armed a timer
    done,       \* done[p]: the answers sent to p's channel, not yet read
    releases,   \* doRelease calls past b.mu: the parties, and the callback's round
    trips       \* releases since the last ResetBarrier or ForceReset

barVars == <<participants, effectiveNeeded, arrived, waiting, broken, released,
          waiters, round, pc, timed, done, releases, trips>>

counters == <<participants, effectiveNeeded, arrived, waiting, broken, released, waiters>>

NotRun == -1

BarInit ==
    /\ participants \in Parties
    /\ effectiveNeeded = participants
    /\ arrived = 0 /\ waiting = 0
    /\ broken = FALSE /\ released = FALSE
    /\ waiters = {}
    /\ round = 0
    /\ pc = [p \in Proc |-> "idle"]
    /\ timed = {}
    /\ done = [p \in Proc |-> {}]
    /\ releases = {}
    /\ trips = 0

CbMuFree == \A p \in Proc : pc[p] # "reset"

-----------------------------------------------------------------------------
(* doRelease up to the unlock, with W the waiters and n arrived. *)
Trip(W, n, w) ==
    /\ trips < MaxRound
    /\ waiters' = {}
    /\ waiting' = w - n
    /\ arrived' = 0
    /\ effectiveNeeded' = participants
    /\ released' = TRUE
    /\ releases' = releases \cup {[chans |-> W, round |-> NotRun, number |-> trips]}
    /\ trips' = trips + 1
    /\ UNCHANGED <<participants, broken>>

(* Reset: refused while somebody waits; np is the new party count. *)
ResetTo(np) ==
    /\ participants' = np
    /\ effectiveNeeded' = np
    /\ arrived' = 0
    /\ broken' = FALSE
    /\ released' = FALSE
    /\ UNCHANGED <<waiting, waiters>>

(* Await under cb.mu: IsReleased, and the round that starts if it says so. *)
Await(p) ==
    /\ pc[p] = "idle" /\ CbMuFree
    /\ \/ /\ released /\ round < MaxRound
          /\ round' = round + 1
          /\ pc' = [pc EXCEPT ![p] = "reset"]
       \/ /\ ~ released
          /\ pc' = [pc EXCEPT ![p] = "call"]
          /\ UNCHANGED round
    /\ UNCHANGED <<counters, timed, done, releases, trips>>

(* Await's call of Reset, whose error it ignores. *)
AwaitReset(p) ==
    /\ pc[p] = "reset"
    /\ pc' = [pc EXCEPT ![p] = "call"]
    /\ IF waiting > 0 THEN UNCHANGED counters ELSE ResetTo(participants)
    /\ UNCHANGED <<round, timed, done, releases, trips>>

(* Slip: a party that arrives last is not counted in before the test. *)
WaitSlip(p, t) ==
    /\ pc[p] = "call" /\ ~ broken
    /\ pc' = [pc EXCEPT ![p] = "wait"]
    /\ \/ /\ arrived >= effectiveNeeded
          /\ Trip(waiters \cup {p}, arrived + 1, waiting + 1)
          /\ UNCHANGED timed
       \/ /\ arrived < effectiveNeeded
          /\ waiters' = waiters \cup {p}
          /\ arrived' = arrived + 1
          /\ waiting' = waiting + 1
          /\ released' = FALSE
          /\ timed' = IF t THEN timed \cup {p} ELSE timed
          /\ UNCHANGED <<participants, effectiveNeeded, broken, releases, trips>>
    /\ UNCHANGED <<round, done>>

(* Wait, with a timeout (t) or without, up to the point where it blocks. *)
Wait(p, t) ==
    /\ pc[p] = "call" /\ ~ broken
    /\ pc' = [pc EXCEPT ![p] = "wait"]
    /\ \/ /\ arrived + 1 >= effectiveNeeded
          /\ Trip(waiters \cup {p}, arrived + 1, waiting + 1)
          /\ UNCHANGED timed
       \/ /\ arrived + 1 < effectiveNeeded
          /\ waiters' = waiters \cup {p}
          /\ arrived' = arrived + 1
          /\ waiting' = waiting + 1
          /\ released' = FALSE
          /\ timed' = IF t THEN timed \cup {p} ELSE timed
          /\ UNCHANGED <<participants, effectiveNeeded, broken, releases, trips>>
    /\ UNCHANGED <<round, done>>

WaitBroken(p) ==
    /\ pc[p] = "call" /\ broken
    /\ pc' = [pc EXCEPT ![p] = "idle"]
    /\ UNCHANGED <<counters, round, timed, done, releases, trips>>

(* The timer callback: a party that still waits gives up, and the others    *)
(* need one party less.                                                     *)
Timeout(p) ==
    /\ p \in timed
    /\ timed' = timed \ {p}
    /\ IF p \notin waiters THEN UNCHANGED <<counters, done, releases, trips>>
       ELSE LET needed == IF effectiveNeeded - 1 <= 0 THEN 1 ELSE effectiveNeeded - 1
            IN /\ done' = [done EXCEPT ![p] = @ \cup {"timeout"}]
               /\ \/ /\ arrived - 1 >= needed /\ arrived - 1 > 0
                     /\ Trip(waiters \ {p}, arrived - 1, waiting - 1)
                  \/ /\ ~ (arrived - 1 >= needed /\ arrived - 1 > 0)
                     /\ waiters' = waiters \ {p}
                     /\ arrived' = arrived - 1
                     /\ waiting' = waiting - 1
                     /\ effectiveNeeded' = needed
                     /\ UNCHANGED <<participants, broken, released, releases, trips>>
    /\ UNCHANGED <<round, pc>>

(* The callback reads cb.round, under cb.mu, and runs. *)
RunCallback(r) ==
    /\ r.round = NotRun /\ CbMuFree
    /\ releases' = (releases \ {r}) \cup {[r EXCEPT !.round = round]}
    /\ UNCHANGED <<counters, round, pc, timed, done, trips>>

(* The callback has returned: the parties get its error. *)
Deliver(r) ==
    /\ r.round # NotRun
    /\ releases' = releases \ {r}
    /\ done' = [p \in Proc |-> IF p \in r.chans THEN done[p] \cup {"callback"} ELSE done[p]]
    /\ UNCHANGED <<counters, round, pc, timed, trips>>

(* The blocked party reads its answer and stops its timer. *)
Return(p) ==
    /\ pc[p] = "wait" /\ done[p] # {}
    /\ pc' = [pc EXCEPT ![p] = "idle"]
    /\ done' = [done EXCEPT ![p] = {}]
    /\ timed' = timed \ {p}
    /\ UNCHANGED <<counters, round, releases, trips>>

(* ResetBarrier(np). *)
ResetBarrier(np) ==
    /\ CbMuFree /\ waiting <= 0
    /\ ResetTo(np)
    /\ round' = 0 /\ trips' = 0
    /\ UNCHANGED <<pc, timed, done, releases>>

(* Everyone in the map gets the error e. *)
Expel(e) ==
    /\ done' = [p \in Proc |-> IF p \in waiters THEN done[p] \cup {e} ELSE done[p]]
    /\ waiters' = {}
    /\ waiting' = waiting - arrived
    /\ arrived' = 0
    /\ released' = FALSE

(* CyclicBarrier.ForceReset(np). *)
ForceReset(np) ==
    /\ CbMuFree
    /\ Expel("reset")
    /\ broken' = FALSE
    /\ participants' = np /\ effectiveNeeded' = np
    /\ round' = 0 /\ trips' = 0
    /\ UNCHANGED <<pc, timed, releases>>

Break ==
    /\ Expel("broken")
    /\ broken' = TRUE
    /\ effectiveNeeded' = participants
    /\ UNCHANGED <<participants, round, pc, timed, releases, trips>>

-----------------------------------------------------------------------------
Step ==
    \/ \E p \in Proc :
          \/ Await(p) \/ AwaitReset(p) \/ WaitBroken(p) \/ Return(p) \/ Timeout(p)
          \/ \E t \in Timers : Wait(p, t)
    \/ \E r \in releases : RunCallback(r) \/ Deliver(r)

BarNext ==
    \/ Step
    \/ \E np \in Parties : ResetBarrier(np) \/ ForceReset(np)
    \/ Break

BarSpec == BarInit /\ [][BarNext]_barVars

(* Nobody resets or breaks the barrier. *)
StepSpec == BarInit /\ [][Step]_barVars

-----------------------------------------------------------------------------
BarTypeOK ==
    /\ participants \in Parties
    /\ effectiveNeeded \in 1 .. participants
    /\ arrived \in 0 .. Cardinality(Proc) /\ waiting \in 0 .. Cardinality(Proc)
    /\ broken \in BOOLEAN /\ released \in BOOLEAN
    /\ waiters \subseteq Proc
    /\ round \in 0 .. MaxRound /\ trips \in 0 .. MaxRound
    /\ pc \in [Proc -> {"idle", "reset", "call", "wait"}]
    /\ timed \subseteq Proc
    /\ done \in [Proc -> SUBSET {"timeout", "callback", "reset", "broken"}]
    /\ releases \subseteq
          [chans : SUBSET Proc, round : NotRun .. MaxRound, number : 0 .. MaxRound]

(* The three counters of the barrier tell the same story, and nobody waits   *)
(* at a barrier whose remaining parties are all there, however timeouts,     *)
(* resets, breaks and arrivals interleave.                                   *)
NobodyLeftBehind ==
    /\ arrived = Cardinality(waiters) /\ waiting = arrived
    /\ waiters # {} => arrived < effectiveNeeded /\ ~ broken

(* A blocked party has exactly one answer on its way: it is in the map, or   *)
(* with one releaser, or its buffered channel holds one error.  A second     *)
(* send would block its sender for good, the timer under b.mu.               *)
AnsweredOnce ==
    \A p \in Proc :
        Cardinality({r \in releases : p \in r.chans})
            + Cardinality(done[p]) + (IF p \in waiters THEN 1 ELSE 0)
          = (IF pc[p] = "wait" THEN 1 ELSE 0)

(* However timeouts, resets, breaks and arrivals interleave, the counters    *)
(* agree with the map, nobody waits at a barrier whose remaining parties are *)
(* all there, and every blocked party has exactly one answer on its way: a   *)
(* second send would block its sender, the timer under b.mu.                 *)
PartiesMeet == NobodyLeftBehind /\ AnsweredOnce

(* The callback is told the round it ends: with as many callers as parties   *)
(* and no timeouts, the n-th release runs with round n.                      *)
CallbackSeesItsRound ==
    \A r \in releases : r.round # NotRun => r.round = r.number
=============================================================================
