----------------------------- MODULE Semaphore -----------------------------
(***************************************************************************)
(* semaphore.Semaphore: a counting semaphore with a FIFO of waiters,       *)
(* timeouts, and a total that can be raised and lowered at run time.       *)
(* Every method body and the timer callback run under s.mu.  A caller that *)
(* waits is woken through its own channel, which is filled at most once.   *)
(* Callers release only what they hold.                                    *)
(***************************************************************************)
EXTENDS Integers, Sequences, FiniteSets

CONSTANTS Proc, Fair, MaxTotal   \* MaxTotal bounds IncreasePermits

(* New refuses a negative total. *)
SemaphoreAssumption == IsFiniteSet(Proc) /\ Fair \in BOOLEAN /\ MaxTotal \in Nat

VARIABLES
    held, totalPermits,
    waiters,   \* the queue of callers blocked in Acquire
    pc,        \* "idle", "wait" (blocked in Acquire) or "hold"
    ch,        \* ch[p]: what is in p's channel: "none", "true" or "false"
    timed      \* callers whose Acquire has armed a timer

semVars == <<held, totalPermits, waiters, pc, ch, timed>>

SemInit ==
    /\ held = 0
    /\ totalPermits \in 0 .. MaxTotal
    /\ waiters = <<>>
    /\ pc = [p \in Proc |-> "idle"]
    /\ ch = [p \in Proc |-> "none"]
    /\ timed = {}

(* Slip: the last permit is counted twice. *)
AvailableInSlip(h, total) == IF h > total THEN 0 ELSE total + 1 - h

AvailableIn(h, total) == IF h >= total THEN 0 ELSE total - h

Available == AvailableIn(held, totalPermits)

MayEnter == Available > 0 /\ (~ Fair \/ waiters = <<>>)

Enter(p) ==
    /\ MayEnter
    /\ held' = held + 1
    /\ pc' = [pc EXCEPT ![p] = "hold"]
    /\ UNCHANGED <<totalPermits, waiters, ch, timed>>

-----------------------------------------------------------------------------
(* Acquire, with a timeout (t) or without. *)
Acquire(p, t) ==
    /\ pc[p] = "idle"
    /\ \/ Enter(p)
       \/ /\ ~ MayEnter
          /\ waiters' = Append(waiters, p)
          /\ pc' = [pc EXCEPT ![p] = "wait"]
          /\ timed' = IF t THEN timed \cup {p} ELSE timed
          /\ UNCHANGED <<held, totalPermits, ch>>

TryAcquire(p) ==
    /\ pc[p] = "idle"
    /\ Enter(p)

InQueue(p) == \E i \in 1 .. Len(waiters) : waiters[i] = p

(* append(s.waiters[:i], s.waiters[i+1:]...) *)
Without(s, i) == SubSeq(s, 1, i - 1) \o SubSeq(s, i + 1, Len(s))

(* Slip: the timer callback does not look whether the caller still waits. *)
TimeoutSlip(p) ==
    /\ p \in timed
    /\ timed' = timed \ {p}
    /\ \/ \E i \in 1 .. Len(waiters) : waiters[i] = p /\ waiters' = Without(waiters, i)
       \/ ~ InQueue(p) /\ UNCHANGED waiters
    /\ ch' = [ch EXCEPT ![p] = "false"]
    /\ UNCHANGED <<held, totalPermits, pc>>

(* The timer callback: it refuses a caller that is still in the queue. *)
Timeout(p) ==
    /\ p \in timed
    /\ timed' = timed \ {p}
    /\ \/ \E i \in 1 .. Len(waiters) :
             /\ waiters[i] = p
             /\ waiters' = Without(waiters, i)
             /\ ch' = [ch EXCEPT ![p] = "false"]
       \/ ~ InQueue(p) /\ UNCHANGED <<waiters, ch>>
    /\ UNCHANGED <<held, totalPermits, pc>>

(* The blocked caller reads its channel, stops its timer and returns. *)
Return(p) ==
    /\ pc[p] = "wait" /\ ch[p] # "none"
    /\ pc' = [pc EXCEPT ![p] = IF ch[p] = "true" THEN "hold" ELSE "idle"]
    /\ ch' = [ch EXCEPT ![p] = "none"]
    /\ timed' = timed \ {p}
    /\ UNCHANGED <<held, totalPermits, waiters>>

(* dispatchWaiters, after held and totalPermits have become h and total. *)
DispatchWaiters(h, total) ==
    LET room == AvailableIn(h, total)
        k == IF room < Len(waiters) THEN room ELSE Len(waiters)
        served == {waiters[i] : i \in 1 .. k}
    IN /\ held' = h + k
       /\ totalPermits' = total
       /\ waiters' = SubSeq(waiters, k + 1, Len(waiters))
       /\ ch' = [p \in Proc |-> IF p \in served THEN "true" ELSE ch[p]]

Release(p) ==
    /\ pc[p] = "hold"
    /\ pc' = [pc EXCEPT ![p] = "idle"]
    /\ IF held <= 0 THEN UNCHANGED <<held, totalPermits, waiters, ch>>
                    ELSE DispatchWaiters(held - 1, totalPermits)
    /\ UNCHANGED timed

IncreasePermits(d) ==
    /\ totalPermits + d <= MaxTotal
    /\ DispatchWaiters(held, totalPermits + d)
    /\ UNCHANGED <<pc, timed>>

(* Slip: the total is not guarded against going below zero. *)
DecreasePermitsSlip(d) ==
    /\ totalPermits' = totalPermits - d
    /\ UNCHANGED <<held, waiters, pc, ch, timed>>

(* What is held beyond the new total stays held. *)
DecreasePermits(d) ==
    /\ totalPermits - d >= 0
    /\ totalPermits' = totalPermits - d
    /\ UNCHANGED <<held, waiters, pc, ch, timed>>

-----------------------------------------------------------------------------
SemNext ==
    \/ \E p \in Proc :
          \/ \E t \in BOOLEAN : Acquire(p, t)
          \/ TryAcquire(p) \/ Timeout(p) \/ Return(p) \/ Release(p)
    \/ \E d \in 1 .. MaxTotal : IncreasePermits(d) \/ DecreasePermits(d)

SemSpec == SemInit /\ [][SemNext]_semVars

-----------------------------------------------------------------------------
SemTypeOK ==
    /\ held \in Nat
    /\ totalPermits \in 0 .. MaxTotal
    /\ waiters \in Seq(Proc)
    /\ pc \in [Proc -> {"idle", "wait", "hold"}]
    /\ ch \in [Proc -> {"none", "true", "false"}]
    /\ timed \subseteq Proc

(* Permits are neither lost nor invented when a grant, a timeout and a       *)
(* release race: held counts exactly the callers that hold a permit or have  *)
(* one waiting in their channel.                                             *)
HeldIsAccounted ==
    held = Cardinality({p \in Proc : pc[p] = "hold" \/ ch[p] = "true"})

(* Nobody waits while a permit is free, however total and held changed. *)
NoStrandedWaiter == waiters # <<>> => Available = 0

(* Lowering the total never takes a permit away, and no step hands out a     *)
(* permit beyond the total.                                                  *)
WithinTotal == held' > held => held' <= totalPermits'

NeverOvercommits == [][WithinTotal]_semVars

(* No blocked caller is forgotten when a grant and its timer race: it is in  *)
(* the queue, or its answer is in its channel.                               *)
NobodyForgotten ==
    \A p \in Proc : pc[p] = "wait" => ch[p] # "none" \/ InQueue(p)

(* A grant, a timeout, a release and a resize may race: held counts exactly  *)
(* the callers that hold a permit or have one waiting in their channel,      *)
(* nobody waits while a permit is free, and every blocked caller is in the   *)
(* queue or has its answer.                                                  *)
PermitsAccounted == HeldIsAccounted /\ NoStrandedWaiter /\ NobodyForgotten
=============================================================================
