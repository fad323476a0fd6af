--------------------------- MODULE JobQueueProofs ---------------------------
(***************************************************************************)
(* Theorems about JobQueue, for any sets of jobs, loops and waiting        *)
(* callers, any pool size and any number of retries.                       *)
(***************************************************************************)
EXTENDS JobQueue, FiniteSetTheorems, TLAPS

InHand(j) == \E l \in Loop : j \in loop[l].job

(* A queued job is in one heap, with no worker and in no loop's hand; a job  *)
(* at a worker is in no loop's hand; no two loops hold the same job; and     *)
(* the jobs in these places are the jobs of the map.                         *)
OnePlace ==
    /\ \A j \in pq : j \in jobs /\ j \notin dq /\ worker[j] = "none" /\ ~ InHand(j)
    /\ \A j \in dq : j \in jobs /\ worker[j] = "none" /\ ~ InHand(j)
    /\ \A j \in Job : worker[j] # "none" => j \in jobs /\ ~ InHand(j)
    /\ \A l, m \in Loop : \A j \in loop[l].job : j \in jobs /\ (j \in loop[m].job => m = l)
    /\ \A j \in jobs : j \in pq \/ j \in dq \/ worker[j] # "none" \/ InHand(j)

(* Only a loop that waits for a slot has a job in its hand. *)
HandInv == \A l \in Loop : loop[l].at # "acquire" => loop[l].job = {}

(* A job that has used up its retries has left the map. *)
RetryInv == \A j \in jobs : retryCount[j] <= MaxRetries

Alive == \E l \in Loop : loop[l].at \in {"top", "sleep", "acquire"}

(* There is a loop while the queue runs and, without retries, for as long as *)
(* a job is queued.                                                          *)
DrainInv ==
    /\ running => Alive
    /\ MaxRetries = 0 /\ (pq # {} \/ dq # {}) => Alive

(* A channel goes away only when there is a result, so a caller released     *)
(* from one finds a result.                                                  *)
ResultInv ==
    /\ \A j \in Job : enqueues[j] > 0 /\ j \notin jobs => HasResult(j)
    /\ \A w \in Waiter :
          /\ waiter[w].at # "notFound"
          /\ waiter[w].at \in {"recheck", "parked"} =>
                \A j \in waiter[w].job : j \in notify \/ HasResult(j)
          /\ waiter[w].at = "read" => \A j \in waiter[w].job : HasResult(j)

IInv == JobTypeOK /\ OnePlace /\ HandInv /\ RetryInv /\ DrainInv /\ ResultInv
-----------------------------------------------------------------------------
(* Start: a loop starts at the top of its cycle. *)
LEMMA StartInv ==
    ASSUME JobQueueAssumption, IInv, NEW l \in Loop, JobStart(l)
    PROVE  IInv'
<1> USE DEF queues, results, waits
<1>1. JobTypeOK'
  <2>1. loop' \in [Loop -> [at : {"new", "top", "sleep", "acquire", "done"},
                           job : SUBSET Job, drain : BOOLEAN]]
    BY DEF IInv, JobTypeOK, JobStart, At
  <2>q. QED BY <2>1 DEF IInv, JobTypeOK, JobStart
<1>2. OnePlace'
  BY DEF IInv, JobTypeOK, OnePlace, HandInv, InHand, JobStart, At
<1>3. HandInv'
  BY DEF IInv, JobTypeOK, HandInv, JobStart, At
<1>4. RetryInv'
  BY DEF IInv, JobTypeOK, RetryInv, JobQueueAssumption, JobStart, At
<1>5. DrainInv'
  BY DEF IInv, JobTypeOK, DrainInv, Alive, JobQueueAssumption, JobStart, At
<1>6. ResultInv'
  BY DEF IInv, JobTypeOK, ResultInv, HasResult, JobStart, At
<1>q. QED BY <1>1, <1>2, <1>3, <1>4, <1>5, <1>6 DEF IInv

(* Stop: nothing moves; the loops are woken. *)
LEMMA StopInv ==
    ASSUME JobQueueAssumption, IInv, JobStop
    PROVE  IInv'
<1> USE DEF queues, results, waits
<1>1. JobTypeOK'
  BY Zenon DEF IInv, JobTypeOK, JobQueueAssumption, JobStop, Wake
<1>2. OnePlace'
  BY DEF IInv, JobTypeOK, OnePlace, HandInv, InHand, JobStop, Wake
<1>3. HandInv'
  BY DEF IInv, JobTypeOK, HandInv, JobStop, Wake
<1>4. RetryInv'
  BY DEF IInv, JobTypeOK, RetryInv, JobQueueAssumption, JobStop, Wake
<1>5. DrainInv'
  BY DEF IInv, JobTypeOK, DrainInv, Alive, JobQueueAssumption, JobStop, Wake
<1>6. ResultInv'
  BY DEF IInv, JobTypeOK, ResultInv, HasResult, JobStop, Wake
<1>q. QED BY <1>1, <1>2, <1>3, <1>4, <1>5, <1>6 DEF IInv

(* Stop returns: nothing else changes. *)
LEMMA StopReturnsInv ==
    ASSUME JobQueueAssumption, IInv, StopReturns
    PROVE  IInv'
<1> USE DEF queues, results, waits
<1>1. JobTypeOK'
  BY Zenon DEF IInv, JobTypeOK, JobQueueAssumption, StopReturns
<1>2. OnePlace'
  BY DEF IInv, JobTypeOK, OnePlace, HandInv, InHand, StopReturns
<1>3. HandInv'
  BY DEF IInv, JobTypeOK, HandInv, StopReturns
<1>4. RetryInv'
  BY DEF IInv, JobTypeOK, RetryInv, JobQueueAssumption, StopReturns
<1>5. DrainInv'
  BY DEF IInv, JobTypeOK, DrainInv, Alive, JobQueueAssumption, StopReturns
<1>6. ResultInv'
  BY DEF IInv, JobTypeOK, ResultInv, HasResult, StopReturns
<1>q. QED BY <1>1, <1>2, <1>3, <1>4, <1>5, <1>6 DEF IInv

(* ClearDeadLetters: the results stay. *)
LEMMA ClearInv ==
    ASSUME JobQueueAssumption, IInv, ClearDeadLetters
    PROVE  IInv'
<1> USE DEF queues, results, waits
<1>1. JobTypeOK'
  BY DEF IInv, JobTypeOK, JobQueueAssumption, ClearDeadLetters
<1>2. OnePlace'
  BY DEF IInv, JobTypeOK, OnePlace, HandInv, InHand, ClearDeadLetters
<1>3. HandInv'
  BY DEF IInv, JobTypeOK, HandInv, ClearDeadLetters
<1>4. RetryInv'
  BY DEF IInv, JobTypeOK, RetryInv, JobQueueAssumption, ClearDeadLetters
<1>5. DrainInv'
  BY DEF IInv, JobTypeOK, DrainInv, Alive, JobQueueAssumption, ClearDeadLetters
<1>6. ResultInv'
  BY DEF IInv, JobTypeOK, ResultInv, HasResult, ClearDeadLetters
<1>q. QED BY <1>1, <1>2, <1>3, <1>4, <1>5, <1>6 DEF IInv

(* Enqueue: the id was in no place, and goes to one of the heaps. *)
LEMMA EnqueueInv ==
    ASSUME JobQueueAssumption, IInv, NEW j \in Job, NEW d \in BOOLEAN, Enqueue(j, d)
    PROVE  IInv'
<1> USE DEF queues, results, waits
<1>1. JobTypeOK'
  BY DEF IInv, JobTypeOK, JobQueueAssumption, Enqueue, Wake
<1>2. OnePlace'
  BY DEF IInv, JobTypeOK, OnePlace, HandInv, InHand, Enqueue, Wake
<1>3. HandInv'
  BY DEF IInv, JobTypeOK, HandInv, Enqueue, Wake
<1>4. RetryInv'
  BY DEF IInv, JobTypeOK, RetryInv, JobQueueAssumption, Enqueue, Wake
<1>5. DrainInv'
  BY DEF IInv, JobTypeOK, DrainInv, Alive, JobQueueAssumption, Enqueue, Wake
<1>6. ResultInv'
  BY DEF IInv, JobTypeOK, ResultInv, HasResult, Enqueue, Wake
<1>q. QED BY <1>1, <1>2, <1>3, <1>4, <1>5, <1>6 DEF IInv

(* One pass of the loop: ready jobs change heaps, and at most one job goes to its hand. *)
LEMMA DispatchInv ==
    ASSUME JobQueueAssumption, IInv, NEW l \in Loop, Dispatch(l)
    PROVE  IInv'
<1> USE DEF queues, results, waits
<1>a. PICK R \in SUBSET dq :
         /\ dq' = dq \ R
         /\ \/ pq \cup R = {} /\ pq' = {} /\ \E a \in {"done", "sleep"} : loop' = At(l, a)
            \/ \E j \in pq \cup R :
                  /\ loop' = [loop EXCEPT ![l] =
                                 [at |-> "acquire", job |-> {j}, drain |-> ~ running]]
                  /\ pq' = (pq \cup R) \ {j}
  BY DEF Dispatch, Best
<1>1. JobTypeOK'
  <2>1. /\ pq' \subseteq Job /\ dq' \subseteq Job
        /\ loop' \in [Loop -> [at : {"new", "top", "sleep", "acquire", "done"},
                              job : SUBSET Job, drain : BOOLEAN]]
    <3>1. CASE \E a \in {"done", "sleep"} : loop' = At(l, a) /\ pq' = {}
      BY <1>a, <3>1 DEF IInv, JobTypeOK, At
    <3>2. CASE \E j \in pq \cup R :
                  /\ loop' = [loop EXCEPT ![l] =
                                 [at |-> "acquire", job |-> {j}, drain |-> ~ running]]
                  /\ pq' = (pq \cup R) \ {j}
      BY <1>a, <3>2 DEF IInv, JobTypeOK
    <3>q. QED BY <1>a, <3>1, <3>2
  <2>q. QED BY <2>1 DEF IInv, JobTypeOK, Dispatch
<1>2. OnePlace'
  <2>0. jobs' = jobs /\ worker' = worker /\ loop[l].job = {}
    BY DEF IInv, HandInv, Dispatch
  <2>1. CASE pq \cup R = {} /\ pq' = {} /\ \E a \in {"done", "sleep"} : loop' = At(l, a)
    <3>1. \A m \in Loop : loop'[m].job = loop[m].job
      BY <2>1 DEF IInv, JobTypeOK, At
    <3>q. QED BY <1>a, <2>0, <2>1, <3>1 DEF IInv, OnePlace, InHand
  <2>2. ASSUME NEW j \in pq \cup R,
               loop' = [loop EXCEPT ![l] =
                           [at |-> "acquire", job |-> {j}, drain |-> ~ running]],
               pq' = (pq \cup R) \ {j}
        PROVE  OnePlace'
    <3>1. /\ loop'[l].job = {j}
          /\ \A m \in Loop \ {l} : loop'[m].job = loop[m].job
      BY <2>2 DEF IInv, JobTypeOK
    <3>2. \A i \in Job : InHand(i)' <=> i = j \/ InHand(i)
      BY <2>0, <3>1 DEF InHand
    <3>3. /\ j \in jobs /\ worker[j] = "none" /\ ~ InHand(j)
          /\ j \notin pq' /\ j \notin dq'
          /\ \A i \in Job : i # j => (i \in pq \cup dq <=> i \in pq' \cup dq')
          /\ pq' \cap dq' = {} /\ pq' \cup dq' \subseteq pq \cup dq
          /\ pq \subseteq Job /\ dq \subseteq Job /\ jobs \subseteq Job
      BY <1>a, <2>2 DEF IInv, JobTypeOK, OnePlace
    <3>4. \A k, m \in Loop : \A i \in loop'[k].job : i \in jobs /\ (i \in loop'[m].job => m = k)
      BY <3>1, <3>3 DEF IInv, OnePlace, InHand
    <3>5. /\ \A i \in pq' : i \in jobs /\ i \notin dq' /\ worker[i] = "none" /\ ~ InHand(i)'
          /\ \A i \in dq' : i \in jobs /\ worker[i] = "none" /\ ~ InHand(i)'
          /\ \A i \in Job : worker[i] # "none" => i \in jobs /\ ~ InHand(i)'
          /\ \A i \in jobs : i \in pq' \/ i \in dq' \/ worker[i] # "none" \/ InHand(i)'
      BY <3>2, <3>3 DEF IInv, OnePlace
    <3>q. QED BY <2>0, <3>4, <3>5 DEF OnePlace
  <2>q. QED BY <1>a, <2>1, <2>2
<1>3. HandInv'
  BY <1>a DEF IInv, JobTypeOK, HandInv, Dispatch, At
<1>4. RetryInv'
  BY DEF IInv, JobTypeOK, RetryInv, JobQueueAssumption, Dispatch, At, Best
<1>5. DrainInv'
  BY DEF IInv, JobTypeOK, DrainInv, Alive, JobQueueAssumption, Dispatch, At, Best
<1>6. ResultInv'
  BY DEF IInv, JobTypeOK, ResultInv, HasResult, Dispatch, At, Best
<1>q. QED BY <1>1, <1>2, <1>3, <1>4, <1>5, <1>6 DEF IInv

(* The loop stops sleeping, with nothing in its hand. *)
LEMMA LoopWakesInv ==
    ASSUME JobQueueAssumption, IInv, NEW l \in Loop, LoopWakes(l)
    PROVE  IInv'
<1> USE DEF queues, results, waits
<1>1. JobTypeOK'
  BY DEF IInv, JobTypeOK, JobQueueAssumption, LoopWakes, At
<1>2. OnePlace'
  BY DEF IInv, JobTypeOK, OnePlace, HandInv, InHand, LoopWakes, At
<1>3. HandInv'
  BY DEF IInv, JobTypeOK, HandInv, LoopWakes, At
<1>4. RetryInv'
  BY DEF IInv, JobTypeOK, RetryInv, JobQueueAssumption, LoopWakes, At
<1>5. DrainInv'
  BY DEF IInv, JobTypeOK, DrainInv, Alive, JobQueueAssumption, LoopWakes, At
<1>6. ResultInv'
  BY DEF IInv, JobTypeOK, ResultInv, HasResult, LoopWakes, At
<1>q. QED BY <1>1, <1>2, <1>3, <1>4, <1>5, <1>6 DEF IInv

(* The job goes from the loop to a worker. *)
LEMMA SpawnInv ==
    ASSUME JobQueueAssumption, IInv, NEW l \in Loop, Spawn(l)
    PROVE  IInv'
<1> USE DEF queues, results, waits
<1>1. JobTypeOK'
  BY DEF IInv, JobTypeOK, JobQueueAssumption, Spawn
<1>2. OnePlace'
  BY DEF IInv, JobTypeOK, OnePlace, HandInv, InHand, Spawn
<1>3. HandInv'
  BY DEF IInv, JobTypeOK, HandInv, Spawn
<1>4. RetryInv'
  BY DEF IInv, JobTypeOK, RetryInv, JobQueueAssumption, Spawn
<1>5. DrainInv'
  BY DEF IInv, JobTypeOK, DrainInv, Alive, JobQueueAssumption, Spawn
<1>6. ResultInv'
  BY DEF IInv, JobTypeOK, ResultInv, HasResult, Spawn
<1>q. QED BY <1>1, <1>2, <1>3, <1>4, <1>5, <1>6 DEF IInv

(* The job goes from the loop back to its heap. *)
LEMMA PutBackInv ==
    ASSUME JobQueueAssumption, IInv, NEW l \in Loop, PutBack(l)
    PROVE  IInv'
<1> USE DEF queues, results, waits
<1>1. JobTypeOK'
  BY DEF IInv, JobTypeOK, JobQueueAssumption, PutBack, Wake
<1>2. OnePlace'
  BY DEF IInv, JobTypeOK, OnePlace, HandInv, InHand, PutBack, Wake
<1>3. HandInv'
  BY DEF IInv, JobTypeOK, HandInv, PutBack, Wake
<1>4. RetryInv'
  BY DEF IInv, JobTypeOK, RetryInv, JobQueueAssumption, PutBack, Wake
<1>5. DrainInv'
  BY DEF IInv, JobTypeOK, DrainInv, Alive, JobQueueAssumption, PutBack, Wake
<1>6. ResultInv'
  BY DEF IInv, JobTypeOK, ResultInv, HasResult, PutBack, Wake
<1>q. QED BY <1>1, <1>2, <1>3, <1>4, <1>5, <1>6 DEF IInv

(* The worker calls the handler. *)
LEMMA RunInv ==
    ASSUME JobQueueAssumption, IInv, NEW j \in Job, Run(j)
    PROVE  IInv'
<1> USE DEF queues, results, waits
<1>1. JobTypeOK'
  BY DEF IInv, JobTypeOK, JobQueueAssumption, Run
<1>2. OnePlace'
  BY DEF IInv, JobTypeOK, OnePlace, HandInv, InHand, Run
<1>3. HandInv'
  BY DEF IInv, JobTypeOK, HandInv, Run
<1>4. RetryInv'
  BY DEF IInv, JobTypeOK, RetryInv, JobQueueAssumption, Run
<1>5. DrainInv'
  BY DEF IInv, JobTypeOK, DrainInv, Alive, JobQueueAssumption, Run
<1>6. ResultInv'
  BY DEF IInv, JobTypeOK, ResultInv, HasResult, Run
<1>q. QED BY <1>1, <1>2, <1>3, <1>4, <1>5, <1>6 DEF IInv

(* The job leaves its worker and the map, with a result. *)
LEMMA SucceedInv ==
    ASSUME JobQueueAssumption, IInv, NEW j \in Job, Succeed(j)
    PROVE  IInv'
<1> USE DEF queues, results, waits
<1>1. JobTypeOK'
  BY DEF IInv, JobTypeOK, JobQueueAssumption, Succeed, Notified
<1>2. OnePlace'
  BY DEF IInv, JobTypeOK, OnePlace, HandInv, InHand, Succeed, Notified
<1>3. HandInv'
  BY DEF IInv, JobTypeOK, HandInv, Succeed, Notified
<1>4. RetryInv'
  BY DEF IInv, JobTypeOK, RetryInv, JobQueueAssumption, Succeed, Notified
<1>5. DrainInv'
  BY DEF IInv, JobTypeOK, DrainInv, Alive, JobQueueAssumption, Succeed, Notified
<1>6. ResultInv'
  BY DEF IInv, JobTypeOK, ResultInv, HasResult, Succeed, Notified
<1>q. QED BY <1>1, <1>2, <1>3, <1>4, <1>5, <1>6 DEF IInv

(* The job leaves its worker, for the delay heap or with a dead letter. *)
LEMMA FailInv ==
    ASSUME JobQueueAssumption, IInv, NEW j \in Job, Fail(j)
    PROVE  IInv'
<1> USE DEF queues, results, waits
<1>1. JobTypeOK'
  <2>1. retryCount[j] \in 0 .. MaxRetries
    BY DEF IInv, JobTypeOK, OnePlace, RetryInv, Fail
  <2>2. retryCount' \in [Job -> 0 .. MaxRetries + 1]
    BY <2>1 DEF IInv, JobTypeOK, JobQueueAssumption, Fail
  <2>3. waiter' \in [Waiter -> [at : {"idle", "register", "recheck", "parked", "read", "got", "notFound"},
                               job : SUBSET Job]]
    BY DEF IInv, JobTypeOK, Fail, Notified
  <2>q. QED BY <2>2, <2>3 DEF IInv, JobTypeOK, Fail, Notified, Wake
<1>2. OnePlace'
  BY DEF IInv, JobTypeOK, OnePlace, HandInv, InHand, Fail, Notified, Exhausted, Wake
<1>3. HandInv'
  BY DEF IInv, JobTypeOK, HandInv, Fail, Notified, Exhausted, Wake
<1>4. RetryInv'
  BY DEF IInv, JobTypeOK, RetryInv, JobQueueAssumption, Fail, Notified, Exhausted, Wake
<1>5. DrainInv'
  BY DEF IInv, JobTypeOK, DrainInv, Alive, JobQueueAssumption, Fail, Notified, Exhausted, Wake
<1>6. ResultInv'
  BY DEF IInv, JobTypeOK, ResultInv, HasResult, Fail, Notified, Exhausted, Wake
<1>q. QED BY <1>1, <1>2, <1>3, <1>4, <1>5, <1>6 DEF IInv

(* The first look of WaitForResult. *)
LEMMA WaitForResultInv ==
    ASSUME JobQueueAssumption, IInv, NEW w \in Waiter, NEW j \in Job, WaitForResult(w, j)
    PROVE  IInv'
<1> USE DEF queues, results, waits
<1>1. JobTypeOK'
  BY DEF IInv, JobTypeOK, JobQueueAssumption, WaitForResult, Move
<1>2. OnePlace'
  BY DEF IInv, JobTypeOK, OnePlace, HandInv, InHand, WaitForResult, Move
<1>3. HandInv'
  BY DEF IInv, JobTypeOK, HandInv, WaitForResult, Move
<1>4. RetryInv'
  BY DEF IInv, JobTypeOK, RetryInv, JobQueueAssumption, WaitForResult, Move
<1>5. DrainInv'
  BY DEF IInv, JobTypeOK, DrainInv, Alive, JobQueueAssumption, WaitForResult, Move
<1>6. ResultInv'
  BY DEF IInv, JobTypeOK, ResultInv, HasResult, WaitForResult, Move
<1>q. QED BY <1>1, <1>2, <1>3, <1>4, <1>5, <1>6 DEF IInv

(* The caller registers, or finds the channel of another. *)
LEMMA RegisterWaitInv ==
    ASSUME JobQueueAssumption, IInv, NEW w \in Waiter, RegisterWait(w)
    PROVE  IInv'
<1> USE DEF queues, results, waits
<1>1. JobTypeOK'
  BY DEF IInv, JobTypeOK, JobQueueAssumption, RegisterWait, Move
<1>2. OnePlace'
  BY DEF IInv, JobTypeOK, OnePlace, HandInv, InHand, RegisterWait, Move
<1>3. HandInv'
  BY DEF IInv, JobTypeOK, HandInv, RegisterWait, Move
<1>4. RetryInv'
  BY DEF IInv, JobTypeOK, RetryInv, JobQueueAssumption, RegisterWait, Move
<1>5. DrainInv'
  BY DEF IInv, JobTypeOK, DrainInv, Alive, JobQueueAssumption, RegisterWait, Move
<1>6. ResultInv'
  BY DEF IInv, JobTypeOK, ResultInv, HasResult, RegisterWait, Move
<1>q. QED BY <1>1, <1>2, <1>3, <1>4, <1>5, <1>6 DEF IInv

(* The second look: a channel that is gone has left a result. *)
LEMMA RecheckInv ==
    ASSUME JobQueueAssumption, IInv, NEW w \in Waiter, Recheck(w)
    PROVE  IInv'
<1> USE DEF queues, results, waits
<1>1. JobTypeOK'
  BY DEF IInv, JobTypeOK, JobQueueAssumption, Recheck, Move
<1>2. OnePlace'
  BY DEF IInv, JobTypeOK, OnePlace, HandInv, InHand, Recheck, Move
<1>3. HandInv'
  BY DEF IInv, JobTypeOK, HandInv, Recheck, Move
<1>4. RetryInv'
  BY DEF IInv, JobTypeOK, RetryInv, JobQueueAssumption, Recheck, Move
<1>5. DrainInv'
  BY DEF IInv, JobTypeOK, DrainInv, Alive, JobQueueAssumption, Recheck, Move
<1>6. ResultInv'
  BY DEF IInv, JobTypeOK, ResultInv, HasResult, Recheck, Move
<1>q. QED BY <1>1, <1>2, <1>3, <1>4, <1>5, <1>6 DEF IInv

(* The last look finds a result. *)
LEMMA ReadResultInv ==
    ASSUME JobQueueAssumption, IInv, NEW w \in Waiter, ReadResult(w)
    PROVE  IInv'
<1> USE DEF queues, results, waits
<1>1. JobTypeOK'
  BY DEF IInv, JobTypeOK, JobQueueAssumption, ReadResult, Move
<1>2. OnePlace'
  BY DEF IInv, JobTypeOK, OnePlace, HandInv, InHand, ReadResult, Move
<1>3. HandInv'
  BY DEF IInv, JobTypeOK, HandInv, ReadResult, Move
<1>4. RetryInv'
  BY DEF IInv, JobTypeOK, RetryInv, JobQueueAssumption, ReadResult, Move
<1>5. DrainInv'
  BY DEF IInv, JobTypeOK, DrainInv, Alive, JobQueueAssumption, ReadResult, Move
<1>6. ResultInv'
  BY DEF IInv, JobTypeOK, ResultInv, HasResult, ReadResult, Move
<1>q. QED BY <1>1, <1>2, <1>3, <1>4, <1>5, <1>6 DEF IInv

-----------------------------------------------------------------------------
(* NewJobQueue: nothing queued, nobody waiting. *)
LEMMA InitInv ==
    ASSUME JobQueueAssumption, JobInit
    PROVE  IInv
<1>1. JobTypeOK
  <2>1. /\ retryCount \in [Job -> 0 .. MaxRetries + 1]
        /\ enqueues \in [Job -> 0 .. MaxEnqueues]
    BY DEF JobInit, JobQueueAssumption
  <2>2. /\ loop \in [Loop -> [at : {"new", "top", "sleep", "acquire", "done"},
                             job : SUBSET Job, drain : BOOLEAN]]
        /\ waiter \in [Waiter -> [at : {"idle", "register", "recheck", "parked", "read", "got", "notFound"},
                                 job : SUBSET Job]]
    BY DEF JobInit
  <2>q. QED BY Zenon, <2>1, <2>2 DEF JobInit, JobTypeOK
<1>2. OnePlace /\ HandInv /\ RetryInv
  BY DEF JobInit, OnePlace, InHand, HandInv, RetryInv
<1>3. DrainInv /\ ResultInv
  BY DEF JobInit, DrainInv, ResultInv, JobQueueAssumption
<1>q. QED BY <1>1, <1>2, <1>3 DEF IInv

(* Every step of the queue keeps the invariant. *)
LEMMA NextInv ==
    ASSUME JobQueueAssumption, IInv, [JobNext]_jobVars
    PROVE  IInv'
<1>1. ASSUME NEW l \in Loop, JobStart(l) \/ LoopStep(l)
      PROVE  IInv'
  BY <1>1, StartInv, DispatchInv, LoopWakesInv, SpawnInv, PutBackInv DEF LoopStep
<1>2. CASE JobStop \/ StopReturns \/ ClearDeadLetters
  BY <1>2, StopInv, StopReturnsInv, ClearInv
<1>3. ASSUME NEW j \in Job, WorkerStep(j) \/ \E d \in BOOLEAN : Enqueue(j, d)
      PROVE  IInv'
  BY <1>3, RunInv, SucceedInv, FailInv, EnqueueInv DEF WorkerStep
<1>4. ASSUME NEW w \in Waiter, WaiterStep(w) \/ \E j \in Job : WaitForResult(w, j)
      PROVE  IInv'
  BY SMTT(30), <1>4, RegisterWaitInv, RecheckInv, ReadResultInv, WaitForResultInv DEF WaiterStep
<1>5. CASE UNCHANGED jobVars
  BY <1>5 DEF jobVars, queues, results, waits, IInv, JobTypeOK, OnePlace, InHand, HandInv,
              RetryInv, DrainInv, Alive, ResultInv, HasResult
<1>q. QED BY <1>1, <1>2, <1>3, <1>4, <1>5 DEF JobNext

(* The invariant holds in every reachable state. *)
LEMMA Invariant ==
    ASSUME JobQueueAssumption
    PROVE  JobSpec => []IInv
<1>1. JobInit => IInv
  BY InitInv
<1>2. IInv /\ [JobNext]_jobVars => IInv'
  BY NextInv
<1>q. QED BY <1>1, <1>2, PTL DEF JobSpec

-----------------------------------------------------------------------------
(* How many loops have a job in their hand: at most one. *)
LEMMA HandCount ==
    ASSUME OnePlace, NEW j \in Job
    PROVE  Cardinality({l \in Loop : j \in loop[l].job}) = (IF InHand(j) THEN 1 ELSE 0)
<1> DEFINE H == {l \in Loop : j \in loop[l].job}
<1>1. CASE InHand(j)
  <2>1. PICK l \in Loop : j \in loop[l].job
    BY <1>1 DEF InHand
  <2>2. H = {l}
    BY <2>1 DEF OnePlace
  <2>3. Cardinality({l}) = 1
    BY FS_Singleton
  <2>q. QED BY Zenon, <1>1, <2>2, <2>3
<1>2. CASE ~ InHand(j)
  <2>1. H = {}
    BY <1>2 DEF InHand
  <2>q. QED BY Zenon, <1>2, <2>1, FS_EmptySet
<1>q. QED BY <1>1, <1>2

(* A job is in at most one of the heaps and the pool. *)
LEMMA PlaceCount ==
    ASSUME JobTypeOK, OnePlace, NEW j \in Job
    PROVE  Cardinality({S \in {<<"pq", pq>>, <<"dq", dq>>, <<"worker", Active>>} : j \in S[2]})
              = (IF j \in pq \cup dq \cup Active THEN 1 ELSE 0)
<1> DEFINE P == {S \in {<<"pq", pq>>, <<"dq", dq>>, <<"worker", Active>>} : j \in S[2]}
<1>0. \A x : Cardinality({x}) = 1
  BY Zenon, FS_Singleton
<1>1. CASE j \in pq
  <2>1. P = {<<"pq", pq>>}
    BY <1>1 DEF OnePlace, Active
  <2>2. Cardinality(P) = 1
    BY Zenon, <1>0, <2>1
  <2>q. QED BY <1>1, <2>2
<1>2. CASE j \in dq
  <2>1. P = {<<"dq", dq>>}
    BY <1>2 DEF OnePlace, Active
  <2>2. Cardinality(P) = 1
    BY Zenon, <1>0, <2>1
  <2>q. QED BY <1>2, <2>2
<1>3. CASE j \in Active
  <2>1. P = {<<"worker", Active>>}
    BY <1>3 DEF OnePlace, Active
  <2>2. Cardinality(P) = 1
    BY Zenon, <1>0, <2>1
  <2>q. QED BY <1>3, <2>2
<1>4. CASE j \notin pq \cup dq \cup Active
  <2>1. P = {}
    BY <1>4
  <2>q. QED BY Zenon, <1>4, <2>1, FS_EmptySet
<1>q. QED BY <1>1, <1>2, <1>3, <1>4

(* Counted over all places, a job of the map is in one and any other in none. *)
LEMMA CountedOnce ==
    ASSUME JobTypeOK, OnePlace
    PROVE  JobInOnePlace
<1> SUFFICES ASSUME NEW j \in Job
             PROVE  Places(j) = (IF j \in jobs THEN 1 ELSE 0)
  BY DEF JobInOnePlace
<1>1. j \in jobs <=> j \in pq \cup dq \cup Active \/ InHand(j)
  BY DEF JobTypeOK, OnePlace, Active, InHand
<1>2. ~ (j \in pq \cup dq \cup Active /\ InHand(j))
  BY DEF OnePlace, Active
<1>3. Places(j) = (IF InHand(j) THEN 1 ELSE 0) + (IF j \in pq \cup dq \cup Active THEN 1 ELSE 0)
  BY HandCount, PlaceCount DEF Places
<1>q. QED BY <1>1, <1>2, <1>3

-----------------------------------------------------------------------------
(* The fields of JobQueue keep their types; a retry count passes its limit   *)
(* by one at most.                                                           *)
THEOREM TypeCorrect ==
    ASSUME JobQueueAssumption
    PROVE  JobSpec => []JobTypeOK
<1>1. IInv => JobTypeOK
  BY DEF IInv
<1>q. QED BY <1>1, Invariant, PTL

(* Enqueue, dispatchLoop, executeJob and Stop, however many loops and        *)
(* workers run: an accepted job is in exactly one place until it has its     *)
(* result, a caller of WaitForResult never finds nothing behind a closed     *)
(* channel, and without retries a Stop that was waited for leaves no job.    *)
THEOREM WorkKept ==
    ASSUME JobQueueAssumption
    PROVE  JobSpec => []AcceptedWorkIsKept
<1>1. ASSUME IInv
      PROVE  AcceptedWorkIsKept
  <2>1. JobInOnePlace
    BY <1>1, CountedOnce DEF IInv
  <2>2. EndedHasResult
    BY <1>1 DEF IInv, ResultInv, EndedHasResult
  <2>3. ASSUME MaxRetries = 0, ~ running, Quiet
        PROVE  jobs = {}
    <3>1. ~ Alive /\ \A l \in Loop : loop[l].job = {}
      BY <1>1, <2>3 DEF IInv, HandInv, Quiet, Alive
    <3>2. pq = {} /\ dq = {}
      BY <1>1, <2>3, <3>1 DEF IInv, DrainInv
    <3>q. QED BY SMTT(30), <1>1, <2>3, <3>1, <3>2 DEF IInv, JobTypeOK, OnePlace, InHand, Quiet, Active
  <2>q. QED BY <2>1, <2>2, <2>3 DEF AcceptedWorkIsKept, StopDrains
<1>2. IInv => AcceptedWorkIsKept
  BY <1>1
<1>q. QED BY <1>2, Invariant, PTL
=============================================================================
