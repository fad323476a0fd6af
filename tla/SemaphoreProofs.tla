-------------------------- MODULE SemaphoreProofs --------------------------
(***************************************************************************)
(* Theorems about Semaphore, for any finite set of callers, any bound on   *)
(* the total and both fairness modes.                                      *)
(***************************************************************************)
EXTENDS Semaphore, FiniteSetTheorems, SequenceTheorems, TLAPS

Holders == {p \in Proc : pc[p] = "hold" \/ ch[p] = "true"}

(* Nobody is in the queue twice. *)
Distinct == \A i, j \in 1 .. Len(waiters) : waiters[i] = waiters[j] => i = j

(* A caller in the queue is blocked and has no answer; a blocked caller      *)
(* outside the queue has one; nobody else has.                               *)
QueueAgrees ==
    \A p \in Proc :
        /\ InQueue(p) => pc[p] = "wait" /\ ch[p] = "none"
        /\ pc[p] = "wait" /\ ~ InQueue(p) => ch[p] # "none"
        /\ ch[p] # "none" => pc[p] = "wait"

IInv ==
    /\ SemTypeOK
    /\ Distinct
    /\ QueueAgrees
    /\ held = Cardinality(Holders)
    /\ waiters # <<>> => held >= totalPermits

-----------------------------------------------------------------------------
(* The first k callers of a queue without repetitions are k callers. *)
LEMMA PrefixCount ==
    ASSUME NEW S, NEW s \in Seq(S), NEW k \in 0 .. Len(s), NEW T,
           \A i, j \in 1 .. Len(s) : s[i] = s[j] => i = j,
           \A t : t \in T <=> \E i \in 1 .. k : t = s[i]
    PROVE  IsFiniteSet(T) /\ Cardinality(T) = k
<1> DEFINE f == [i \in 1 .. k |-> s[i]]
<1>1. f \in Bijection(1 .. k, T)
  <2>1. f \in [1 .. k -> T]
    OBVIOUS
  <2>2. \A t \in T : \E i \in 1 .. k : f[i] = t
    OBVIOUS
  <2>3. \A i, j \in 1 .. k : f[i] = f[j] => i = j
    OBVIOUS
  <2>q. QED BY <2>1, <2>2, <2>3 DEF Bijection, Injection, Surjection, IsInjective
<1>2. IsFiniteSet(1 .. k) /\ Cardinality(1 .. k) = k
  BY FS_Interval
<1>q. QED BY <1>1, <1>2, FS_Bijection DEF ExistsBijection

(* Adding callers who held nothing counts them. *)
LEMMA Added ==
    ASSUME NEW S, IsFiniteSet(S), NEW T, IsFiniteSet(T), S \cap T = {}
    PROVE  Cardinality(S \cup T) = Cardinality(S) + Cardinality(T)
<1>1. Cardinality(S \cap T) = 0
  BY FS_EmptySet
<1>2. Cardinality(S) \in Nat /\ Cardinality(T) \in Nat
  BY FS_CardinalityType
<1>3. Cardinality(S \cup T) = Cardinality(S) + Cardinality(T) - Cardinality(S \cap T)
  BY FS_Union, Zenon
<1>q. QED BY <1>1, <1>2, <1>3

(* The callers with a permit can be counted: there are finitely many callers. *)
LEMMA HoldersFinite ==
    ASSUME SemaphoreAssumption
    PROVE  IsFiniteSet(Holders) /\ Cardinality(Holders) \in Nat
<1>1. Holders \in SUBSET Proc
  BY DEF Holders
<1>q. QED BY <1>1, FS_Subset, FS_CardinalityType DEF SemaphoreAssumption

(* New: an empty queue, nobody with a permit, all permits available. *)
LEMMA InitInv ==
    ASSUME SemaphoreAssumption, SemInit
    PROVE  IInv
<1>1. SemTypeOK
  BY DEF SemInit, SemTypeOK, SemaphoreAssumption
<1>2. Holders = {}
  BY DEF SemInit, Holders
<1>3. held = Cardinality(Holders)
  BY <1>2, FS_EmptySet DEF SemInit
<1>q. QED BY <1>1, <1>3 DEF SemInit, IInv, Distinct, QueueAgrees, InQueue

-----------------------------------------------------------------------------
(* What dispatchWaiters does to the queue: it wakes the first k callers, as  *)
(* many as there is room for.                                                *)
LEMMA DispatchWakes ==
    ASSUME SemTypeOK, NEW h \in Nat, NEW total \in 0 .. MaxTotal, DispatchWaiters(h, total), MaxTotal \in Nat
    PROVE  \E k \in 0 .. Len(waiters) :
              /\ held' = h + k /\ totalPermits' = total
              /\ waiters' = SubSeq(waiters, k + 1, Len(waiters))
              /\ ch' = [p \in Proc |-> IF p \in {waiters[i] : i \in 1 .. k} THEN "true" ELSE ch[p]]
              /\ k < Len(waiters) => h + k >= total
              /\ k > 0 => h + k <= total
<1> DEFINE room == AvailableIn(h, total)
           k == IF room < Len(waiters) THEN room ELSE Len(waiters)
<1>1. Len(waiters) \in Nat
  BY DEF SemTypeOK
<1>2. room \in Nat /\ (room = 0 => h >= total) /\ (room > 0 => h + room = total)
  BY DEF AvailableIn
<1>3. k \in 0 .. Len(waiters) /\ (k < Len(waiters) => h + k >= total) /\ (k > 0 => h + k <= total)
  BY <1>1, <1>2
<1>4. /\ held' = h + k /\ totalPermits' = total
      /\ waiters' = SubSeq(waiters, k + 1, Len(waiters))
      /\ ch' = [p \in Proc |-> IF p \in {waiters[i] : i \in 1 .. k} THEN "true" ELSE ch[p]]
  BY DEF DispatchWaiters
<1> HIDE DEF k
<1>q. QED BY <1>3, <1>4

(* The queue behind the callers that were woken. *)
LEMMA DispatchQueue ==
    ASSUME SemTypeOK, Distinct, NEW k \in 0 .. Len(waiters),
           waiters' = SubSeq(waiters, k + 1, Len(waiters))
    PROVE  /\ waiters' \in Seq(Proc)
           /\ waiters' # <<>> => k < Len(waiters)
           /\ Distinct'
           /\ \A p \in Proc : InQueue(p)' <=> InQueue(p) /\ p \notin {waiters[i] : i \in 1 .. k}
<1>1. /\ waiters \in Seq(Proc) /\ Len(waiters) \in Nat /\ k \in Nat
      /\ k + 1 \in 1 .. Len(waiters) + 1
  BY DEF SemTypeOK
<1>2. /\ waiters' \in Seq(Proc) /\ Len(waiters') = Len(waiters) - k
      /\ \A i \in 1 .. Len(waiters) - k : waiters'[i] = waiters[k + i]
  <2>1. \A i \in k + 1 .. Len(waiters) : waiters[i] \in Proc
    BY <1>1
  <2>2. /\ waiters' \in Seq(Proc)
        /\ Len(waiters') = IF k + 1 <= Len(waiters) THEN Len(waiters) - (k + 1) + 1 ELSE 0
        /\ \A i \in 1 .. Len(waiters) - (k + 1) + 1 : waiters'[i] = waiters[k + 1 + i - 1]
    BY <1>1, <2>1, SubSeqProperties
  <2>3. \A i \in 1 .. Len(waiters) - k : k + 1 + i - 1 = k + i
    BY <1>1
  <2>q. QED BY <1>1, <2>2, <2>3
<1>3. Distinct'
  <2>1. ASSUME NEW i \in 1 .. Len(waiters'), NEW j \in 1 .. Len(waiters'), waiters'[i] = waiters'[j]
        PROVE  i = j
    <3>1. k + i \in 1 .. Len(waiters) /\ k + j \in 1 .. Len(waiters)
      BY <1>1, <1>2
    <3>2. waiters[k + i] = waiters[k + j]
      BY <1>2, <2>1
    <3>3. k + i = k + j
      BY <3>1, <3>2 DEF Distinct
    <3>q. QED BY <1>1, <1>2, <3>3
  <2>q. QED BY <2>1 DEF Distinct
<1>4. waiters' # <<>> => k < Len(waiters)
  BY <1>1, <1>2
<1>5. ASSUME NEW p \in Proc
      PROVE  InQueue(p)' <=> InQueue(p) /\ p \notin {waiters[i] : i \in 1 .. k}
  <2>1. ASSUME InQueue(p)' PROVE InQueue(p) /\ p \notin {waiters[i] : i \in 1 .. k}
    <3>1. PICK i \in 1 .. Len(waiters) - k : waiters[k + i] = p
      BY Zenon, <1>2, <2>1 DEF InQueue
    <3>2. k + i \in 1 .. Len(waiters)
      BY <1>1, <3>1
    <3>3. ASSUME NEW j \in 1 .. k PROVE waiters[j] # p
      BY <1>1, <3>1, <3>2 DEF Distinct
    <3>q. QED BY <3>1, <3>2, <3>3 DEF InQueue
  <2>2. ASSUME InQueue(p), p \notin {waiters[i] : i \in 1 .. k} PROVE InQueue(p)'
    <3>1. PICK i \in 1 .. Len(waiters) : waiters[i] = p
      BY <2>2 DEF InQueue
    <3>2. i - k \in 1 .. Len(waiters) - k
      BY <1>1, <2>2, <3>1
    <3>3. waiters'[i - k] = p
      <4>1. k + (i - k) = i
        BY <1>1
      <4>q. QED BY <1>2, <3>1, <3>2, <4>1
    <3>q. QED BY Zenon, <1>2, <3>2, <3>3 DEF InQueue
  <2>q. QED BY <2>1, <2>2
<1>q. QED BY <1>2, <1>3, <1>4, <1>5

(* The queue without the caller at place n. *)
LEMMA TimeoutQueue ==
    ASSUME SemTypeOK, Distinct, NEW n \in 1 .. Len(waiters), waiters' = Without(waiters, n)
    PROVE  /\ waiters' \in Seq(Proc)
           /\ Distinct'
           /\ \A p \in Proc : InQueue(p)' <=> InQueue(p) /\ p # waiters[n]
<1> DEFINE len == Len(waiters)
           old(i) == IF i <= n - 1 THEN i ELSE i + 1
<1>1. /\ waiters \in Seq(Proc) /\ len \in Nat /\ n \in Nat
      /\ \A i \in 1 .. len : waiters[i] \in Proc
  BY DEF SemTypeOK
<1>2. /\ waiters' \in Seq(Proc) /\ Len(waiters') = len - 1
      /\ \A i \in 1 .. len - 1 : waiters'[i] = waiters[old(i)]
  <2> DEFINE a == SubSeq(waiters, 1, n - 1)
             b == SubSeq(waiters, n + 1, len)
  <2>1. /\ a \in Seq(Proc) /\ Len(a) = n - 1
        /\ \A i \in 1 .. n - 1 : a[i] = waiters[i]
    <3>1. /\ a \in Seq(Proc)
          /\ Len(a) = IF 1 <= n - 1 THEN n - 1 - 1 + 1 ELSE 0
          /\ \A i \in 1 .. n - 1 - 1 + 1 : a[i] = waiters[1 + i - 1]
      BY <1>1, SubSeqProperties
    <3> HIDE DEF a
    <3>2. \A i \in 1 .. n - 1 : 1 + i - 1 = i
      OBVIOUS
    <3>q. QED BY <1>1, <3>1, <3>2
  <2>2. /\ b \in Seq(Proc) /\ Len(b) = len - n
        /\ \A i \in 1 .. len - n : b[i] = waiters[n + i]
    <3>1. /\ b \in Seq(Proc)
          /\ Len(b) = IF n + 1 <= len THEN len - (n + 1) + 1 ELSE 0
          /\ \A i \in 1 .. len - (n + 1) + 1 : b[i] = waiters[n + 1 + i - 1]
      BY <1>1, SubSeqProperties
    <3> HIDE DEF b
    <3>2. \A i \in 1 .. len - n : n + 1 + i - 1 = n + i
      BY <1>1
    <3>q. QED BY <1>1, <3>1, <3>2
  <2>3. /\ waiters' \in Seq(Proc)
        /\ Len(waiters') = Len(a) + Len(b)
        /\ \A i \in 1 .. Len(a) + Len(b) :
              waiters'[i] = IF i <= Len(a) THEN a[i] ELSE b[i - Len(a)]
    BY Zenon, <2>1, <2>2, ConcatProperties DEF Without
  <2> HIDE DEF a, b
  <2>4. ASSUME NEW i \in 1 .. len - 1 PROVE waiters'[i] = waiters[old(i)]
    <3>1. waiters'[i] = IF i <= n - 1 THEN a[i] ELSE b[i - (n - 1)]
      <4>1. i \in 1 .. Len(a) + Len(b)
        BY <1>1, <2>1, <2>2
      <4>q. QED BY <2>1, <2>3, <4>1
    <3>2. CASE i <= n - 1
      <4>1. i \in 1 .. n - 1
        BY <3>2
      <4>q. QED BY <2>1, <3>1, <3>2, <4>1
    <3>3. CASE ~ (i <= n - 1)
      <4>1. i - (n - 1) \in 1 .. len - n /\ n + (i - (n - 1)) = i + 1
        BY <1>1, <3>3
      <4>2. b[i - (n - 1)] = waiters[i + 1]
        BY <2>2, <4>1
      <4>q. QED BY <3>1, <3>3, <4>2
    <3>q. QED BY <3>2, <3>3
  <2>q. QED BY <1>1, <2>1, <2>2, <2>3, <2>4
<1>3. \A i \in 1 .. len - 1 : old(i) \in 1 .. len /\ old(i) # n
  BY <1>1
<1>4. \A i, j \in 1 .. len - 1 : old(i) = old(j) => i = j
  BY <1>1
<1>5. \A j \in 1 .. len : j # n => \E i \in 1 .. len - 1 : old(i) = j
  <2>1. ASSUME NEW j \in 1 .. len, j # n PROVE \E i \in 1 .. len - 1 : old(i) = j
    <3>1. CASE j < n
      <4>1. j \in 1 .. len - 1 /\ old(j) = j
        BY <1>1, <3>1
      <4>q. QED BY <4>1
    <3>2. CASE j > n
      <4>1. j - 1 \in 1 .. len - 1 /\ old(j - 1) = j
        BY <1>1, <3>2
      <4>q. QED BY <4>1
    <3>q. QED BY <1>1, <2>1, <3>1, <3>2
  <2>q. QED BY <2>1
<1> HIDE DEF old
<1>6. Distinct'
  <2>1. ASSUME NEW i \in 1 .. len - 1, NEW j \in 1 .. len - 1, waiters'[i] = waiters'[j]
        PROVE  i = j
    BY <1>2, <1>3, <1>4, <2>1 DEF Distinct
  <2>q. QED BY <1>2, <2>1 DEF Distinct
<1>7. ASSUME NEW p \in Proc PROVE InQueue(p)' <=> InQueue(p) /\ p # waiters[n]
  <2>1. ASSUME InQueue(p)' PROVE InQueue(p) /\ p # waiters[n]
    <3>1. PICK i \in 1 .. len - 1 : waiters[old(i)] = p
      BY <1>2, <2>1 DEF InQueue
    <3>q. QED BY <1>3, <3>1 DEF InQueue, Distinct
  <2>2. ASSUME InQueue(p), p # waiters[n] PROVE InQueue(p)'
    <3>1. PICK j \in 1 .. len : waiters[j] = p
      BY <2>2 DEF InQueue
    <3>2. PICK i \in 1 .. len - 1 : old(i) = j
      BY <1>5, <2>2, <3>1
    <3>q. QED BY <1>2, <3>1, <3>2 DEF InQueue
  <2>q. QED BY <2>1, <2>2
<1>q. QED BY <1>2, <1>6, <1>7

-----------------------------------------------------------------------------
(* Acquire and TryAcquire with a free permit. *)
LEMMA EnterInv ==
    ASSUME SemaphoreAssumption, IInv, NEW p \in Proc, pc[p] = "idle", Enter(p)
    PROVE  IInv' /\ WithinTotal
<1> USE DEF IInv
<1>1. SemTypeOK' /\ Distinct'
  BY DEF Enter, SemTypeOK, Distinct
<1>2. QueueAgrees'
  BY DEF Enter, SemTypeOK, QueueAgrees, InQueue
<1>3. Holders' = Holders \cup {p} /\ p \notin Holders
  BY DEF Enter, SemTypeOK, QueueAgrees, Holders
<1>4. held' = Cardinality(Holders')
  BY Zenon, <1>3, HoldersFinite, FS_AddElement DEF Enter
<1>5. held < totalPermits /\ held \in Nat /\ totalPermits \in Nat
  BY DEF Enter, MayEnter, Available, AvailableIn, SemTypeOK, SemaphoreAssumption
<1>6. held' <= totalPermits' /\ waiters = <<>>
  BY <1>5 DEF Enter
<1>q. QED BY <1>1, <1>2, <1>4, <1>6 DEF WithinTotal, Enter

(* Acquire without: the caller joins the queue. *)
LEMMA QueueInv ==
    ASSUME SemaphoreAssumption, IInv, NEW p \in Proc, NEW t \in BOOLEAN, Acquire(p, t), ~ MayEnter
    PROVE  IInv' /\ UNCHANGED held
<1> USE DEF IInv
<1>1. /\ pc[p] = "idle" /\ waiters' = Append(waiters, p) /\ pc' = [pc EXCEPT ![p] = "wait"]
      /\ timed' \subseteq Proc /\ UNCHANGED <<held, totalPermits, ch>>
  BY DEF Acquire, Enter, SemTypeOK
<1>2. /\ waiters' \in Seq(Proc) /\ Len(waiters') = Len(waiters) + 1 /\ Len(waiters) \in Nat
      /\ \A i \in 1 .. Len(waiters) : waiters'[i] = waiters[i]
      /\ waiters'[Len(waiters) + 1] = p
  BY <1>1, AppendProperties DEF SemTypeOK
<1>3. SemTypeOK'
  BY <1>1, <1>2 DEF SemTypeOK
<1>4. ~ InQueue(p)
  BY <1>1 DEF QueueAgrees
<1>5. Distinct'
  BY <1>2, <1>4 DEF Distinct, InQueue
<1>6. \A q \in Proc : InQueue(q)' <=> InQueue(q) \/ q = p
  BY <1>2 DEF InQueue
<1>7. QueueAgrees'
  BY <1>1, <1>6 DEF QueueAgrees, SemTypeOK
<1>8. Holders' = Holders
  BY <1>1 DEF Holders, SemTypeOK
<1>9. held >= totalPermits
  <2>1. CASE waiters # <<>>
    BY <2>1
  <2>2. CASE waiters = <<>>
    BY <2>2 DEF MayEnter, Available, AvailableIn, SemTypeOK, SemaphoreAssumption
  <2>q. QED BY <2>1, <2>2
<1>q. QED BY <1>1, <1>3, <1>5, <1>7, <1>8, <1>9

(* A timed wait that ends takes its caller out of the queue, or finds it woken. *)
LEMMA TimeoutInv ==
    ASSUME SemaphoreAssumption, IInv, NEW p \in Proc, Timeout(p)
    PROVE  IInv' /\ UNCHANGED held
<1> USE DEF IInv
<1>1. CASE ~ InQueue(p) /\ UNCHANGED <<waiters, ch>>
  <2>1. Holders' = Holders
    BY <1>1 DEF Timeout, Holders
  <2>q. QED BY <1>1, <2>1 DEF Timeout, SemTypeOK, Distinct, QueueAgrees, InQueue
<1>2. ASSUME NEW i \in 1 .. Len(waiters), waiters[i] = p, waiters' = Without(waiters, i),
             ch' = [ch EXCEPT ![p] = "false"]
      PROVE  IInv' /\ UNCHANGED held
  <2>1. InQueue(p)
    BY <1>2 DEF InQueue
  <2>2. /\ waiters' \in Seq(Proc) /\ Distinct'
        /\ \A q \in Proc : InQueue(q)' <=> InQueue(q) /\ q # p
    BY <1>2, TimeoutQueue
  <2>3. UNCHANGED <<held, totalPermits, pc>> /\ timed' \subseteq Proc
    BY DEF Timeout, SemTypeOK
  <2>4. SemTypeOK'
    BY <1>2, <2>2, <2>3 DEF SemTypeOK
  <2>5. QueueAgrees'
    BY <1>2, <2>1, <2>2, <2>3 DEF QueueAgrees, SemTypeOK
  <2>6. Holders' = Holders
    BY <1>2, <2>1, <2>3 DEF QueueAgrees, Holders, SemTypeOK
  <2>7. waiters' # <<>> => held >= totalPermits
    BY <1>2
  <2>q. QED BY <2>2, <2>3, <2>4, <2>5, <2>6, <2>7
<1>q. QED BY <1>1, <1>2 DEF Timeout

(* A woken caller returns with its permit, one that timed out without. *)
LEMMA ReturnInv ==
    ASSUME SemaphoreAssumption, IInv, NEW p \in Proc, Return(p)
    PROVE  IInv' /\ UNCHANGED held
<1> USE DEF IInv
<1>1. SemTypeOK' /\ Distinct'
  BY DEF Return, SemTypeOK, Distinct
<1>2. ~ InQueue(p)
  BY DEF Return, QueueAgrees
<1>3. QueueAgrees'
  BY <1>2 DEF Return, SemTypeOK, QueueAgrees, InQueue
<1>4. Holders' = Holders
  BY DEF Return, SemTypeOK, Holders
<1>q. QED BY <1>1, <1>3, <1>4 DEF Return

(* Apart from the queue and its answers, the step leaves the callers in H    *)
(* holding a permit, and nobody starts or stops to wait.                     *)
Leaves(H) ==
    /\ pc' \in [Proc -> {"idle", "wait", "hold"}] /\ timed' = timed
    /\ \A p \in Proc : pc'[p] = "wait" <=> pc[p] = "wait"
    /\ H = {p \in Proc : pc'[p] = "hold" \/ ch[p] = "true"}

(* dispatchWaiters, from h permits held by the callers in H. *)
LEMMA DispatchInv ==
    ASSUME SemaphoreAssumption, IInv, NEW H, H \in SUBSET Holders, Leaves(H),
           NEW h \in Nat, h = Cardinality(H),
           NEW total \in 0 .. MaxTotal, DispatchWaiters(h, total)
    PROVE  IInv' /\ (held' > h => held' <= totalPermits')
<1>0. SemTypeOK /\ Distinct /\ QueueAgrees
  BY DEF IInv
<1>1. IsFiniteSet(H) /\ MaxTotal \in Nat
  BY HoldersFinite, FS_Subset DEF SemaphoreAssumption
<1>2. PICK k \in 0 .. Len(waiters) :
              /\ held' = h + k /\ totalPermits' = total
              /\ waiters' = SubSeq(waiters, k + 1, Len(waiters))
              /\ ch' = [p \in Proc |-> IF p \in {waiters[i] : i \in 1 .. k} THEN "true" ELSE ch[p]]
              /\ k < Len(waiters) => h + k >= total
              /\ k > 0 => h + k <= total
  BY Zenon, <1>0, <1>1, DispatchWakes
<1>3. k \in Nat /\ Len(waiters) \in Nat
  BY <1>0 DEF SemTypeOK
<1> DEFINE served == {waiters[i] : i \in 1 .. k}
<1>4. /\ waiters' \in Seq(Proc) /\ (waiters' # <<>> => k < Len(waiters)) /\ Distinct'
      /\ \A p \in Proc : InQueue(p)' <=> InQueue(p) /\ p \notin served
  BY Zenon, <1>0, <1>2, DispatchQueue
<1>5. IsFiniteSet(served) /\ Cardinality(served) = k
  <2>1. waiters \in Seq(Proc) /\ \A i, j \in 1 .. Len(waiters) : waiters[i] = waiters[j] => i = j
    BY <1>0 DEF Distinct, SemTypeOK
  <2>2. \A t : t \in served <=> \E i \in 1 .. k : t = waiters[i]
    OBVIOUS
  <2> HIDE DEF served
  <2>q. QED BY <2>1, <2>2, PrefixCount
<1>6. served \subseteq Proc /\ \A p \in served : InQueue(p)
  BY <1>0, <1>3 DEF SemTypeOK, InQueue
<1>7. ch' = [p \in Proc |-> IF p \in served THEN "true" ELSE ch[p]]
  BY <1>2
<1> HIDE DEF served
<1>8. SemTypeOK'
  <2>1. ch' \in [Proc -> {"none", "true", "false"}]
    BY <1>0, <1>7 DEF SemTypeOK
  <2>2. held' \in Nat /\ totalPermits' \in 0 .. MaxTotal
    BY <1>1, <1>2, <1>3
  <2>q. QED BY <1>0, <1>4, <2>1, <2>2 DEF SemTypeOK, Leaves
<1>9. QueueAgrees'
  BY <1>0, <1>4, <1>6, <1>7 DEF QueueAgrees, Leaves
<1>10. Holders' = H \cup served /\ H \cap served = {}
  BY <1>0, <1>6, <1>7 DEF Holders, QueueAgrees, Leaves
<1>11. held' = Cardinality(Holders')
  BY <1>1, <1>2, <1>5, <1>10, Added
<1>12. waiters' # <<>> => held' >= totalPermits'
  BY <1>2, <1>4
<1>13. held' > h => held' <= totalPermits'
  BY <1>1, <1>2, <1>3
<1>q. QED BY <1>4, <1>8, <1>9, <1>11, <1>12, <1>13 DEF IInv

(* Release gives one permit back and wakes who can then be served. *)
LEMMA ReleaseInv ==
    ASSUME SemaphoreAssumption, IInv, NEW p \in Proc, Release(p)
    PROVE  IInv' /\ WithinTotal
<1> USE DEF IInv
<1> DEFINE H == Holders \ {p}
<1>1. p \in Holders /\ ch[p] = "none"
  BY DEF Release, Holders, QueueAgrees, SemTypeOK
<1>2. held \in Nat /\ held > 0 /\ held - 1 = Cardinality(H)
  <2>1. held \in Nat /\ Cardinality(H) = held - 1 /\ IsFiniteSet(H)
    BY <1>1, HoldersFinite, FS_RemoveElement
  <2>2. Cardinality(H) \in Nat
    BY <2>1, FS_CardinalityType
  <2>q. QED BY <2>1, <2>2
<1>3. DispatchWaiters(held - 1, totalPermits) /\ totalPermits \in 0 .. MaxTotal
  BY <1>2 DEF Release, SemTypeOK
<1>4. Leaves(H) /\ H \in SUBSET Holders
  BY <1>1 DEF Release, SemTypeOK, Holders, Leaves
<1> HIDE DEF H
<1>5. held - 1 \in Nat
  BY <1>2
<1>6. IInv' /\ (held' > held - 1 => held' <= totalPermits')
  <2> HIDE DEF IInv
  <2>q. QED BY <1>2, <1>3, <1>4, <1>5, DispatchInv
<1>7. held' \in Nat
  BY <1>6 DEF SemTypeOK
<1>q. QED BY <1>2, <1>6, <1>7 DEF WithinTotal

(* IncreasePermits raises the total and wakes who can then be served. *)
LEMMA IncreaseInv ==
    ASSUME SemaphoreAssumption, IInv, NEW d \in 1 .. MaxTotal, IncreasePermits(d)
    PROVE  IInv' /\ WithinTotal
<1> USE DEF IInv
<1>1. totalPermits + d \in 0 .. MaxTotal
  BY DEF IncreasePermits, SemTypeOK, SemaphoreAssumption
<1>2. DispatchWaiters(held, totalPermits + d) /\ UNCHANGED <<pc, timed>>
  BY DEF IncreasePermits
<1>3. Leaves(Holders) /\ held \in Nat
  BY <1>2 DEF Holders, Leaves, SemTypeOK
<1>4. IInv' /\ (held' > held => held' <= totalPermits')
  BY <1>1, <1>2, <1>3, DispatchInv
<1>q. QED BY <1>4 DEF WithinTotal

(* DecreasePermits lowers the total; nobody gains or loses a permit. *)
LEMMA DecreaseInv ==
    ASSUME SemaphoreAssumption, IInv, NEW d \in 1 .. MaxTotal, DecreasePermits(d)
    PROVE  IInv' /\ UNCHANGED held
<1> USE DEF IInv
<1>1. totalPermits' \in 0 .. MaxTotal /\ totalPermits' <= totalPermits
  BY DEF DecreasePermits, SemTypeOK, SemaphoreAssumption
<1>2. Holders' = Holders
  BY DEF DecreasePermits, Holders
<1>3. waiters' # <<>> => held' >= totalPermits'
  BY <1>1 DEF DecreasePermits, SemTypeOK, SemaphoreAssumption
<1>q. QED BY <1>1, <1>2, <1>3 DEF DecreasePermits, SemTypeOK, Distinct, QueueAgrees, InQueue

(* Every step keeps the invariant and hands out no permit beyond the total. *)
LEMMA NextInv ==
    ASSUME SemaphoreAssumption, IInv, [SemNext]_semVars
    PROVE  IInv' /\ (WithinTotal \/ UNCHANGED semVars)
<1>0. held \in Nat
  BY DEF IInv, SemTypeOK
<1>1. ASSUME NEW p \in Proc, NEW t \in BOOLEAN, Acquire(p, t) PROVE IInv' /\ WithinTotal
  <2>1. CASE MayEnter
    BY <1>1, <2>1, EnterInv DEF Acquire
  <2>2. CASE ~ MayEnter
    BY <1>0, <1>1, <2>2, QueueInv DEF WithinTotal
  <2>q. QED BY <2>1, <2>2
<1>2. ASSUME NEW p \in Proc, TryAcquire(p) PROVE IInv' /\ WithinTotal
  BY <1>2, EnterInv DEF TryAcquire
<1>3. ASSUME NEW p \in Proc, Timeout(p) PROVE IInv' /\ WithinTotal
  BY <1>0, <1>3, TimeoutInv DEF WithinTotal
<1>4. ASSUME NEW p \in Proc, Return(p) PROVE IInv' /\ WithinTotal
  BY <1>0, <1>4, ReturnInv DEF WithinTotal
<1>5. ASSUME NEW p \in Proc, Release(p) PROVE IInv' /\ WithinTotal
  BY <1>5, ReleaseInv
<1>6. ASSUME NEW d \in 1 .. MaxTotal, IncreasePermits(d) PROVE IInv' /\ WithinTotal
  BY <1>6, IncreaseInv
<1>7. ASSUME NEW d \in 1 .. MaxTotal, DecreasePermits(d) PROVE IInv' /\ WithinTotal
  BY <1>0, <1>7, DecreaseInv DEF WithinTotal
<1>8. CASE UNCHANGED semVars
  BY <1>8 DEF IInv, SemTypeOK, Distinct, QueueAgrees, InQueue, Holders, semVars
<1>q. QED BY <1>1, <1>2, <1>3, <1>4, <1>5, <1>6, <1>7, <1>8 DEF SemNext

-----------------------------------------------------------------------------
(* Every field keeps its type, and the queue holds callers only. *)
THEOREM TypeCorrect == ASSUME SemaphoreAssumption PROVE SemSpec => []SemTypeOK
<1>1. SemInit => IInv
  BY InitInv
<1>2. IInv /\ [SemNext]_semVars => IInv'
  BY NextInv
<1>3. IInv => SemTypeOK
  BY DEF IInv
<1>q. QED BY <1>1, <1>2, <1>3, PTL DEF SemSpec

(* However grants, timeouts, releases and changes of the total race, no      *)
(* permit is lost or invented, nobody waits while one is free, and no        *)
(* blocked caller is forgotten.                                              *)
THEOREM Accounted == ASSUME SemaphoreAssumption PROVE SemSpec => []PermitsAccounted
<1>1. SemInit => IInv
  BY InitInv
<1>2. IInv /\ [SemNext]_semVars => IInv'
  BY NextInv
<1>3. IInv => PermitsAccounted
  BY DEF IInv, PermitsAccounted, HeldIsAccounted, Holders, NoStrandedWaiter, NobodyForgotten,
         QueueAgrees, Available, AvailableIn
<1>q. QED BY <1>1, <1>2, <1>3, PTL DEF SemSpec

(* No step hands out a permit beyond the total, not even one that follows a  *)
(* DecreasePermits below what is held.                                       *)
THEOREM Bounded == ASSUME SemaphoreAssumption PROVE SemSpec => NeverOvercommits
<1>1. SemInit => IInv
  BY InitInv
<1>2. IInv /\ [SemNext]_semVars => IInv' /\ [WithinTotal]_semVars
  BY NextInv
<1>q. QED BY <1>1, <1>2, PTL DEF SemSpec, NeverOvercommits
=============================================================================
