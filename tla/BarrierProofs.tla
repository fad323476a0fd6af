---------------------------- MODULE BarrierProofs ----------------------------
(***************************************************************************)
(* Theorems about Barrier, for any finite number of processes, any party   *)
(* counts and any use of timeouts, resets and breaks.                      *)
(***************************************************************************)
EXTENDS Barrier, FiniteSetTheorems, TLAPS

Released(p) == \E r \in releases : p \in r.chans

(* Where a blocked party's answer comes from: the map, one releaser, or its  *)
(* channel, and only one of the three.                                       *)
OneAnswer ==
    \A p \in Proc :
        /\ p \in waiters => pc[p] = "wait" /\ ~ Released(p) /\ done[p] = {}
        /\ Released(p) => pc[p] = "wait" /\ done[p] = {}
        /\ done[p] # {} => pc[p] = "wait" /\ \E e \in done[p] : done[p] = {e}
        /\ pc[p] = "wait" => p \in waiters \/ Released(p) \/ done[p] # {}
        /\ \A r, s \in releases : p \in r.chans /\ p \in s.chans => r = s

(* Every caller is a party, and none passes a timeout. *)
Exact == Parties = {Cardinality(Proc)} /\ Timers = {FALSE}

IInv == BarTypeOK /\ NobodyLeftBehind /\ OneAnswer

(* As many callers as parties, no timeouts: between a release and the        *)
(* answers everybody is blocked, so the round of a release is the number of  *)
(* releases before it until its callback has run.                            *)
ExactInv ==
    /\ effectiveNeeded = Cardinality(Proc) /\ participants = Cardinality(Proc)
    /\ timed = {} /\ ~ broken
    /\ \A r \in releases :
          /\ r.chans = Proc /\ released /\ r.number = round /\ trips = round + 1
          /\ r.round \in {NotRun, round}
    /\ released => \A p \in Proc : pc[p] # "call" /\ p \notin waiters
    /\ released /\ CbMuFree => trips = round + 1
    /\ released /\ ~ CbMuFree => trips = round
    /\ ~ released => trips = round /\ CbMuFree
    /\ \A p, q \in Proc : pc[p] = "reset" /\ pc[q] = "reset" => p = q
-----------------------------------------------------------------------------
(* The parties in the map can be counted. *)
LEMMA Counting ==
    ASSUME BarrierAssumption, waiters \subseteq Proc
    PROVE  /\ Cardinality(Proc) \in Nat /\ Cardinality(waiters) \in 0 .. Cardinality(Proc)
           /\ waiters = {} <=> Cardinality(waiters) = 0
           /\ \A p \in Proc \ waiters :
                 /\ Cardinality(waiters \cup {p}) = Cardinality(waiters) + 1
                 /\ Cardinality(waiters) + 1 <= Cardinality(Proc)
           /\ \A p \in waiters : Cardinality(waiters \ {p}) = Cardinality(waiters) - 1
<1>1. IsFiniteSet(Proc) /\ Cardinality(Proc) \in Nat
  BY FS_CardinalityType DEF BarrierAssumption
<1>2. IsFiniteSet(waiters) /\ Cardinality(waiters) <= Cardinality(Proc)
  BY <1>1, FS_Subset
<1>3. Cardinality(waiters) \in Nat
  BY <1>2, FS_CardinalityType
<1>4. waiters = {} <=> Cardinality(waiters) = 0
  BY <1>2, FS_EmptySet
<1>5. ASSUME NEW p \in Proc \ waiters
      PROVE  /\ Cardinality(waiters \cup {p}) = Cardinality(waiters) + 1
             /\ Cardinality(waiters) + 1 <= Cardinality(Proc)
  <2>1. Cardinality(waiters \cup {p}) = Cardinality(waiters) + 1
    BY <1>2, <1>5, FS_AddElement
  <2>2. waiters \cup {p} \subseteq Proc
    OBVIOUS
  <2>3. Cardinality(waiters \cup {p}) <= Cardinality(Proc)
    BY <1>1, <2>2, FS_Subset
  <2>q. QED BY <2>1, <2>3
<1>6. ASSUME NEW p \in waiters
      PROVE  Cardinality(waiters \ {p}) = Cardinality(waiters) - 1
  BY <1>2, FS_RemoveElement
<1>q. QED BY <1>1, <1>2, <1>3, <1>4, <1>5, <1>6

(* New: nobody there. *)
LEMMA InitInv ==
    ASSUME BarrierAssumption, BarInit
    PROVE  IInv
<1>1. Cardinality({}) = 0
  BY FS_EmptySet
<1>2. waiters \subseteq Proc
  BY DEF BarInit
<1>3. Cardinality(Proc) \in Nat
  BY <1>2, Counting
<1>4. BarTypeOK
  <2>1. participants \in Parties /\ effectiveNeeded \in 1 .. participants
    BY DEF BarInit, BarrierAssumption
  <2>2. arrived \in 0 .. Cardinality(Proc) /\ waiting \in 0 .. Cardinality(Proc)
    BY <1>3 DEF BarInit
  <2>3. round \in 0 .. MaxRound /\ trips \in 0 .. MaxRound
    BY DEF BarInit, BarrierAssumption
  <2>q. QED BY Zenon, <2>1, <2>2, <2>3 DEF BarInit, BarTypeOK
<1>q. QED BY <1>1, <1>4 DEF BarInit, IInv, NobodyLeftBehind, OneAnswer, Released

(* Await under cb.mu: the party is on its way, the inner barrier unchanged. *)
LEMMA AwaitInv ==
    ASSUME BarrierAssumption, IInv, NEW p \in Proc, Await(p)
    PROVE  IInv'
<1> USE DEF counters
<1>0. waiters \subseteq Proc /\ Cardinality({}) = 0
  BY FS_EmptySet DEF IInv, BarTypeOK
<1>1. BarTypeOK'
  BY <1>0, Counting DEF IInv, BarTypeOK, NobodyLeftBehind, BarrierAssumption, NotRun, Await
<1>2. NobodyLeftBehind'
  BY <1>0, Counting DEF IInv, BarTypeOK, NobodyLeftBehind, Await
<1>3. OneAnswer'
  BY DEF IInv, BarTypeOK, OneAnswer, Released, Await
<1>q. QED BY <1>1, <1>2, <1>3 DEF IInv

(* Await's Reset, which does nothing while somebody waits. *)
LEMMA AwaitResetInv ==
    ASSUME BarrierAssumption, IInv, NEW p \in Proc, AwaitReset(p)
    PROVE  IInv'
<1> USE DEF counters
<1>0. waiters \subseteq Proc /\ Cardinality({}) = 0
  BY FS_EmptySet DEF IInv, BarTypeOK
<1>1. BarTypeOK'
  <2>1. participants' \in Parties /\ effectiveNeeded' \in 1 .. participants'
    BY DEF IInv, BarTypeOK, BarrierAssumption, AwaitReset, ResetTo
  <2>2. arrived' \in 0 .. Cardinality(Proc) /\ waiting' \in 0 .. Cardinality(Proc)
    BY <1>0, Counting DEF IInv, BarTypeOK, NobodyLeftBehind, AwaitReset, ResetTo
  <2>3. round' \in 0 .. MaxRound /\ trips' \in 0 .. MaxRound
    BY DEF IInv, BarTypeOK, BarrierAssumption, AwaitReset
  <2>q. QED BY Zenon, <2>1, <2>2, <2>3 DEF IInv, BarTypeOK, AwaitReset, ResetTo
<1>2. NobodyLeftBehind'
  BY <1>0, Counting DEF IInv, BarTypeOK, NobodyLeftBehind, AwaitReset, ResetTo
<1>3. OneAnswer'
  BY DEF IInv, BarTypeOK, OneAnswer, Released, AwaitReset, ResetTo
<1>q. QED BY <1>1, <1>2, <1>3 DEF IInv

(* Wait at a broken barrier returns at once. *)
LEMMA WaitBrokenInv ==
    ASSUME BarrierAssumption, IInv, NEW p \in Proc, WaitBroken(p)
    PROVE  IInv'
<1> USE DEF counters
<1>0. waiters \subseteq Proc /\ Cardinality({}) = 0
  BY FS_EmptySet DEF IInv, BarTypeOK
<1>1. BarTypeOK'
  BY <1>0, Counting DEF IInv, BarTypeOK, NobodyLeftBehind, BarrierAssumption, NotRun, WaitBroken
<1>2. NobodyLeftBehind'
  BY <1>0, Counting DEF IInv, BarTypeOK, NobodyLeftBehind, WaitBroken
<1>3. OneAnswer'
  BY DEF IInv, BarTypeOK, OneAnswer, Released, WaitBroken
<1>q. QED BY <1>1, <1>2, <1>3 DEF IInv

(* A party reads its answer. *)
LEMMA ReturnInv ==
    ASSUME BarrierAssumption, IInv, NEW p \in Proc, Return(p)
    PROVE  IInv'
<1> USE DEF counters
<1>0. waiters \subseteq Proc /\ Cardinality({}) = 0
  BY FS_EmptySet DEF IInv, BarTypeOK
<1>1. BarTypeOK'
  BY <1>0, Counting DEF IInv, BarTypeOK, NobodyLeftBehind, BarrierAssumption, NotRun, Return
<1>2. NobodyLeftBehind'
  BY <1>0, Counting DEF IInv, BarTypeOK, NobodyLeftBehind, Return
<1>3. OneAnswer'
  BY DEF IInv, BarTypeOK, OneAnswer, Released, Return
<1>q. QED BY <1>1, <1>2, <1>3 DEF IInv

(* The callback runs; its parties stay with the same releaser. *)
LEMMA RunCallbackInv ==
    ASSUME BarrierAssumption, IInv, NEW r \in releases, RunCallback(r)
    PROVE  IInv'
<1> USE DEF counters
<1>0. waiters \subseteq Proc /\ Cardinality({}) = 0
  BY FS_EmptySet DEF IInv, BarTypeOK
<1>1. BarTypeOK'
  BY <1>0, Counting DEF IInv, BarTypeOK, NobodyLeftBehind, BarrierAssumption, NotRun, RunCallback
<1>2. NobodyLeftBehind'
  BY <1>0, Counting DEF IInv, BarTypeOK, NobodyLeftBehind, RunCallback
<1>3. OneAnswer'
  <2> DEFINE q == [r EXCEPT !.round = round]
  <2>1. /\ q.chans = r.chans
        /\ releases' = (releases \ {r}) \cup {q}
        /\ waiters' = waiters /\ pc' = pc /\ done' = done
    BY DEF IInv, BarTypeOK, RunCallback
  <2> HIDE DEF q
  <2>2. \A p \in Proc : Released(p)' <=> Released(p)
    BY <2>1 DEF Released
  <2>3. ASSUME NEW p \in Proc, NEW x \in releases', NEW y \in releases', p \in x.chans, p \in y.chans
        PROVE  x = y
    BY <2>1, <2>3 DEF IInv, OneAnswer
  <2>q. QED BY <2>1, <2>2, <2>3 DEF IInv, OneAnswer
<1>q. QED BY <1>1, <1>2, <1>3 DEF IInv

(* The releaser answers its parties, who had no answer yet. *)
LEMMA DeliverInv ==
    ASSUME BarrierAssumption, IInv, NEW r \in releases, Deliver(r)
    PROVE  IInv'
<1> USE DEF counters
<1>0. waiters \subseteq Proc /\ Cardinality({}) = 0
  BY FS_EmptySet DEF IInv, BarTypeOK
<1>1. BarTypeOK'
  BY <1>0, Counting DEF IInv, BarTypeOK, NobodyLeftBehind, BarrierAssumption, NotRun, Deliver
<1>2. NobodyLeftBehind'
  BY <1>0, Counting DEF IInv, BarTypeOK, NobodyLeftBehind, Deliver
<1>3. OneAnswer'
  BY DEF IInv, BarTypeOK, OneAnswer, Released, Deliver
<1>q. QED BY <1>1, <1>2, <1>3 DEF IInv

(* ResetBarrier: nobody is waiting. *)
LEMMA ResetBarrierInv ==
    ASSUME BarrierAssumption, IInv, NEW np \in Parties, ResetBarrier(np)
    PROVE  IInv'
<1> USE DEF counters
<1>0. waiters \subseteq Proc /\ Cardinality({}) = 0
  BY FS_EmptySet DEF IInv, BarTypeOK
<1>1. BarTypeOK'
  <2>1. participants' \in Parties /\ effectiveNeeded' \in 1 .. participants'
    BY DEF IInv, BarTypeOK, BarrierAssumption, ResetBarrier, ResetTo
  <2>2. arrived' \in 0 .. Cardinality(Proc) /\ waiting' \in 0 .. Cardinality(Proc)
    BY <1>0, Counting DEF IInv, BarTypeOK, NobodyLeftBehind, ResetBarrier, ResetTo
  <2>3. round' \in 0 .. MaxRound /\ trips' \in 0 .. MaxRound
    BY DEF IInv, BarTypeOK, BarrierAssumption, ResetBarrier
  <2>q. QED BY Zenon, <2>1, <2>2, <2>3 DEF IInv, BarTypeOK, ResetBarrier, ResetTo
<1>2. NobodyLeftBehind'
  BY <1>0, Counting DEF IInv, BarTypeOK, NobodyLeftBehind, ResetBarrier, ResetTo
<1>3. OneAnswer'
  BY DEF IInv, BarTypeOK, OneAnswer, Released, ResetBarrier, ResetTo
<1>q. QED BY <1>1, <1>2, <1>3 DEF IInv

(* ForceReset answers everybody in the map. *)
LEMMA ForceResetInv ==
    ASSUME BarrierAssumption, IInv, NEW np \in Parties, ForceReset(np)
    PROVE  IInv'
<1> USE DEF counters
<1>0. waiters \subseteq Proc /\ Cardinality({}) = 0
  BY FS_EmptySet DEF IInv, BarTypeOK
<1>1. BarTypeOK'
  <2>1. participants' \in Parties /\ effectiveNeeded' \in 1 .. participants'
    BY DEF IInv, BarTypeOK, BarrierAssumption, ForceReset, Expel
  <2>2. arrived' \in 0 .. Cardinality(Proc) /\ waiting' \in 0 .. Cardinality(Proc)
    BY <1>0, Counting DEF IInv, BarTypeOK, NobodyLeftBehind, ForceReset, Expel
  <2>3. round' \in 0 .. MaxRound /\ trips' \in 0 .. MaxRound
    BY DEF IInv, BarTypeOK, BarrierAssumption, ForceReset
  <2>q. QED BY Zenon, <2>1, <2>2, <2>3 DEF IInv, BarTypeOK, ForceReset, Expel
<1>2. NobodyLeftBehind'
  BY <1>0, Counting DEF IInv, BarTypeOK, NobodyLeftBehind, ForceReset, Expel
<1>3. OneAnswer'
  BY DEF IInv, BarTypeOK, OneAnswer, Released, ForceReset, Expel
<1>q. QED BY <1>1, <1>2, <1>3 DEF IInv

(* Break answers everybody in the map. *)
LEMMA BreakInv ==
    ASSUME BarrierAssumption, IInv, Break
    PROVE  IInv'
<1> USE DEF counters
<1>0. waiters \subseteq Proc /\ Cardinality({}) = 0
  BY FS_EmptySet DEF IInv, BarTypeOK
<1>1. BarTypeOK'
  <2>1. participants' \in Parties /\ effectiveNeeded' \in 1 .. participants'
    BY DEF IInv, BarTypeOK, BarrierAssumption, Break, Expel
  <2>2. arrived' \in 0 .. Cardinality(Proc) /\ waiting' \in 0 .. Cardinality(Proc)
    BY <1>0, Counting DEF IInv, BarTypeOK, NobodyLeftBehind, Break, Expel
  <2>3. round' \in 0 .. MaxRound /\ trips' \in 0 .. MaxRound
    BY DEF IInv, BarTypeOK, BarrierAssumption, Break
  <2>q. QED BY Zenon, <2>1, <2>2, <2>3 DEF IInv, BarTypeOK, Break, Expel
<1>2. NobodyLeftBehind'
  BY <1>0, Counting DEF IInv, BarTypeOK, NobodyLeftBehind, Break, Expel
<1>3. OneAnswer'
  BY DEF IInv, BarTypeOK, OneAnswer, Released, Break, Expel
<1>q. QED BY <1>1, <1>2, <1>3 DEF IInv

(* doRelease up to the unlock: the parties W, who are blocked and all that    *)
(* was in the map, go to the new releaser.                                   *)
LEMMA TripInv ==
    ASSUME BarrierAssumption, IInv, NEW W \in SUBSET Proc, NEW n \in Nat, Trip(W, n, n),
           pc' \in [Proc -> {"idle", "reset", "call", "wait"}],
           done' \in [Proc -> SUBSET {"timeout", "callback", "reset", "broken"}],
           timed' \subseteq Proc, round' = round,
           \A p \in W : pc'[p] = "wait" /\ done'[p] = {} /\ ~ Released(p),
           \A p \in Proc \ W :
              \/ p \notin waiters /\ pc'[p] = pc[p] /\ done'[p] = done[p]
              \/ pc'[p] = "wait" /\ ~ Released(p) /\ \E e \in done'[p] : done'[p] = {e}
    PROVE  IInv'
<1>0. Cardinality({}) = 0 /\ waiters \subseteq Proc
  BY FS_EmptySet DEF IInv, BarTypeOK
<1>1. BarTypeOK'
  <2>1. participants' \in Parties /\ effectiveNeeded' \in 1 .. participants'
    BY DEF IInv, BarTypeOK, BarrierAssumption, Trip
  <2>2. arrived' = 0 /\ waiting' = 0 /\ Cardinality(Proc) \in Nat
    BY <1>0, Counting DEF Trip
  <2>3. trips \in 0 .. MaxRound /\ trips' \in 0 .. MaxRound
    BY DEF IInv, BarTypeOK, BarrierAssumption, Trip
  <2>4. releases' \subseteq
          [chans : SUBSET Proc, round : NotRun .. MaxRound, number : 0 .. MaxRound]
    BY <2>3 DEF IInv, BarTypeOK, BarrierAssumption, Trip, NotRun
  <2>q. QED BY <2>1, <2>2, <2>3, <2>4 DEF IInv, BarTypeOK, Trip
<1>2. NobodyLeftBehind'
  BY <1>0 DEF Trip, NobodyLeftBehind
<1>3. OneAnswer'
  <2>1. PICK x : x.chans = W /\ releases' = releases \cup {x}
    BY Zenon DEF Trip
  <2>2. \A p \in Proc : Released(p)' <=> Released(p) \/ p \in W
    BY <2>1 DEF Released
  <2>3. ASSUME NEW p \in Proc
        PROVE  /\ Released(p)' => pc'[p] = "wait" /\ done'[p] = {}
               /\ done'[p] # {} => pc'[p] = "wait" /\ \E e \in done'[p] : done'[p] = {e}
               /\ pc'[p] = "wait" => Released(p)' \/ done'[p] # {}
    BY <2>2 DEF IInv, OneAnswer
  <2>4. ASSUME NEW p \in Proc, NEW r \in releases', NEW s \in releases', p \in r.chans, p \in s.chans
        PROVE  r = s
    <3>1. p \in W => r = x /\ s = x
      BY <2>1, <2>4 DEF Released
    <3>2. p \notin W => r \in releases /\ s \in releases
      BY <2>1, <2>4
    <3>q. QED BY <2>4, <3>1, <3>2 DEF IInv, OneAnswer
  <2>5. waiters' = {}
    BY DEF Trip
  <2>q. QED BY <2>3, <2>4, <2>5 DEF OneAnswer
<1>q. QED BY <1>1, <1>2, <1>3 DEF IInv

(* Wait: the last party releases the others, any other joins the map. *)
LEMMA WaitInv ==
    ASSUME BarrierAssumption, IInv, NEW p \in Proc, NEW t \in BOOLEAN, Wait(p, t)
    PROVE  IInv'
<1>0. /\ waiters \subseteq Proc /\ p \notin waiters /\ ~ Released(p) /\ done[p] = {}
      /\ arrived = Cardinality(waiters) /\ waiting = arrived
  BY DEF IInv, BarTypeOK, OneAnswer, NobodyLeftBehind, Wait
<1>1. CASE Trip(waiters \cup {p}, arrived + 1, waiting + 1) /\ UNCHANGED timed
  <2>1. arrived + 1 \in Nat /\ waiting + 1 = arrived + 1 /\ waiters \cup {p} \in SUBSET Proc
    BY <1>0, Counting
  <2>2. /\ pc' \in [Proc -> {"idle", "reset", "call", "wait"}]
        /\ pc' = [pc EXCEPT ![p] = "wait"] /\ done' = done /\ round' = round
    BY DEF IInv, BarTypeOK, Wait
  <2>3. /\ \A q \in waiters \cup {p} : pc'[q] = "wait" /\ done'[q] = {} /\ ~ Released(q)
        /\ \A q \in Proc \ (waiters \cup {p}) :
              q \notin waiters /\ pc'[q] = pc[q] /\ done'[q] = done[q]
    BY <1>0, <2>2 DEF IInv, BarTypeOK, OneAnswer
  <2>4. timed' \subseteq Proc /\ done' \in [Proc -> SUBSET {"timeout", "callback", "reset", "broken"}]
    BY <1>1, <2>2 DEF IInv, BarTypeOK
  <2>5. Trip(waiters \cup {p}, arrived + 1, arrived + 1)
    BY <1>1, <2>1
  <2>q. QED BY Zenon, <2>1, <2>2, <2>3, <2>4, <2>5, TripInv
<1>2. CASE /\ arrived + 1 < effectiveNeeded
           /\ waiters' = waiters \cup {p}
           /\ arrived' = arrived + 1 /\ waiting' = waiting + 1
           /\ released' = FALSE
           /\ timed' = IF t THEN timed \cup {p} ELSE timed
           /\ UNCHANGED <<participants, effectiveNeeded, broken, releases, trips>>
  <2>1. /\ Cardinality(waiters \cup {p}) = arrived + 1
        /\ arrived + 1 \in 0 .. Cardinality(Proc)
    BY <1>0, Counting
  <2>2. BarTypeOK'
    BY Zenon, <1>0, <1>2, <2>1 DEF IInv, BarTypeOK, Wait
  <2>3. NobodyLeftBehind'
    BY <1>0, <1>2, <2>1 DEF NobodyLeftBehind, Wait
  <2>4. OneAnswer'
    BY <1>0, <1>2 DEF IInv, BarTypeOK, OneAnswer, Released, Wait
  <2>q. QED BY <2>2, <2>3, <2>4 DEF IInv
<1>q. QED BY Zenon, <1>1, <1>2 DEF Wait

(* The timer of a party fires: it leaves the map with an answer, and may     *)
(* release the others.                                                       *)
LEMMA TimeoutInv ==
    ASSUME BarrierAssumption, IInv, NEW p \in Proc, Timeout(p)
    PROVE  IInv'
<1> DEFINE needed == IF effectiveNeeded - 1 <= 0 THEN 1 ELSE effectiveNeeded - 1
<1>1. CASE p \notin waiters
  BY <1>1 DEF IInv, BarTypeOK, NobodyLeftBehind, OneAnswer, Released, Timeout, counters
<1>2. CASE p \in waiters
  <2>0. /\ pc[p] = "wait" /\ ~ Released(p) /\ done[p] = {}
        /\ waiters \subseteq Proc /\ arrived = Cardinality(waiters) /\ waiting = arrived
    BY <1>2 DEF IInv, BarTypeOK, OneAnswer, NobodyLeftBehind
  <2>1. /\ Cardinality(waiters \ {p}) = arrived - 1
        /\ arrived - 1 \in 0 .. Cardinality(Proc) /\ arrived - 1 \in Nat
    BY <1>2, <2>0, Counting
  <2>2. done' = [done EXCEPT ![p] = {"timeout"}]
    BY <1>2, <2>0 DEF Timeout
  <2>3. /\ done' \in [Proc -> SUBSET {"timeout", "callback", "reset", "broken"}]
        /\ pc' = pc /\ round' = round /\ timed' \subseteq Proc
        /\ pc' \in [Proc -> {"idle", "reset", "call", "wait"}]
    BY <2>2 DEF IInv, BarTypeOK, Timeout
  <2>4. CASE Trip(waiters \ {p}, arrived - 1, waiting - 1)
    <3>1. /\ \A q \in waiters \ {p} : pc'[q] = "wait" /\ done'[q] = {} /\ ~ Released(q)
          /\ \A q \in Proc \ (waiters \ {p}) :
                \/ q \notin waiters /\ pc'[q] = pc[q] /\ done'[q] = done[q]
                \/ pc'[q] = "wait" /\ ~ Released(q) /\ \E e \in done'[q] : done'[q] = {e}
      BY <2>0, <2>2, <2>3 DEF IInv, BarTypeOK, OneAnswer
    <3>2. Trip(waiters \ {p}, arrived - 1, arrived - 1) /\ waiters \ {p} \in SUBSET Proc
      BY <2>0, <2>4
    <3>q. QED BY <2>1, <2>3, <3>1, <3>2, TripInv
  <2>5. CASE /\ ~ (arrived - 1 >= needed /\ arrived - 1 > 0)
             /\ waiters' = waiters \ {p}
             /\ arrived' = arrived - 1 /\ waiting' = waiting - 1
             /\ effectiveNeeded' = needed
             /\ UNCHANGED <<participants, broken, released, releases, trips>>
    <3>1. needed \in 1 .. participants
      BY DEF IInv, BarTypeOK, BarrierAssumption
    <3>2. BarTypeOK'
      BY <2>0, <2>1, <2>3, <2>5, <3>1 DEF IInv, BarTypeOK
    <3>3. waiters' # {} => arrived - 1 > 0
      <4>1. IsFiniteSet(waiters \ {p})
        BY <2>0, FS_Subset DEF BarrierAssumption
      <4>2. arrived - 1 = 0 => waiters \ {p} = {}
        BY <2>1, <4>1, FS_EmptySet
      <4>3. waiters' = waiters \ {p}
        BY <2>5
      <4>4. arrived - 1 = 0 \/ arrived - 1 > 0
        <5>1. arrived \in Int
          BY DEF IInv, BarTypeOK
        <5>q. QED BY <2>1, <5>1
      <4>q. QED BY <4>2, <4>3, <4>4
    <3>4. NobodyLeftBehind'
      BY <1>2, <2>0, <2>1, <2>5, <3>1, <3>3 DEF IInv, BarTypeOK, NobodyLeftBehind
    <3>5. OneAnswer'
      BY <2>0, <2>2, <2>3, <2>5 DEF IInv, BarTypeOK, OneAnswer, Released
    <3>q. QED BY <3>2, <3>4, <3>5 DEF IInv
  <2>q. QED BY <1>2, <2>4, <2>5 DEF Timeout
<1>q. QED BY <1>1, <1>2

-----------------------------------------------------------------------------
(* Every step of the parties, the releasers and the timers keeps the         *)
(* invariant, and so does every reset.                                       *)
LEMMA StepInv ==
    ASSUME BarrierAssumption, IInv, Step
    PROVE  IInv'
<1>1. ASSUME NEW p \in Proc,
             Await(p) \/ AwaitReset(p) \/ WaitBroken(p) \/ Return(p) \/ Timeout(p)
      PROVE  IInv'
  BY <1>1, AwaitInv, AwaitResetInv, WaitBrokenInv, ReturnInv, TimeoutInv
<1>2. ASSUME NEW p \in Proc, NEW t \in Timers, Wait(p, t)
      PROVE  IInv'
  BY <1>2, WaitInv DEF BarrierAssumption
<1>3. ASSUME NEW r \in releases, RunCallback(r) \/ Deliver(r)
      PROVE  IInv'
  BY <1>3, RunCallbackInv, DeliverInv
<1>q. QED BY <1>1, <1>2, <1>3 DEF Step

(* A state in which nothing has changed. *)
LEMMA StutterInv ==
    ASSUME IInv, UNCHANGED barVars
    PROVE  IInv'
BY DEF IInv, barVars, BarTypeOK, NobodyLeftBehind, OneAnswer, Released

(* The invariant holds in every reachable state. *)
LEMMA Invariant ==
    ASSUME BarrierAssumption
    PROVE  BarSpec => []IInv
<1>1. BarInit => IInv
  BY InitInv
<1>2. IInv /\ [BarNext]_barVars => IInv'
  BY StepInv, ResetBarrierInv, ForceResetInv, BreakInv, StutterInv DEF BarNext
<1>q. QED BY <1>1, <1>2, PTL DEF BarSpec

(* A blocked party is counted once over the map, the releasers and its       *)
(* channel, any other party not at all.                                      *)
LEMMA CountedOnce ==
    ASSUME BarTypeOK, OneAnswer
    PROVE  AnsweredOnce
<1> SUFFICES ASSUME NEW p \in Proc
             PROVE  Cardinality({r \in releases : p \in r.chans})
                      + Cardinality(done[p]) + (IF p \in waiters THEN 1 ELSE 0)
                    = (IF pc[p] = "wait" THEN 1 ELSE 0)
  BY DEF AnsweredOnce
<1>0. Cardinality({}) = 0 /\ \A x : Cardinality({x}) = 1
  BY Zenon, FS_EmptySet, FS_Singleton
<1>1. Cardinality({r \in releases : p \in r.chans}) = (IF Released(p) THEN 1 ELSE 0)
  <2>1. CASE Released(p)
    <3>1. PICK r \in releases : p \in r.chans
      BY <2>1 DEF Released
    <3>2. {s \in releases : p \in s.chans} = {r}
      BY <3>1 DEF OneAnswer
    <3>q. QED BY Zenon, <1>0, <2>1, <3>2
  <2>2. CASE ~ Released(p)
    <3>1. {r \in releases : p \in r.chans} = {}
      BY <2>2 DEF Released
    <3>q. QED BY <1>0, <2>2, <3>1
  <2>q. QED BY <2>1, <2>2
<1>2. Cardinality(done[p]) = (IF done[p] # {} THEN 1 ELSE 0)
  <2>1. CASE done[p] # {}
    BY Zenon, <1>0, <2>1 DEF OneAnswer
  <2>2. CASE done[p] = {}
    BY <1>0, <2>2
  <2>q. QED BY <2>1, <2>2
<1>3. CASE p \in waiters
  <2>1. pc[p] = "wait" /\ ~ Released(p) /\ done[p] = {}
    BY <1>3 DEF OneAnswer
  <2>q. QED BY <1>1, <1>2, <1>3, <2>1
<1>4. CASE p \notin waiters /\ Released(p)
  <2>1. pc[p] = "wait" /\ done[p] = {}
    BY <1>4 DEF OneAnswer
  <2>q. QED BY <1>1, <1>2, <1>4, <2>1
<1>5. CASE p \notin waiters /\ ~ Released(p)
  <2>1. pc[p] = "wait" <=> done[p] # {}
    BY <1>5 DEF OneAnswer
  <2>q. QED BY <1>1, <1>2, <1>5, <2>1
<1>q. QED BY <1>3, <1>4, <1>5

-----------------------------------------------------------------------------
(* The fields of Barrier and CyclicBarrier keep their types: the number of   *)
(* parties still needed stays between one and the number of parties.         *)
THEOREM TypeCorrect ==
    ASSUME BarrierAssumption
    PROVE  BarSpec => []BarTypeOK
<1>1. IInv => BarTypeOK
  BY DEF IInv
<1>q. QED BY <1>1, Invariant, PTL

(* Wait, its timers, Reset, ForceReset and Break in any order: nobody waits  *)
(* at a barrier whose remaining parties are all there, and every blocked     *)
(* party gets one answer and never two.                                      *)
THEOREM Meet ==
    ASSUME BarrierAssumption
    PROVE  BarSpec => []PartiesMeet
<1>1. ASSUME IInv
      PROVE  PartiesMeet
  BY <1>1, CountedOnce DEF IInv, PartiesMeet
<1>2. IInv => PartiesMeet
  BY <1>1
<1>q. QED BY <1>2, Invariant, PTL

-----------------------------------------------------------------------------
(* With a releaser at work everybody is blocked. *)
LEMMA AllBlocked ==
    ASSUME IInv, ExactInv, releases # {}
    PROVE  \A p \in Proc : pc[p] = "wait" /\ done[p] = {}
BY DEF IInv, OneAnswer, Released, ExactInv

(* The start: nobody there, no round over. *)
LEMMA ExactInit ==
    ASSUME BarrierAssumption, Exact, BarInit
    PROVE  ExactInv
BY DEF Exact, BarInit, ExactInv, CbMuFree

(* Await: the first party after a release counts the round up. *)
LEMMA ExactAwait ==
    ASSUME BarrierAssumption, IInv, ExactInv, NEW p \in Proc, Await(p)
    PROVE  ExactInv'
<1>1. releases = {} /\ releases' = {}
  BY AllBlocked DEF Await
<1>2. CASE released /\ round' = round + 1 /\ pc' = [pc EXCEPT ![p] = "reset"]
  BY <1>1, <1>2 DEF IInv, BarTypeOK, ExactInv, CbMuFree, Await, counters
<1>3. CASE ~ released /\ pc' = [pc EXCEPT ![p] = "call"] /\ UNCHANGED round
  BY <1>1, <1>3 DEF IInv, BarTypeOK, ExactInv, CbMuFree, Await, counters
<1>q. QED BY <1>2, <1>3 DEF Await

(* Its Reset finds nobody waiting. *)
LEMMA ExactAwaitReset ==
    ASSUME BarrierAssumption, IInv, ExactInv, NEW p \in Proc, AwaitReset(p)
    PROVE  ExactInv'
<1>1. releases = {} /\ releases' = {}
  BY AllBlocked DEF AwaitReset
<1>2. ~ CbMuFree /\ released /\ trips = round /\ waiters = {}
  BY DEF AwaitReset, ExactInv, CbMuFree, IInv, BarTypeOK
<1>3. ~ (waiting > 0)
  <2>1. Cardinality({}) = 0
    BY FS_EmptySet
  <2>q. QED BY <1>2, <2>1 DEF IInv, NobodyLeftBehind
<1>4. ResetTo(participants) /\ pc' = [pc EXCEPT ![p] = "call"]
  BY <1>3 DEF AwaitReset
<1>q. QED BY <1>1, <1>2, <1>4 DEF AwaitReset, ResetTo, ExactInv, CbMuFree, IInv, BarTypeOK

(* Wait: when the last party arrives, everybody is blocked. *)
LEMMA ExactWait ==
    ASSUME BarrierAssumption, Exact, IInv, ExactInv, NEW p \in Proc, Wait(p, FALSE)
    PROVE  ExactInv'
<1>0. ~ released /\ releases = {} /\ trips = round /\ CbMuFree /\ p \notin waiters
  BY AllBlocked DEF Wait, ExactInv, IInv, OneAnswer
<1>1. CASE arrived + 1 >= effectiveNeeded /\ Trip(waiters \cup {p}, arrived + 1, waiting + 1)
  <2>1. waiters \cup {p} = Proc
    <3>1. /\ waiters \subseteq Proc /\ arrived = Cardinality(waiters)
          /\ IsFiniteSet(Proc) /\ effectiveNeeded = Cardinality(Proc)
      BY DEF IInv, BarTypeOK, NobodyLeftBehind, BarrierAssumption, ExactInv
    <3>2. waiters \cup {p} \subseteq Proc
      BY <3>1
    <3>3. Cardinality(waiters \cup {p}) = arrived + 1 /\ arrived + 1 <= Cardinality(Proc)
          /\ Cardinality(Proc) \in Nat /\ arrived \in Nat
      BY <1>0, <3>1, Counting
    <3>4. Cardinality(waiters \cup {p}) = Cardinality(Proc)
      BY <1>1, <3>1, <3>3
    <3>q. QED BY <3>1, <3>2, <3>4, FS_Subset
  <2>2. releases' = {[chans |-> Proc, round |-> NotRun, number |-> trips]}
    BY <1>0, <1>1, <2>1 DEF Trip
  <2>3. \A q \in Proc : pc'[q] = "wait"
    BY <2>1 DEF IInv, BarTypeOK, OneAnswer, Wait
  <2>4. /\ trips' = trips + 1 /\ released' = TRUE /\ round' = round /\ waiters' = {}
        /\ effectiveNeeded' = participants /\ UNCHANGED <<participants, broken, timed>>
    BY <1>1 DEF Trip, Wait
  <2>q. QED BY <1>0, <2>2, <2>3, <2>4 DEF ExactInv, CbMuFree
<1>2. CASE /\ arrived + 1 < effectiveNeeded
           /\ waiters' = waiters \cup {p} /\ released' = FALSE /\ timed' = timed
           /\ UNCHANGED <<participants, effectiveNeeded, broken, releases, trips>>
  BY <1>0, <1>2 DEF ExactInv, CbMuFree, IInv, BarTypeOK, Wait
<1>q. QED BY Zenon, <1>1, <1>2 DEF Wait

(* The callback reads the round while everybody is blocked. *)
LEMMA ExactRunCallback ==
    ASSUME IInv, ExactInv, NEW r \in releases, RunCallback(r)
    PROVE  ExactInv'
<1> DEFINE q == [r EXCEPT !.round = round]
<1>1. q.chans = r.chans /\ q.number = r.number /\ q.round = round
  BY DEF IInv, BarTypeOK
<1>2. releases' = (releases \ {r}) \cup {q}
  BY DEF RunCallback
<1> HIDE DEF q
<1>q. QED BY <1>1, <1>2 DEF ExactInv, CbMuFree, RunCallback, counters

(* Answers are sent and read: the next round has not begun. *)
LEMMA ExactAnswer ==
    ASSUME IInv, ExactInv,
           \/ \E r \in releases : Deliver(r)
           \/ \E p \in Proc : Return(p)
    PROVE  ExactInv'
<1>1. ASSUME NEW r \in releases, Deliver(r)
      PROVE  ExactInv'
  BY <1>1 DEF ExactInv, CbMuFree, Deliver, counters
<1>2. ASSUME NEW p \in Proc, Return(p)
      PROVE  ExactInv'
  BY <1>2 DEF ExactInv, CbMuFree, Return, counters, IInv, BarTypeOK
<1>q. QED BY <1>1, <1>2

(* No timer is armed and the barrier is not broken, so these are all steps. *)
LEMMA ExactStep ==
    ASSUME BarrierAssumption, Exact, IInv, ExactInv, [Step]_barVars
    PROVE  ExactInv'
<1>1. ASSUME NEW p \in Proc,
             Await(p) \/ AwaitReset(p) \/ WaitBroken(p) \/ Return(p) \/ Timeout(p)
      PROVE  ExactInv'
  <2>1. ~ WaitBroken(p) /\ ~ Timeout(p)
    BY DEF WaitBroken, Timeout, ExactInv
  <2>q. QED BY <1>1, <2>1, ExactAwait, ExactAwaitReset, ExactAnswer
<1>2. ASSUME NEW p \in Proc, NEW t \in Timers, Wait(p, t)
      PROVE  ExactInv'
  BY Zenon, <1>2, ExactWait DEF Exact
<1>3. ASSUME NEW r \in releases, RunCallback(r) \/ Deliver(r)
      PROVE  ExactInv'
  BY <1>3, ExactRunCallback, ExactAnswer
<1>4. CASE UNCHANGED barVars
  BY <1>4 DEF barVars, ExactInv, CbMuFree
<1>q. QED BY <1>1, <1>2, <1>3, <1>4 DEF Step

(* wrapCallback reads cb.round after b.mu was released: with as many callers *)
(* as parties, no timeouts and no resets, no party can have counted it up    *)
(* by then, so the n-th release runs the callback with round n.              *)
THEOREM RoundSeen ==
    ASSUME BarrierAssumption, Exact
    PROVE  StepSpec => []CallbackSeesItsRound
<1>1. BarInit => IInv /\ ExactInv
  BY InitInv, ExactInit
<1>2. IInv /\ ExactInv /\ [Step]_barVars => IInv' /\ ExactInv'
  BY StepInv, StutterInv, ExactStep
<1>3. ExactInv => CallbackSeesItsRound
  BY DEF ExactInv, CallbackSeesItsRound
<1>q. QED BY <1>1, <1>2, <1>3, PTL DEF StepSpec
=============================================================================
