--------------------------- MODULE RedlockProofs ---------------------------
(***************************************************************************)
(* Theorems about Redlock, for any set of clients, any odd number of nodes *)
(* of which any may be stopped, any TTL and any clock drift allowance that *)
(* covers the lag between the two clock reads.                             *)
(***************************************************************************)
EXTENDS Redlock, FiniteSetTheorems, WellFoundedInduction, TLAPS

(* The record e holds the key for client c, for x more ticks at least. *)
Claim(e, c, x) == HeldBy(e, c) /\ e.expiresAt >= x

(* How far a client is in its call.  An acquisition names a majority, and    *)
(* there is none during Lock, its rollback and Unlock, but one in Heartbeat. *)
CallInv(c) ==
    /\ cli[c].pc \notin {"lock", "beat"} => cli[c].nodes = {} /\ cli[c].at = 0
    /\ cli[c].pc \in {"lock", "roll", "unlock"} => acq[c] = NoAcq
    /\ cli[c].pc = "beat" => acq[c] # NoAcq
    /\ acq[c] # NoAcq => Cardinality(acq[c].nodes) >= Majority
    /\ cli[c].at = 0 => cli[c].lag = 0
    /\ cli[c].min <= TTL
    /\ cli[c].lag <= MaxLag
    /\ acq[c].expiry <= TTL

(* What the client believes the nodes hold for it, they hold.  A noted       *)
(* expiry exceeds the node's own by the lag between the two clock reads,     *)
(* which the clock drift allowance has to cover.                             *)
TimeInv(c) ==
    /\ cli[c].at # 0 /\ TTL > cli[c].lag => Claim(node[cli[c].at], c, TTL - cli[c].lag)
    /\ cli[c].min > MaxLag =>
          \A n \in cli[c].nodes : Claim(node[n], c, cli[c].min - MaxLag)
    /\ MaxLag <= ClockDrift /\ IsValid(acq[c]) =>
          \A n \in acq[c].nodes : Claim(node[n], c, acq[c].expiry)

AllUp == \A n \in Node : up[n]

(* Where a node may still hold the key for c: once, and where the call in    *)
(* progress will release it.                                                 *)
HoldInv(c) ==
    AllUp /\ c \notin left =>
        \A n \in Node : HeldBy(node[n], c) =>
            /\ node[n].reentrancy = 1
            /\ cli[c].pc = "lock" =>
                  n \notin cli[c].todo /\ (n \in cli[c].nodes \/ n = cli[c].at)
            /\ cli[c].pc \in {"roll", "unlock"} => n \in cli[c].todo
            /\ cli[c].pc = "idle" => acq[c] # NoAcq

IInv ==
    /\ TypeOK
    /\ \A c \in Client : CallInv(c) /\ TimeInv(c) /\ HoldInv(c)

-----------------------------------------------------------------------------
(* The next node of a set of nodes that is not empty is one of them. *)
LEMMA Next1InSet ==
    ASSUME RedlockAssumption, NEW S \in SUBSET Node, S # {}
    PROVE  Next1(S) \in S
<1> DEFINE T == {1 .. n : n \in S}
<1>1. N \in Nat /\ \A n \in S : n \in Nat /\ 1 <= n /\ n <= N
  BY DEF Node, RedlockAssumption
<1>2. \A n \in S : IsFiniteSet(1 .. n) /\ 1 .. n \in SUBSET Node
  BY <1>1, FS_Interval DEF Node
<1>3. T \subseteq FiniteSubsetsOf(Node) /\ T # {}
  BY Zenon, <1>2 DEF FiniteSubsetsOf
<1>4. PICK x \in T : \A y \in T : ~ (<<y, x>> \in StrictSubsetOrdering(Node))
  <2>1. IsWellFoundedOn(StrictSubsetOrdering(Node), FiniteSubsetsOf(Node))
    BY FS_StrictSubsetOrderingWellFounded
  <2> HIDE DEF T
  <2>q. QED BY <1>3, <2>1, WFMin
<1>5. PICK n \in S : x = 1 .. n
  OBVIOUS
<1>6. ASSUME NEW m \in S
      PROVE  n <= m
  <2>1. ~ (<<1 .. m, 1 .. n>> \in StrictSubsetOrdering(Node))
    BY Zenon, <1>4, <1>5
  <2>2. ~ (1 .. m \subseteq 1 .. n) \/ 1 .. m = 1 .. n
    BY Zenon, <1>2, <2>1 DEF StrictSubsetOrdering
  <2>3. n \in Nat /\ m \in Nat /\ 1 <= n
    BY <1>1
  <2>4. SUFFICES ASSUME m < n PROVE FALSE
    BY <2>3
  <2>5. 1 .. m \subseteq 1 .. n /\ n \in 1 .. n /\ n \notin 1 .. m
    BY <2>3, <2>4
  <2>q. QED BY Zenon, <2>2, <2>5
<1>q. QED BY <1>6 DEF Next1

(* Two majorities of the nodes have a node in common. *)
LEMMA MajoritiesMeet ==
    ASSUME RedlockAssumption, NEW S \in SUBSET Node, NEW T \in SUBSET Node,
           Cardinality(S) >= Majority, Cardinality(T) >= Majority
    PROVE  \E n \in Node : n \in S /\ n \in T
<1>1. N \in Nat /\ 2 * Majority > N
  BY DEF RedlockAssumption, Majority
<1>2. IsFiniteSet(Node) /\ Cardinality(Node) = N
  BY <1>1, FS_Interval DEF Node
<1>3. IsFiniteSet(S) /\ IsFiniteSet(T) /\ Cardinality(S) \in Nat /\ Cardinality(T) \in Nat
  BY <1>2, FS_Subset, FS_CardinalityType
<1>4. Majority \in Nat
  BY DEF RedlockAssumption, Majority
<1>5. Cardinality(S) + Cardinality(T) > Cardinality(Node)
  BY <1>1, <1>2, <1>3, <1>4
<1>6. S \cap T # {}
  BY <1>2, <1>5, FS_MajoritiesIntersect
<1>q. QED BY <1>6

-----------------------------------------------------------------------------
(* The record of a node after a call of client d: another client holds it    *)
(* then only if it did before, and the call has not touched the record.      *)
LEMMA CallOfAnother ==
    ASSUME NEW e \in Entry \cup {NoEntry}, NEW c \in Client, NEW d \in Client, c # d,
           NEW r \in {AfterLock(e, d, TTL), AfterUnlock(e, d), AfterHeartbeat(e, d, TTL),
                      DropLapsed(e)},
           HeldBy(e, c) \/ HeldBy(r, c)
    PROVE  r = e
BY DEF AfterLock, AfterUnlock, AfterHeartbeat, DropLapsed, HeldBy, LockOk, UnlockOk,
       HeartbeatOk, Held, IsExpired, Entry, Client

(* The calls give a record or none. *)
LEMMA CallType ==
    ASSUME RedlockAssumption, NEW e \in Entry \cup {NoEntry}, NEW d \in Client,
           NEW r \in {AfterLock(e, d, TTL), AfterUnlock(e, d), AfterHeartbeat(e, d, TTL),
                      DropLapsed(e), AfterTick(e)}
    PROVE  r \in Entry \cup {NoEntry}
<1>1. AfterLock(e, d, TTL) \in Entry \cup {NoEntry}
  BY DEF AfterLock, Held, Entry, Client, RedlockAssumption
<1>2. DropLapsed(e) \in Entry \cup {NoEntry}
  BY DEF DropLapsed
<1>3. AfterUnlock(e, d) \in Entry \cup {NoEntry}
  BY <1>2 DEF AfterUnlock, UnlockOk, HeldBy, Held, Entry
<1>4. AfterHeartbeat(e, d, TTL) \in Entry \cup {NoEntry}
  BY <1>2 DEF AfterHeartbeat, HeartbeatOk, HeldBy, Held, Entry, RedlockAssumption
<1>5. AfterTick(e) \in Entry \cup {NoEntry}
  BY DEF AfterTick, Sooner, Entry
<1>q. QED BY <1>1, <1>2, <1>3, <1>4, <1>5

(* A Lock that succeeds makes the caller the holder for TTL ticks; one level *)
(* deep if the caller did not hold the key before.                           *)
LEMMA OwnLock ==
    ASSUME RedlockAssumption, NEW e \in Entry \cup {NoEntry}, NEW d \in Client,
           NEW r, r = AfterLock(e, d, TTL)
    PROVE  /\ LockOk(e, d) => HeldBy(r, d) /\ r.expiresAt = TTL
           /\ ~ LockOk(e, d) => r = e
           /\ HeldBy(r, d) => HeldBy(e, d) \/ (LockOk(e, d) /\ r.reentrancy = 1)
<1>1. CASE ~ Held(e)
  <2>1. r \in Entry /\ r.expiresAt = TTL /\ r.token = d /\ r.reentrancy = 1
    BY <1>1 DEF AfterLock, Entry, RedlockAssumption, Client
  <2>2. HeldBy(r, d)
    BY <2>1, NoEntryAssumption DEF HeldBy, Held, IsExpired, RedlockAssumption
  <2>q. QED BY <1>1, <2>1, <2>2 DEF LockOk
<1>2. CASE Held(e) /\ LockOk(e, d)
  <2>1. r \in Entry /\ r.expiresAt = TTL /\ r.token = d
    BY <1>2 DEF AfterLock, Entry, RedlockAssumption, Client, Held
  <2>2. HeldBy(r, d)
    BY <2>1, NoEntryAssumption DEF HeldBy, Held, IsExpired, RedlockAssumption
  <2>q. QED BY <1>2, <2>1, <2>2 DEF LockOk, HeldBy
<1>3. CASE Held(e) /\ ~ LockOk(e, d)
  BY <1>3 DEF AfterLock
<1>q. QED BY <1>1, <1>2, <1>3

(* A Heartbeat that succeeds restarts the expiry and leaves the depth. *)
LEMMA OwnHeartbeat ==
    ASSUME RedlockAssumption, NEW e \in Entry \cup {NoEntry}, NEW d \in Client,
           NEW r, r = AfterHeartbeat(e, d, TTL)
    PROVE  /\ HeldBy(e, d) => /\ HeldBy(r, d) /\ r.expiresAt = TTL
                              /\ r.reentrancy = e.reentrancy
           /\ ~ HeldBy(e, d) => ~ HeldBy(r, d)
<1>1. CASE HeldBy(e, d)
  <2>1. r = [e EXCEPT !.expiresAt = TTL] /\ e \in Entry /\ e.token = d
    BY <1>1 DEF AfterHeartbeat, HeartbeatOk, HeldBy, Held
  <2>2. r \in Entry /\ r.expiresAt = TTL /\ r.token = d /\ r.reentrancy = e.reentrancy
    BY <2>1 DEF Entry, RedlockAssumption
  <2>q. QED BY <1>1, <2>2, NoEntryAssumption DEF HeldBy, Held, IsExpired, RedlockAssumption
<1>2. CASE ~ HeldBy(e, d)
  BY <1>2 DEF AfterHeartbeat, HeartbeatOk, DropLapsed, HeldBy, Held
<1>q. QED BY <1>1, <1>2

(* A record one level deep is gone after the holder's Unlock. *)
LEMMA OwnUnlock ==
    ASSUME NEW e \in Entry \cup {NoEntry}, NEW d \in Client,
           HeldBy(e, d) => e.reentrancy = 1
    PROVE  ~ HeldBy(AfterUnlock(e, d), d)
BY DEF AfterUnlock, UnlockOk, DropLapsed, HeldBy, Held, Entry

(* The clock takes one tick from an expiry and leaves the rest. *)
LEMMA TickRecord ==
    ASSUME NEW e \in Entry \cup {NoEntry}, NEW c \in Client, NEW r, r = AfterTick(e)
    PROVE  /\ HeldBy(r, c) => HeldBy(e, c) /\ r.reentrancy = e.reentrancy
           /\ HeldBy(e, c) /\ e.expiresAt >= 1 =>
                 HeldBy(r, c) /\ r.expiresAt = e.expiresAt - 1
<1>1. CASE e = NoEntry
  BY <1>1 DEF AfterTick, HeldBy, Held
<1>2. CASE e # NoEntry
  <2>1. /\ r \in Entry /\ e \in Entry /\ r.expiresAt = Sooner(e.expiresAt)
        /\ r.token = e.token /\ r.reentrancy = e.reentrancy
    BY <1>2 DEF AfterTick, Entry, Sooner
  <2>q. QED BY <2>1, <1>2, NoEntryAssumption DEF HeldBy, Held, IsExpired, Sooner, Entry
<1>q. QED BY <1>1, <1>2

-----------------------------------------------------------------------------
ClientInv(c) == CallInv(c) /\ TimeInv(c) /\ HoldInv(c)

(* A call on one node that shortens no claim of the client keeps the noted   *)
(* expiries true.                                                            *)
LEMMA TimeKept ==
    ASSUME RedlockAssumption, TypeOK, NEW c \in Client, ClientInv(c),
           cli'[c].nodes = cli[c].nodes, cli'[c].min = cli[c].min, acq'[c] = acq[c],
           \A m \in Node, x \in Int :
              x <= TTL /\ Claim(node[m], c, x) => Claim(node'[m], c, x),
           cli'[c].at # 0 /\ TTL > cli'[c].lag =>
              Claim(node'[cli'[c].at], c, TTL - cli'[c].lag)
    PROVE  TimeInv(c)'
<1>1. /\ cli[c].min \in Int /\ acq[c].expiry \in Int
      /\ cli[c].min <= TTL /\ acq[c].expiry <= TTL /\ MaxLag \in Nat /\ TTL \in Nat
      /\ cli[c].nodes \subseteq Node /\ acq[c].nodes \subseteq Node
  BY DEF TypeOK, ClientState, ClientInv, CallInv, RedlockAssumption
<1>2. cli[c].min - MaxLag \in Int /\ cli[c].min - MaxLag <= TTL
  BY <1>1
<1>3. cli[c].min > MaxLag => \A m \in cli[c].nodes : Claim(node'[m], c, cli[c].min - MaxLag)
  BY <1>1, <1>2 DEF ClientInv, TimeInv
<1>4. MaxLag <= ClockDrift /\ IsValid(acq[c]) =>
         \A m \in acq[c].nodes : Claim(node'[m], c, acq[c].expiry)
  BY <1>1 DEF ClientInv, TimeInv
<1>q. QED BY <1>3, <1>4 DEF TimeInv

(* A step leaves client c alone: its call and its acquisition, and the nodes *)
(* that hold the key for it before or after.                                 *)
LeavesAlone(c) ==
    /\ cli'[c] = cli[c] /\ acq'[c] = acq[c]
    /\ c \in left => c \in left'
    /\ AllUp' => AllUp
    /\ \A n \in Node : HeldBy(node[n], c) \/ HeldBy(node'[n], c) => node'[n] = node[n]

(* A step that leaves a client alone keeps what is known about it. *)
LEMMA AloneInv ==
    ASSUME RedlockAssumption, TypeOK, NEW c \in Client, ClientInv(c), LeavesAlone(c)
    PROVE  ClientInv(c)'
<1>1. CallInv(c)'
  BY DEF ClientInv, CallInv, LeavesAlone
<1>2. \A n \in Node, x \in Int : Claim(node[n], c, x) => Claim(node'[n], c, x)
  BY DEF LeavesAlone, Claim
<1>3. TimeInv(c)'
  <2>1. cli[c].at \in {0} \cup Node /\ TTL - cli[c].lag \in Int
    BY DEF TypeOK, ClientState, RedlockAssumption
  <2>2. cli[c].at # 0 /\ TTL > cli[c].lag => Claim(node'[cli[c].at], c, TTL - cli[c].lag)
    BY <1>2, <2>1 DEF ClientInv, TimeInv
  <2>q. QED BY <1>2, <2>2, TimeKept DEF LeavesAlone
<1>4. HoldInv(c)'
  BY DEF ClientInv, HoldInv, LeavesAlone, TypeOK
<1>q. QED BY <1>1, <1>3, <1>4 DEF ClientInv

(* A step of client d that changes no node leaves the others alone. *)
LEMMA QuietStep ==
    ASSUME TypeOK, NEW d \in Client, NEW c \in Client, c # d,
           UNCHANGED <<node, up>>, left \subseteq left',
           cli'[c] = cli[c], acq'[c] = acq[c]
    PROVE  LeavesAlone(c)
BY DEF LeavesAlone, AllUp

(* So does a call of client d on a node. *)
LEMMA NodeStep ==
    ASSUME TypeOK, NEW d \in Client, NEW c \in Client, c # d, NEW n \in Node,
           NEW r \in {AfterLock(node[n], d, TTL), AfterUnlock(node[n], d),
                      AfterHeartbeat(node[n], d, TTL), DropLapsed(node[n])},
           node' = IF up[n] THEN [node EXCEPT ![n] = r] ELSE node,
           UNCHANGED <<up, left>>, cli'[c] = cli[c], acq'[c] = acq[c]
    PROVE  LeavesAlone(c)
<1>1. node[n] \in Entry \cup {NoEntry}
  BY DEF TypeOK
<1>2. HeldBy(node[n], c) \/ HeldBy(r, c) => r = node[n]
  BY <1>1, CallOfAnother
<1>3. \A m \in Node : HeldBy(node[m], c) \/ HeldBy(node'[m], c) => node'[m] = node[m]
  BY <1>2 DEF TypeOK
<1>q. QED BY <1>3 DEF LeavesAlone, AllUp

-----------------------------------------------------------------------------
(* A client outside a call has visited no node. *)
LEMMA CallEnds ==
    ASSUME RedlockAssumption
    PROVE  /\ Idle \in ClientState
           /\ Idle.pc = "idle" /\ Idle.todo = {} /\ Idle.nodes = {} /\ Idle.at = 0
           /\ Idle.lag = 0 /\ Idle.min = TTL
<1>1. TTL \in Int /\ 0 \in Nat
  BY DEF RedlockAssumption
<1>q. QED BY <1>1 DEF ClientState, Idle

(* The state in which a call over the nodes of S begins. *)
Begun(q, S) == [Idle EXCEPT !.pc = q, !.todo = S]

(* Nor has one whose call begins. *)
LEMMA CallBegins ==
    ASSUME RedlockAssumption, NEW q \in {"idle", "lock", "roll", "unlock", "beat"},
           NEW S \in SUBSET Node
    PROVE  /\ Begun(q, S) \in ClientState
           /\ Begun(q, S).pc = q /\ Begun(q, S).todo = S /\ Begun(q, S).nodes = {}
           /\ Begun(q, S).at = 0 /\ Begun(q, S).lag = 0 /\ Begun(q, S).min = TTL
BY Zenon, CallEnds DEF Begun, ClientState

(* attemptLock begins with no nodes and the whole list before it. *)
LEMMA BeginLockInv ==
    ASSUME RedlockAssumption, TypeOK, NEW c \in Client, ClientInv(c), BeginLock(c)
    PROVE  TypeOK' /\ ClientInv(c)'
<1>1. /\ cli'[c] = Begun("lock", Node)
      /\ UNCHANGED <<node, up, acq, left>> /\ acq[c] = NoAcq /\ cli[c].pc = "idle"
  BY DEF BeginLock, TypeOK, Begun
<1>2. /\ cli'[c] \in ClientState
      /\ cli'[c].pc = "lock" /\ cli'[c].nodes = {} /\ cli'[c].at = 0
      /\ cli'[c].lag = 0 /\ cli'[c].min = TTL
  BY <1>1, CallBegins
<1>3. TypeOK'
  BY <1>1, <1>2 DEF BeginLock, TypeOK
<1>5. CallInv(c)'
  BY <1>1, <1>2 DEF CallInv, ClientInv, NoAcq, RedlockAssumption
<1>6. TimeInv(c)'
  BY <1>1, <1>2 DEF TimeInv, NoAcq, IsValid
<1>7. HoldInv(c)'
  BY <1>1, <1>2 DEF HoldInv, ClientInv, AllUp
<1>q. QED BY <1>3, <1>5, <1>6, <1>7 DEF ClientInv

(* A node locked for the client holds the key for TTL ticks. *)
LEMMA LockNodeInv ==
    ASSUME RedlockAssumption, TypeOK, NEW c \in Client, ClientInv(c), LockNode(c)
    PROVE  TypeOK' /\ ClientInv(c)' /\ \A d \in Client \ {c} : LeavesAlone(d)
<1>1. PICK n \in cli[c].todo : n = Next1(cli[c].todo)
  BY Next1InSet DEF LockNode, TypeOK, ClientState
<1>2. n \in Node /\ node[n] \in Entry \cup {NoEntry}
  BY DEF TypeOK, ClientState
<1>3. PICK r \in Entry \cup {NoEntry} : r = AfterLock(node[n], c, TTL)
  BY <1>2, CallType
<1> DEFINE ok == up[n] /\ LockOk(node[n], c)
<1>4. /\ cli[c].pc = "lock" /\ cli[c].at = 0 /\ UNCHANGED <<up, acq, left>>
      /\ node' = IF up[n] THEN [node EXCEPT ![n] = r] ELSE node
      /\ cli' = [cli EXCEPT ![c].todo = @ \ {n}, ![c].at = IF ok THEN n ELSE 0]
  BY <1>1, <1>3 DEF LockNode
<1>5. /\ LockOk(node[n], c) => HeldBy(r, c) /\ r.expiresAt = TTL
      /\ ~ LockOk(node[n], c) => r = node[n]
      /\ HeldBy(r, c) => HeldBy(node[n], c) \/ (LockOk(node[n], c) /\ r.reentrancy = 1)
  BY <1>2, <1>3, OwnLock
<1>6. \A d \in Client \ {c} : LeavesAlone(d)
  BY Zenon, <1>2, <1>3, <1>4, NodeStep DEF TypeOK
<1>7. /\ cli'[c] \in ClientState
      /\ cli'[c].pc = "lock" /\ cli'[c].todo = cli[c].todo \ {n}
      /\ cli'[c].at = (IF ok THEN n ELSE 0) /\ cli'[c].nodes = cli[c].nodes
      /\ cli'[c].min = cli[c].min /\ cli'[c].lag = cli[c].lag /\ cli[c].lag = 0
  BY Zenon, <1>2, <1>4 DEF TypeOK, ClientState, ClientInv, CallInv
<1>8. TypeOK'
  BY <1>2, <1>4, <1>7 DEF TypeOK
<1>9. CallInv(c)'
  BY Zenon, <1>4, <1>7 DEF CallInv, ClientInv
<1>10. /\ node'[n] = IF up[n] THEN r ELSE node[n]
       /\ \A m \in Node \ {n} : node'[m] = node[m]
       /\ TTL \in Nat /\ \A m \in Node : m # 0
  BY <1>2, <1>4 DEF TypeOK, RedlockAssumption, Node
<1>11. TimeInv(c)'
  <2>1. ASSUME NEW m \in Node, NEW x \in Int, x <= TTL, Claim(node[m], c, x)
        PROVE  Claim(node'[m], c, x)
    BY <1>5, <1>10, <2>1 DEF Claim
  <2>2. ok => Claim(node'[n], c, TTL)
    BY <1>5, <1>10 DEF Claim
  <2>3. TTL - 0 = TTL
    BY <1>10
  <2>q. QED BY Zenon, <1>4, <1>7, <2>1, <2>2, <2>3, TimeKept
<1>12. HoldInv(c)'
  <2>1. SUFFICES ASSUME AllUp', c \notin left', NEW m \in Node, HeldBy(node'[m], c)
                 PROVE  /\ node'[m].reentrancy = 1 /\ m \notin cli'[c].todo
                        /\ m \in cli'[c].nodes \/ m = cli'[c].at
    BY <1>7 DEF HoldInv
  <2>2. up[n] /\ AllUp /\ c \notin left
    BY <1>2, <1>4, <2>1 DEF AllUp
  <2>3. CASE m # n
    BY Zenon, <1>4, <1>7, <1>10, <2>1, <2>2, <2>3 DEF ClientInv, HoldInv
  <2>4. CASE m = n
    <3>1. ~ HeldBy(node[n], c)
      BY <1>2, <1>4, <2>2 DEF ClientInv, HoldInv
    <3>2. LockOk(node[n], c) /\ r.reentrancy = 1
      BY <1>5, <1>10, <2>1, <2>2, <2>4, <3>1
    <3>q. QED BY <1>7, <1>10, <2>2, <2>4, <3>2
  <2>q. QED BY <2>3, <2>4
<1>q. QED BY <1>6, <1>8, <1>9, <1>11, <1>12 DEF ClientInv

(* time.Now().Add(ttl) counts from later than the node's own expiry, by lag. *)
LEMMA StampInv ==
    ASSUME RedlockAssumption, TypeOK, NEW c \in Client, ClientInv(c), Stamp(c)
    PROVE  TypeOK' /\ ClientInv(c)'
<1>1. /\ cli[c] \in ClientState /\ cli[c].at \in Node /\ cli[c].pc \in {"lock", "beat"}
      /\ TTL \in Nat /\ MaxLag \in Nat
      /\ UNCHANGED <<node, up, acq, left>> /\ cli[c].min <= TTL /\ cli[c].lag <= MaxLag
  BY DEF Stamp, TypeOK, ClientState, ClientInv, CallInv, RedlockAssumption
<1>2. /\ cli'[c].pc = cli[c].pc /\ cli'[c].todo = cli[c].todo /\ cli'[c].at = 0
      /\ cli'[c].nodes = cli[c].nodes \cup {cli[c].at}
      /\ cli'[c].min = cli[c].min /\ cli'[c].lag = 0 /\ cli'[c] \in ClientState
  BY <1>1 DEF Stamp, TypeOK, ClientState, Smaller
<1>3. TypeOK'
  BY <1>1, <1>2 DEF TypeOK, Stamp
<1>4. CallInv(c)'
  BY <1>1, <1>2 DEF ClientInv, CallInv
<1>5. ASSUME cli[c].min > MaxLag
      PROVE  Claim(node[cli[c].at], c, cli[c].min - MaxLag)
  <2>1. cli[c].min \in Int /\ cli[c].lag \in Nat /\ node[cli[c].at] \in Entry \cup {NoEntry}
    BY <1>1 DEF ClientState, TypeOK
  <2>2. TTL > cli[c].lag /\ TTL - cli[c].lag >= cli[c].min - MaxLag /\ cli[c].at # 0
    BY <1>1, <1>5, <2>1 DEF Stamp
  <2>3. Claim(node[cli[c].at], c, TTL - cli[c].lag)
    BY <2>2 DEF ClientInv, TimeInv
  <2>q. QED BY <1>1, <2>1, <2>2, <2>3 DEF Claim, HeldBy, Held, Entry
<1>6. TimeInv(c)'
  BY <1>1, <1>2, <1>5 DEF ClientInv, TimeInv
<1>7. HoldInv(c)'
  BY <1>1, <1>2 DEF ClientInv, HoldInv, AllUp
<1>q. QED BY <1>3, <1>4, <1>6, <1>7 DEF ClientInv

(* A call that begins or ends without a new acquisition has noted nothing. *)
LEMMA NothingNoted ==
    ASSUME RedlockAssumption, TypeOK, NEW c \in Client, ClientInv(c), node' = node,
           cli'[c].nodes = {}, cli'[c].at = 0, cli'[c].lag = 0, cli'[c].min <= TTL,
           acq'[c] = acq[c] \/ acq'[c] = NoAcq,
           cli'[c].pc \in {"lock", "roll", "unlock"} => acq'[c] = NoAcq,
           cli'[c].pc = "beat" => acq'[c] # NoAcq
    PROVE  CallInv(c)' /\ TimeInv(c)'
<1>1. CallInv(c)'
  BY DEF ClientInv, CallInv, RedlockAssumption, NoAcq
<1>2. TimeInv(c)'
  BY DEF ClientInv, TimeInv, IsValid, NoAcq
<1>q. QED BY <1>1, <1>2

(* A quorum whose earliest expiry exceeds the drift allowance: the nodes of  *)
(* the new acquisition hold the key for as long as it claims.                *)
LEMMA Acquires ==
    ASSUME RedlockAssumption, TypeOK, NEW c \in Client, ClientInv(c), node' = node,
           Quorum(c), cli'[c] = Idle, acq'[c] = Acquisition(c)
    PROVE  CallInv(c)' /\ TimeInv(c)' /\ acq'[c] # NoAcq
<1>1. /\ cli[c].min \in Int /\ cli[c].nodes \subseteq Node /\ cli[c].min <= TTL
      /\ TTL \in Nat /\ ClockDrift \in Nat /\ MaxLag \in Nat /\ Majority \in Nat \ {0}
      /\ cli[c].min - ClockDrift > 0 /\ Cardinality(cli[c].nodes) >= Majority
  BY DEF TypeOK, ClientState, ClientInv, CallInv, RedlockAssumption, Majority, Quorum
<1>2. acq'[c].nodes = cli[c].nodes /\ acq'[c].expiry = cli[c].min - ClockDrift
  BY DEF Acquisition
<1>3. acq'[c] # NoAcq
  BY <1>1, <1>2, FS_EmptySet DEF NoAcq
<1>4. CallInv(c)'
  BY <1>1, <1>2, CallEnds DEF CallInv, RedlockAssumption
<1>5. ASSUME MaxLag <= ClockDrift, NEW n \in cli[c].nodes
      PROVE  Claim(node[n], c, cli[c].min - ClockDrift)
  <2>1. cli[c].min > MaxLag /\ cli[c].min - MaxLag >= cli[c].min - ClockDrift
    BY <1>1, <1>5
  <2>2. Claim(node[n], c, cli[c].min - MaxLag)
    BY <2>1 DEF ClientInv, TimeInv
  <2>3. node[n] \in Entry \cup {NoEntry}
    BY <1>1 DEF TypeOK
  <2>q. QED BY <1>1, <2>1, <2>2, <2>3 DEF Claim, HeldBy, Held, Entry
<1>6. TimeInv(c)'
  BY <1>2, <1>5, CallEnds DEF TimeInv
<1>q. QED BY <1>3, <1>4, <1>6

(* attemptLock succeeds, or leaves the nodes it locked to the rollback. *)
LEMMA EndLockInv ==
    ASSUME RedlockAssumption, TypeOK, NEW c \in Client, ClientInv(c), EndLock(c)
    PROVE  TypeOK' /\ ClientInv(c)'
<1>0. /\ UNCHANGED <<node, up, left>> /\ cli[c].pc = "lock" /\ cli[c].at = 0
      /\ cli[c].todo = {} /\ cli[c] \in ClientState /\ acq[c] = NoAcq
      /\ \A n \in Node : n # 0
  BY DEF EndLock, Visited, TypeOK, ClientInv, CallInv, Node, RedlockAssumption
<1>1. CASE Quorum(c)
  <2>1. acq' = [acq EXCEPT ![c] = Acquisition(c)] /\ cli' = [cli EXCEPT ![c] = Idle]
    BY <1>1 DEF EndLock
  <2>2. acq'[c] = Acquisition(c) /\ cli'[c] = Idle
    BY <2>1 DEF TypeOK
  <2>3. Acquisition(c) \in [nodes : SUBSET Node, expiry : Int]
    BY <1>0 DEF Acquisition, ClientState, RedlockAssumption
  <2>4. TypeOK'
    BY <1>0, <2>1, <2>3, CallEnds DEF TypeOK
  <2>5. CallInv(c)' /\ TimeInv(c)' /\ acq'[c] # NoAcq
    BY <1>0, <1>1, <2>2, Acquires
  <2>6. HoldInv(c)'
    BY <1>0, <2>2, <2>5, CallEnds DEF ClientInv, HoldInv, AllUp
  <2>q. QED BY <2>4, <2>5, <2>6 DEF ClientInv
<1>2. CASE ~ Quorum(c)
  <2>1. acq' = acq /\ cli' = [cli EXCEPT ![c] = Begun("roll", cli[c].nodes)]
    BY <1>2 DEF EndLock, Begun
  <2>2. cli[c].nodes \in SUBSET Node /\ TTL \in Nat
    BY <1>0 DEF ClientState, RedlockAssumption
  <2>3. /\ cli'[c] \in ClientState
        /\ cli'[c].pc = "roll" /\ cli'[c].todo = cli[c].nodes /\ cli'[c].nodes = {}
        /\ cli'[c].at = 0 /\ cli'[c].lag = 0 /\ cli'[c].min = TTL
    <3>1. cli'[c] = Begun("roll", cli[c].nodes)
      BY <2>1 DEF TypeOK
    <3>q. QED BY <2>2, <3>1, CallBegins
  <2>4. TypeOK'
    BY <1>0, <2>1, <2>3 DEF TypeOK
  <2>5. CallInv(c)' /\ TimeInv(c)'
    BY <1>0, <2>1, <2>2, <2>3, NothingNoted
  <2>6. HoldInv(c)'
    BY <1>0, <2>1, <2>3 DEF ClientInv, HoldInv, AllUp
  <2>q. QED BY <2>4, <2>5, <2>6 DEF ClientInv
<1>q. QED BY <1>1, <1>2

(* node.Unlock, by a rollback or by Unlock: the node is free of the client. *)
LEMMA UnlockAtInv ==
    ASSUME RedlockAssumption, TypeOK, NEW c \in Client, ClientInv(c),
           cli[c].pc \in {"roll", "unlock"}, NEW n \in cli[c].todo, UnlockAt(c, n)
    PROVE  TypeOK' /\ ClientInv(c)' /\ \A d \in Client \ {c} : LeavesAlone(d)
<1>1. n \in Node /\ node[n] \in Entry \cup {NoEntry} /\ cli[c] \in ClientState
  BY DEF TypeOK, ClientState
<1>2. PICK r \in Entry \cup {NoEntry} : r = AfterUnlock(node[n], c)
  BY <1>1, CallType
<1>3. /\ UNCHANGED <<up, acq, left>>
      /\ node' = IF up[n] THEN [node EXCEPT ![n] = r] ELSE node
      /\ cli' = [cli EXCEPT ![c].todo = @ \ {n}]
  BY <1>2 DEF UnlockAt
<1>4. \A d \in Client \ {c} : LeavesAlone(d)
  BY Zenon, <1>1, <1>2, <1>3, NodeStep DEF TypeOK
<1>5. /\ cli'[c] \in ClientState
      /\ cli'[c].pc = cli[c].pc /\ cli'[c].todo = cli[c].todo \ {n}
      /\ cli'[c].at = 0 /\ cli'[c].nodes = {} /\ cli'[c].lag = 0
      /\ cli'[c].min = cli[c].min /\ acq[c] = NoAcq
  BY SMTT(30), <1>1, <1>3 DEF TypeOK, ClientState, ClientInv, CallInv
<1>6. TypeOK'
  BY <1>1, <1>3, <1>5 DEF TypeOK
<1>7. CallInv(c)'
  BY <1>3, <1>5 DEF ClientInv, CallInv
<1>8. TimeInv(c)'
  BY <1>3, <1>5 DEF TimeInv, IsValid, NoAcq
<1>9. HoldInv(c)'
  <2>1. SUFFICES ASSUME AllUp', c \notin left', NEW m \in Node, HeldBy(node'[m], c)
                 PROVE  node'[m].reentrancy = 1 /\ m \in cli'[c].todo
    BY <1>5 DEF HoldInv
  <2>2. up[n] /\ AllUp /\ c \notin left
    BY <1>1, <1>3, <2>1 DEF AllUp
  <2>3. node'[n] = r /\ \A k \in Node \ {n} : node'[k] = node[k]
    BY <1>1, <1>3, <2>2 DEF TypeOK
  <2>4. ~ HeldBy(r, c)
    BY <1>1, <1>2, <2>2, OwnUnlock DEF ClientInv, HoldInv
  <2>5. m # n
    BY <2>1, <2>3, <2>4
  <2>q. QED BY <1>5, <2>1, <2>2, <2>3, <2>5 DEF ClientInv, HoldInv
<1>q. QED BY <1>4, <1>6, <1>7, <1>8, <1>9 DEF ClientInv

(* Unlock gives the acquisition up and begins with the whole list of nodes. *)
LEMMA BeginUnlockInv ==
    ASSUME RedlockAssumption, TypeOK, NEW c \in Client, ClientInv(c), BeginUnlock(c)
    PROVE  TypeOK' /\ ClientInv(c)'
<1>1. /\ UNCHANGED <<node, up, left>> /\ acq' = [acq EXCEPT ![c] = NoAcq]
      /\ cli' = [cli EXCEPT ![c] = Begun("unlock", Node)]
  BY DEF BeginUnlock, Begun, UnlockTargets
<1>2. /\ cli'[c] \in ClientState
      /\ cli'[c].pc = "unlock" /\ cli'[c].todo = Node /\ cli'[c].nodes = {}
      /\ cli'[c].at = 0 /\ cli'[c].lag = 0 /\ cli'[c].min = TTL
  <2>1. cli'[c] = Begun("unlock", Node)
    BY <1>1 DEF TypeOK
  <2>q. QED BY <2>1, CallBegins
<1>3. NoAcq \in [nodes : SUBSET Node, expiry : Int] /\ acq'[c] = NoAcq /\ TTL \in Nat
  BY <1>1 DEF TypeOK, NoAcq, RedlockAssumption
<1>4. TypeOK'
  BY <1>1, <1>2, <1>3 DEF TypeOK
<1>5. CallInv(c)' /\ TimeInv(c)'
  BY <1>1, <1>2, <1>3, NothingNoted
<1>6. HoldInv(c)'
  BY <1>1, <1>2 DEF ClientInv, HoldInv, AllUp
<1>q. QED BY <1>4, <1>5, <1>6 DEF ClientInv

(* Unlock or a rollback returns once every node is visited. *)
LEMMA EndUnlockInv ==
    ASSUME RedlockAssumption, TypeOK, NEW c \in Client, ClientInv(c), EndUnlock(c)
    PROVE  TypeOK' /\ ClientInv(c)'
<1>1. /\ UNCHANGED <<node, up, acq, left>> /\ cli' = [cli EXCEPT ![c] = Idle]
      /\ cli[c].pc \in {"roll", "unlock"} /\ cli[c].todo = {} /\ cli'[c] = Idle
      /\ TTL \in Nat
  BY DEF EndUnlock, Visited, TypeOK, RedlockAssumption
<1>2. TypeOK'
  BY <1>1, CallEnds DEF TypeOK
<1>3. CallInv(c)' /\ TimeInv(c)'
  BY <1>1, CallEnds, NothingNoted
<1>4. HoldInv(c)'
  BY <1>1, CallEnds DEF ClientInv, HoldInv, AllUp
<1>q. QED BY <1>2, <1>3, <1>4 DEF ClientInv

(* Heartbeat begins with the nodes of the acquisition. *)
LEMMA BeginHeartbeatInv ==
    ASSUME RedlockAssumption, TypeOK, NEW c \in Client, ClientInv(c), BeginHeartbeat(c)
    PROVE  TypeOK' /\ ClientInv(c)'
<1>1. /\ UNCHANGED <<node, up, acq, left>> /\ acq[c].nodes \in SUBSET Node
      /\ acq[c] # NoAcq
      /\ cli' = [cli EXCEPT ![c] = Begun("beat", acq[c].nodes)] /\ TTL \in Nat
  BY DEF BeginHeartbeat, Begun, TypeOK, RedlockAssumption
<1>2. /\ cli'[c] \in ClientState
      /\ cli'[c].pc = "beat" /\ cli'[c].nodes = {}
      /\ cli'[c].at = 0 /\ cli'[c].lag = 0 /\ cli'[c].min = TTL
  <2>1. cli'[c] = Begun("beat", acq[c].nodes)
    BY <1>1 DEF TypeOK
  <2>q. QED BY <1>1, <2>1, CallBegins
<1>3. TypeOK'
  BY <1>1, <1>2 DEF TypeOK
<1>4. CallInv(c)' /\ TimeInv(c)'
  BY <1>1, <1>2, NothingNoted
<1>5. HoldInv(c)'
  BY <1>1, <1>2 DEF ClientInv, HoldInv, AllUp
<1>q. QED BY <1>3, <1>4, <1>5 DEF ClientInv

(* node.Heartbeat extends what the client holds and takes nothing new. *)
LEMMA HeartbeatNodeInv ==
    ASSUME RedlockAssumption, TypeOK, NEW c \in Client, ClientInv(c), HeartbeatNode(c)
    PROVE  TypeOK' /\ ClientInv(c)' /\ \A d \in Client \ {c} : LeavesAlone(d)
<1>1. PICK n \in cli[c].todo :
         /\ node' = IF up[n] THEN [node EXCEPT ![n] = AfterHeartbeat(@, c, TTL)] ELSE node
         /\ cli' = [cli EXCEPT ![c].todo = @ \ {n},
                               ![c].at = IF up[n] /\ HeartbeatOk(node[n], c) THEN n ELSE 0]
  BY Zenon DEF HeartbeatNode
<1>2. n \in Node /\ node[n] \in Entry \cup {NoEntry} /\ cli[c] \in ClientState
  BY DEF TypeOK, ClientState
<1>3. PICK r \in Entry \cup {NoEntry} : r = AfterHeartbeat(node[n], c, TTL)
  BY <1>2, CallType
<1> DEFINE ok == up[n] /\ HeldBy(node[n], c)
<1>4. /\ cli[c].pc = "beat" /\ cli[c].at = 0 /\ UNCHANGED <<up, acq, left>>
      /\ node' = IF up[n] THEN [node EXCEPT ![n] = r] ELSE node
      /\ cli' = [cli EXCEPT ![c].todo = @ \ {n}, ![c].at = IF ok THEN n ELSE 0]
  BY Zenon, <1>1, <1>3 DEF HeartbeatNode, HeartbeatOk
<1>5. /\ HeldBy(node[n], c) => /\ HeldBy(r, c) /\ r.expiresAt = TTL
                               /\ r.reentrancy = node[n].reentrancy
      /\ ~ HeldBy(node[n], c) => ~ HeldBy(r, c)
  BY <1>2, <1>3, OwnHeartbeat
<1>6. \A d \in Client \ {c} : LeavesAlone(d)
  BY Zenon, <1>2, <1>3, <1>4, NodeStep DEF TypeOK
<1>7. /\ cli'[c] \in ClientState
      /\ cli'[c].pc = "beat"
      /\ cli'[c].at = (IF ok THEN n ELSE 0) /\ cli'[c].nodes = cli[c].nodes
      /\ cli'[c].min = cli[c].min /\ cli'[c].lag = cli[c].lag /\ cli[c].lag = 0
  BY Zenon, <1>2, <1>4 DEF TypeOK, ClientState, ClientInv, CallInv
<1>8. TypeOK'
  BY <1>2, <1>4, <1>7 DEF TypeOK
<1>9. CallInv(c)'
  BY <1>4, <1>7 DEF CallInv, ClientInv
<1>10. /\ node'[n] = IF up[n] THEN r ELSE node[n]
       /\ \A m \in Node \ {n} : node'[m] = node[m]
       /\ TTL \in Nat
  BY <1>2, <1>4 DEF TypeOK, RedlockAssumption
<1>11. TimeInv(c)'
  <2>1. ASSUME NEW m \in Node, NEW x \in Int, x <= TTL, Claim(node[m], c, x)
        PROVE  Claim(node'[m], c, x)
    BY <1>5, <1>10, <2>1 DEF Claim
  <2>2. ok => Claim(node'[n], c, TTL)
    BY <1>5, <1>10 DEF Claim
  <2>3. TTL - 0 = TTL
    BY <1>10
  <2>q. QED BY Zenon, <1>4, <1>7, <2>1, <2>2, <2>3, TimeKept
<1>12. HoldInv(c)'
  BY <1>2, <1>4, <1>5, <1>7, <1>10 DEF ClientInv, HoldInv, AllUp
<1>q. QED BY <1>6, <1>8, <1>9, <1>11, <1>12 DEF ClientInv

(* Heartbeat returns a new acquisition, or nil and the old one stays. *)
LEMMA EndHeartbeatInv ==
    ASSUME RedlockAssumption, TypeOK, NEW c \in Client, ClientInv(c), EndHeartbeat(c)
    PROVE  TypeOK' /\ ClientInv(c)'
<1>0. /\ UNCHANGED <<node, up, left>> /\ cli[c].pc = "beat" /\ cli[c] \in ClientState
      /\ cli' = [cli EXCEPT ![c] = Idle] /\ cli'[c] = Idle /\ TTL \in Nat
  BY DEF EndHeartbeat, Visited, TypeOK, RedlockAssumption
<1>1. CASE Quorum(c)
  <2>1. acq' = [acq EXCEPT ![c] = Acquisition(c)] /\ acq'[c] = Acquisition(c)
    BY <1>1 DEF EndHeartbeat, TypeOK
  <2>3. Acquisition(c) \in [nodes : SUBSET Node, expiry : Int]
    BY <1>0 DEF Acquisition, ClientState, RedlockAssumption
  <2>4. TypeOK'
    BY <1>0, <2>1, <2>3, CallEnds DEF TypeOK
  <2>5. CallInv(c)' /\ TimeInv(c)' /\ acq'[c] # NoAcq
    BY <1>0, <1>1, <2>1, Acquires
  <2>6. HoldInv(c)'
    BY <1>0, <2>5, CallEnds DEF ClientInv, HoldInv, AllUp
  <2>q. QED BY <2>4, <2>5, <2>6 DEF ClientInv
<1>2. CASE ~ Quorum(c)
  <2>1. acq' = acq
    BY <1>2 DEF EndHeartbeat
  <2>2. TypeOK'
    BY <1>0, <2>1, CallEnds DEF TypeOK
  <2>3. CallInv(c)' /\ TimeInv(c)'
    BY <1>0, <2>1, CallEnds, NothingNoted
  <2>4. HoldInv(c)'
    BY <1>0, <2>1, CallEnds DEF ClientInv, CallInv, HoldInv, AllUp
  <2>q. QED BY <2>2, <2>3, <2>4 DEF ClientInv
<1>q. QED BY <1>1, <1>2

(* A caller that drops an expired acquisition is remembered in left. *)
LEMMA AbandonInv ==
    ASSUME RedlockAssumption, TypeOK, NEW c \in Client, ClientInv(c), Abandon(c)
    PROVE  TypeOK' /\ ClientInv(c)'
<1>1. /\ UNCHANGED <<node, up, cli>> /\ acq' = [acq EXCEPT ![c] = NoAcq]
      /\ left' = left \cup {c} /\ cli[c].pc = "idle" /\ acq'[c] = NoAcq
      /\ cli[c].nodes = {} /\ cli[c].at = 0 /\ cli[c].lag = 0 /\ cli[c].min <= TTL
  BY DEF Abandon, TypeOK, ClientInv, CallInv
<1>2. NoAcq \in [nodes : SUBSET Node, expiry : Int]
  BY DEF NoAcq
<1>3. TypeOK'
  BY <1>1, <1>2 DEF TypeOK
<1>4. CallInv(c)' /\ TimeInv(c)'
  BY <1>1, NothingNoted
<1>5. HoldInv(c)'
  BY <1>1 DEF HoldInv
<1>q. QED BY <1>3, <1>4, <1>5 DEF ClientInv

(* Every step of a client keeps what is known about all of them. *)
LEMMA ClientStepInv ==
    ASSUME RedlockAssumption, IInv, NEW c \in Client, ClientStep(c)
    PROVE  IInv'
<1>1. TypeOK /\ \A d \in Client : ClientInv(d)
  BY DEF IInv, ClientInv
<1>2. SUFFICES TypeOK' /\ ClientInv(c)' /\ \A d \in Client \ {c} : LeavesAlone(d)
  BY <1>1, AloneInv DEF IInv, ClientInv
<1>3. ASSUME UNCHANGED <<node, up>>, left \subseteq left', NEW f, NEW g,
             cli' = [cli EXCEPT ![c] = f], acq' = [acq EXCEPT ![c] = g]
      PROVE  \A d \in Client \ {c} : LeavesAlone(d)
  BY <1>1, <1>3, QuietStep DEF TypeOK
<1>4. acq = [acq EXCEPT ![c] = acq[c]] /\ cli = [cli EXCEPT ![c] = cli[c]]
  BY <1>1 DEF TypeOK
<1>5. CASE BeginLock(c)
  BY Zenon, <1>1, <1>3, <1>4, <1>5, BeginLockInv DEF BeginLock
<1>6. CASE LockNode(c)
  BY <1>1, <1>6, LockNodeInv
<1>7. CASE Stamp(c)
  <2>1. cli' = [cli EXCEPT ![c] = cli'[c]] /\ UNCHANGED <<node, up, acq, left>>
    BY Zenon, <1>1, <1>7 DEF Stamp, TypeOK
  <2>q. QED BY <1>1, <1>3, <1>4, <1>7, <2>1, StampInv
<1>8. CASE EndLock(c)
  BY Zenon, <1>1, <1>3, <1>4, <1>8, EndLockInv DEF EndLock
<1>9. CASE RollbackNode(c)
  BY <1>1, <1>9, UnlockAtInv DEF RollbackNode
<1>10. CASE BeginUnlock(c)
  BY Zenon, <1>1, <1>3, <1>10, BeginUnlockInv DEF BeginUnlock
<1>11. CASE UnlockNode(c)
  <2>1. Next1(cli[c].todo) \in cli[c].todo
    BY <1>1, <1>11, Next1InSet DEF UnlockNode, TypeOK, ClientState
  <2>q. QED BY <1>1, <1>11, <2>1, UnlockAtInv DEF UnlockNode
<1>12. CASE EndUnlock(c)
  BY Zenon, <1>1, <1>3, <1>4, <1>12, EndUnlockInv DEF EndUnlock
<1>13. CASE BeginHeartbeat(c)
  BY Zenon, <1>1, <1>3, <1>4, <1>13, BeginHeartbeatInv DEF BeginHeartbeat
<1>14. CASE HeartbeatNode(c)
  BY <1>1, <1>14, HeartbeatNodeInv
<1>15. CASE EndHeartbeat(c)
  BY Zenon, <1>1, <1>3, <1>4, <1>15, EndHeartbeatInv DEF EndHeartbeat
<1>16. CASE Abandon(c)
  BY Zenon, <1>1, <1>3, <1>4, <1>16, AbandonInv DEF Abandon
<1>q. QED BY <1>5, <1>6, <1>7, <1>8, <1>9, <1>10, <1>11, <1>12, <1>13, <1>14, <1>15, <1>16
          DEF ClientStep

(* IsLocked deletes a lapsed record, which nobody holds. *)
LEMMA IsLockedInv ==
    ASSUME RedlockAssumption, IInv, NEW n \in Node, IsLockedNode(n)
    PROVE  IInv'
<1>1. TypeOK /\ \A d \in Client : ClientInv(d)
  BY DEF IInv, ClientInv
<1>2. DropLapsed(node[n]) \in Entry \cup {NoEntry}
  BY <1>1 DEF TypeOK, DropLapsed
<1>3. TypeOK'
  BY <1>1, <1>2 DEF IsLockedNode, TypeOK
<1>4. ASSUME NEW c \in Client
      PROVE  LeavesAlone(c)
  <2>1. HeldBy(node[n], c) \/ HeldBy(DropLapsed(node[n]), c) => DropLapsed(node[n]) = node[n]
    BY DEF DropLapsed, HeldBy, Held
  <2>2. \A m \in Node : HeldBy(node[m], c) \/ HeldBy(node'[m], c) => node'[m] = node[m]
    BY <1>1, <2>1 DEF IsLockedNode, TypeOK
  <2>q. QED BY <2>2 DEF LeavesAlone, IsLockedNode, AllUp
<1>q. QED BY <1>1, <1>3, <1>4, AloneInv DEF IInv, ClientInv

(* A node that stops keeps its record and answers no call. *)
LEMMA StopInv ==
    ASSUME RedlockAssumption, IInv, NEW n \in Node, StopNode(n)
    PROVE  IInv'
<1>1. TypeOK /\ \A d \in Client : ClientInv(d)
  BY DEF IInv, ClientInv
<1>2. TypeOK' /\ ~ AllUp'
  BY <1>1 DEF StopNode, TypeOK, AllUp
<1>3. \A c \in Client : LeavesAlone(c)
  BY <1>2 DEF LeavesAlone, StopNode
<1>q. QED BY <1>1, <1>2, <1>3, AloneInv DEF IInv, ClientInv

(* The clock: every claim, and the node's own expiry behind it, lose a tick. *)
LEMMA TickInv ==
    ASSUME RedlockAssumption, IInv, Tick
    PROVE  IInv'
<1>1. /\ node \in [Node -> Entry \cup {NoEntry}] /\ cli \in [Client -> ClientState]
      /\ acq \in [Client -> [nodes : SUBSET Node, expiry : Int]]
      /\ TypeOK /\ TTL \in Nat /\ MaxLag \in Nat /\ up' = up
  BY Zenon DEF IInv, TypeOK, Tick, RedlockAssumption
<1>0. left' = {c \in left : \E n \in Node : HeldBy(AfterTick(node[n]), c)}
  BY Zenon DEF Tick
<1>2. \A n \in Node : node'[n] = AfterTick(node[n]) /\ node'[n] \in Entry \cup {NoEntry}
  <2>1. ASSUME NEW n \in Node
        PROVE  AfterTick(node[n]) \in Entry \cup {NoEntry}
    BY <1>1 DEF AfterTick, Sooner, Entry
  <2>q. QED BY Zenon, <2>1 DEF Tick
<1>3. ASSUME NEW c \in Client
      PROVE  /\ cli'[c] \in ClientState
             /\ cli'[c].pc = cli[c].pc /\ cli'[c].todo = cli[c].todo
             /\ cli'[c].at = cli[c].at /\ cli'[c].nodes = cli[c].nodes
             /\ cli'[c].min = (IF cli[c].nodes = {} THEN cli[c].min ELSE Sooner0(cli[c].min))
             /\ cli'[c].lag = (IF cli[c].at # 0 THEN cli[c].lag + 1 ELSE cli[c].lag)
             /\ cli[c].at # 0 => cli[c].lag < MaxLag
  <2>1. cli[c] \in ClientState /\ (cli[c].at # 0 => cli[c].lag < MaxLag)
    BY Zenon, <1>1 DEF Tick
  <2>2. cli[c].min \in Int /\ cli[c].lag \in Nat
    BY <2>1 DEF ClientState
  <2>3. PICK x \in Int : x = IF cli[c].nodes = {} THEN cli[c].min ELSE Sooner0(cli[c].min)
    BY <2>2 DEF Sooner0
  <2>4. PICK y \in Nat : y = IF cli[c].at # 0 THEN cli[c].lag + 1 ELSE cli[c].lag
    BY <2>2
  <2>5. cli'[c] = [cli[c] EXCEPT !.min = x, !.lag = y]
    BY Zenon, <2>3, <2>4 DEF Tick
  <2>6. /\ cli'[c] \in ClientState
        /\ cli'[c].pc = cli[c].pc /\ cli'[c].todo = cli[c].todo
        /\ cli'[c].at = cli[c].at /\ cli'[c].nodes = cli[c].nodes
        /\ cli'[c].min = x /\ cli'[c].lag = y
    BY Zenon, <2>1, <2>5 DEF ClientState
  <2>q. QED BY <2>1, <2>3, <2>4, <2>6
<1>4. ASSUME NEW c \in Client
      PROVE  /\ acq'[c] \in [nodes : SUBSET Node, expiry : Int]
             /\ acq'[c].nodes = acq[c].nodes /\ acq'[c].expiry = Sooner0(acq[c].expiry)
             /\ acq'[c] = NoAcq <=> acq[c] = NoAcq
  <2>1. /\ acq'[c] = [acq[c] EXCEPT !.expiry = Sooner0(@)]
        /\ acq[c] \in [nodes : SUBSET Node, expiry : Int]
    BY Zenon, <1>1 DEF Tick
  <2>2. /\ acq'[c] \in [nodes : SUBSET Node, expiry : Int]
        /\ acq'[c].nodes = acq[c].nodes /\ acq'[c].expiry = Sooner0(acq[c].expiry)
    BY <2>1 DEF Sooner0
  <2>3. acq[c] = NoAcq => acq'[c] = NoAcq
    BY <2>1 DEF Sooner0, NoAcq
  <2>4. acq'[c] = NoAcq => acq[c] = NoAcq
    <3>1. SUFFICES ASSUME acq'[c].nodes = {}, acq[c] # NoAcq PROVE FALSE
      BY DEF NoAcq
    <3>2. Cardinality(acq[c].nodes) >= Majority /\ Majority \in Nat \ {0}
      BY <3>1 DEF IInv, CallInv, Majority, RedlockAssumption
    <3>q. QED BY <2>2, <3>1, <3>2, FS_EmptySet
  <2>q. QED BY <2>2, <2>3, <2>4
<1>5. TypeOK'
  <2>1. node' \in [Node -> Entry \cup {NoEntry}]
    BY Zenon, <1>2 DEF Tick
  <2>2. cli' \in [Client -> ClientState]
    BY Zenon, <1>3 DEF Tick
  <2>3. acq' \in [Client -> [nodes : SUBSET Node, expiry : Int]]
    BY Zenon, <1>4 DEF Tick
  <2>4. left' \subseteq Client
    BY Zenon, <1>0, <1>1 DEF TypeOK
  <2>q. QED BY <1>1, <2>1, <2>2, <2>3, <2>4 DEF TypeOK
<1>6. ASSUME NEW c \in Client
      PROVE  ClientInv(c)'
  <2>1. CallInv(c) /\ TimeInv(c) /\ HoldInv(c) /\ cli[c] \in ClientState
    BY <1>1 DEF IInv
  <2>2. CallInv(c)'
    <3>1. /\ cli'[c].min <= TTL /\ acq'[c].expiry <= TTL /\ cli'[c].lag <= MaxLag
          /\ cli'[c].at = 0 => cli'[c].lag = 0
      BY <1>1, <1>3, <1>4, <2>1 DEF CallInv, Sooner0, ClientState
    <3>q. QED BY SMTT(30), <1>3, <1>4, <2>1, <3>1 DEF CallInv
  <2>3. ASSUME NEW n \in Node, NEW x \in Int, x >= 0, Claim(node[n], c, x + 1)
        PROVE  Claim(node'[n], c, x)
    <3>1. /\ node[n] \in Entry /\ HeldBy(node[n], c) /\ node[n].expiresAt >= x + 1
      BY <1>1, <2>3 DEF Claim, HeldBy, Held
    <3>2. node[n].expiresAt \in Int /\ node[n].expiresAt >= 1
      BY <2>3, <3>1 DEF Entry
    <3>3. HeldBy(node'[n], c) /\ node'[n].expiresAt = node[n].expiresAt - 1
      BY <1>1, <1>2, <3>1, <3>2, TickRecord
    <3>q. QED BY <2>3, <3>1, <3>2, <3>3 DEF Claim
  <2>4. TimeInv(c)'
    <3>1. ASSUME cli[c].at # 0, TTL > cli[c].lag + 1
          PROVE  Claim(node'[cli[c].at], c, TTL - (cli[c].lag + 1))
      <4>1. cli[c].at \in Node /\ cli[c].lag \in Nat
        BY <2>1, <3>1 DEF ClientState
      <4>2. /\ TTL > cli[c].lag /\ TTL - (cli[c].lag + 1) \in Int
            /\ TTL - (cli[c].lag + 1) >= 0
            /\ TTL - (cli[c].lag + 1) + 1 = TTL - cli[c].lag
        <5>1. TTL \in Nat
          BY Zenon, <1>1
        <5>q. QED BY <3>1, <4>1, <5>1
      <4>3. Claim(node[cli[c].at], c, TTL - cli[c].lag)
        BY <2>1, <3>1, <4>2 DEF TimeInv
      <4>q. QED BY <2>3, <4>1, <4>2, <4>3
    <3>2. ASSUME NEW n \in cli[c].nodes, cli'[c].min > MaxLag
          PROVE  Claim(node'[n], c, cli'[c].min - MaxLag)
      <4>1. n \in Node /\ cli[c].min \in Int /\ cli[c].nodes # {}
        BY <2>1, <3>2 DEF ClientState
      <4>2. /\ cli[c].min > MaxLag /\ cli'[c].min - MaxLag \in Int
            /\ cli'[c].min - MaxLag >= 0
            /\ cli'[c].min - MaxLag + 1 = cli[c].min - MaxLag
        BY <1>1, <1>3, <3>2, <4>1 DEF Sooner0
      <4>3. Claim(node[n], c, cli[c].min - MaxLag)
        BY <2>1, <3>2, <4>2 DEF TimeInv
      <4>q. QED BY <2>3, <4>1, <4>2, <4>3
    <3>3. ASSUME MaxLag <= ClockDrift, IsValid(acq'[c]), NEW n \in acq[c].nodes
          PROVE  Claim(node'[n], c, acq'[c].expiry)
      <4>1. n \in Node /\ acq[c].expiry \in Int
        BY <1>1, <3>3
      <4>2. /\ IsValid(acq[c]) /\ acq'[c].expiry \in Int /\ acq'[c].expiry >= 0
            /\ acq'[c].expiry + 1 = acq[c].expiry
        BY <1>4, <3>3, <4>1 DEF IsValid, Sooner0
      <4>3. Claim(node[n], c, acq[c].expiry)
        BY SMTT(30), <2>1, <3>3, <4>2 DEF TimeInv
      <4>q. QED BY <2>3, <4>1, <4>2, <4>3
    <3>q. QED BY <1>3, <1>4, <3>1, <3>2, <3>3 DEF TimeInv
  <2>5. HoldInv(c)'
    <3>1. \A n \in Node : HeldBy(node'[n], c) =>
             HeldBy(node[n], c) /\ node'[n].reentrancy = node[n].reentrancy
      BY <1>1, <1>2, TickRecord
    <3>2. CASE c \in left /\ c \notin left'
      <4>1. \A n \in Node : ~ HeldBy(node'[n], c)
        BY Zenon, <1>0, <1>2, <3>2
      <4>q. QED BY <4>1 DEF HoldInv
    <3>3. CASE c \in left <=> c \in left'
      BY <1>1, <1>3, <1>4, <2>1, <3>1, <3>3 DEF HoldInv, AllUp
    <3>4. c \in left' => c \in left
      BY Zenon, <1>0
    <3>q. QED BY <3>2, <3>3, <3>4
  <2>q. QED BY <2>2, <2>4, <2>5 DEF ClientInv
<1>q. QED BY <1>5, <1>6 DEF IInv, ClientInv

-----------------------------------------------------------------------------
(* At the start nothing is locked and nobody is in a call. *)
LEMMA InitInv ==
    ASSUME RedlockAssumption, Init
    PROVE  IInv
<1>1. \A c \in Client : cli[c] = Idle /\ acq[c] = NoAcq
  BY DEF Init
<1>2. TypeOK
  BY CallEnds DEF Init, TypeOK, NoAcq
<1>3. ASSUME NEW c \in Client
      PROVE  CallInv(c) /\ TimeInv(c) /\ HoldInv(c)
  <2>1. CallInv(c)
    BY <1>1, CallEnds DEF CallInv, NoAcq, RedlockAssumption
  <2>2. TimeInv(c)
    BY <1>1, CallEnds DEF TimeInv, IsValid, NoAcq
  <2>3. HoldInv(c)
    BY DEF Init, HoldInv, HeldBy, Held
  <2>q. QED BY <2>1, <2>2, <2>3
<1>q. QED BY <1>2, <1>3 DEF IInv

(* Every step keeps the invariant. *)
LEMMA NextInv ==
    ASSUME RedlockAssumption, IInv, [Next]_vars
    PROVE  IInv'
<1>1. CASE \E c \in Client : ClientStep(c)
  BY <1>1, ClientStepInv
<1>2. CASE \E n \in Node : IsLockedNode(n) \/ StopNode(n)
  BY <1>2, IsLockedInv, StopInv
<1>3. CASE Tick
  BY SMTT(30), <1>3, TickInv
<1>4. CASE UNCHANGED vars
  BY <1>4 DEF vars, IInv, TypeOK, CallInv, TimeInv, HoldInv, AllUp
<1>q. QED BY <1>1, <1>2, <1>3, <1>4 DEF Next

(* Every record, call and acquisition keeps its type. *)
THEOREM TypeCorrect == ASSUME RedlockAssumption PROVE Spec => []TypeOK
<1>1. IInv => TypeOK
  BY SMTT(30) DEF IInv
<1>q. QED BY InitInv, NextInv, <1>1, PTL DEF Spec

(* Rollback and the broadcast Unlock leave nothing behind, whatever the      *)
(* clock drift allowance is.                                                 *)
THEOREM Released == ASSUME RedlockAssumption PROVE Spec => []NothingLeftBehind
<1>1. IInv => NothingLeftBehind
  BY DEF IInv, HoldInv, AllUp, NothingLeftBehind
<1>q. QED BY InitInv, NextInv, <1>1, PTL DEF Spec

(* What the inductive invariant says once the drift allowance covers the lag *)
(* of the clock reads: two majorities share a node, which has one holder.    *)
LEMMA HeldMajority ==
    ASSUME RedlockAssumption, MaxLag <= ClockDrift, IInv
    PROVE  MajorityIsHeld
<1>1. ValidMeansHeld
  BY DEF IInv, TimeInv, ValidMeansHeld, Claim
<1>2. ASSUME NEW c \in Client, NEW d \in Client, IsValid(acq[c]), IsValid(acq[d])
      PROVE  c = d
  <2>0. NoAcq.nodes = {}
    BY DEF NoAcq
  <2>1. acq[c] # NoAcq /\ acq[d] # NoAcq
    BY <1>2, <2>0 DEF IsValid
  <2>2. Cardinality(acq[c].nodes) >= Majority /\ Cardinality(acq[d].nodes) >= Majority
    BY <2>1 DEF IInv, CallInv
  <2>3. PICK n \in Node : n \in acq[c].nodes /\ n \in acq[d].nodes
    BY <2>2, MajoritiesMeet DEF IInv, TypeOK
  <2>4. HeldBy(node[n], c) /\ HeldBy(node[n], d)
    BY <1>1, <1>2, <2>3 DEF ValidMeansHeld
  <2>q. QED BY <2>4 DEF HeldBy
<1>3. NothingLeftBehind
  BY DEF IInv, HoldInv, AllUp, NothingLeftBehind
<1>q. QED BY SMTT(30), <1>1, <1>2, <1>3 DEF MajorityIsHeld, MutualExclusion

(* Redlock's promise: a valid acquisition is held by every node it names for *)
(* as long as it says, so no two clients have one at the same time, and a    *)
(* client without one holds nothing.  For every odd number of nodes, of      *)
(* which any may be stopped at any time, as long as the clock drift          *)
(* allowance covers the lag of the client's clock reads.                     *)
THEOREM Excludes ==
    ASSUME RedlockAssumption, MaxLag <= ClockDrift
    PROVE  Spec => []MajorityIsHeld
<1>1. IInv => MajorityIsHeld
  BY HeldMajority
<1>q. QED BY InitInv, NextInv, <1>1, PTL DEF Spec

(* The state function that the refinement maps to owner. *)
OwnerNow == [k \in {"key"} |-> LeaseOwner]

(* The client with a valid acquisition is the owner: there is no other. *)
LEMMA OwnerIsValid ==
    ASSUME MutualExclusion, NEW c \in Client, IsValid(acq[c])
    PROVE  LeaseOwner = c
BY DEF MutualExclusion, LeaseOwner

(* A step changes at most one client's acquisition, or lets time pass.       *)
LEMMA AcquisitionStep ==
    ASSUME TypeOK, [Next]_vars
    PROVE  \/ acq' = acq
           \/ \E c \in Client : \A d \in Client \ {c} : acq'[d] = acq[d]
           \/ \A c \in Client : IsValid(acq'[c]) => IsValid(acq[c])
<1>1. CASE \E c \in Client : ClientStep(c)
  <2>1. PICK c \in Client : ClientStep(c)
    BY Zenon, <1>1
  <2>2. acq' = acq \/ \E a : acq' = [acq EXCEPT ![c] = a]
    BY Zenon, <2>1 DEF ClientStep, BeginLock, LockNode, Stamp, EndLock, RollbackNode, UnlockAt,
       BeginUnlock, UnlockNode, EndUnlock, BeginHeartbeat, HeartbeatNode, EndHeartbeat, Abandon
  <2>q. QED BY <2>2 DEF TypeOK
<1>2. CASE \E n \in Node : IsLockedNode(n) \/ StopNode(n)
  BY <1>2 DEF IsLockedNode, StopNode
<1>3. CASE Tick
  <2> SUFFICES ASSUME NEW c \in Client, IsValid(acq'[c]) PROVE IsValid(acq[c])
    OBVIOUS
  <2>1. acq[c] \in [nodes : SUBSET Node, expiry : Int]
    BY DEF TypeOK
  <2>2. acq'[c] = [acq[c] EXCEPT !.expiry = Sooner0(@)]
    BY Zenon, <1>3 DEF Tick
  <2>q. QED BY <2>1, <2>2 DEF IsValid, Sooner0
<1>4. CASE UNCHANGED vars
  BY <1>4 DEF vars
<1>q. QED BY <1>1, <1>2, <1>3, <1>4 DEF Next

(* So the key is never handed over: before or after the step it is free,     *)
(* or it stays with its owner.                                               *)
LEMMA NeverHandedOver ==
    ASSUME TypeOK, [Next]_vars, MutualExclusion, MutualExclusion'
    PROVE  LeaseOwner' = LeaseOwner \/ LeaseOwner' = NoEntry \/ LeaseOwner = NoEntry
<1> SUFFICES ASSUME LeaseOwner' # NoEntry, LeaseOwner # NoEntry
             PROVE  LeaseOwner' = LeaseOwner
  OBVIOUS
<1>1. PICK c \in Client : IsValid(acq[c]) /\ LeaseOwner = c
  BY OwnerIsValid DEF LeaseOwner
<1>2. PICK d \in Client : IsValid(acq'[d]) /\ LeaseOwner' = d
  <2>1. PICK d \in Client : IsValid(acq'[d])
    BY DEF LeaseOwner, IsValid
  <2>2. \A e \in Client : IsValid(acq'[e]) => e = d
    BY <2>1 DEF MutualExclusion, IsValid
  <2>q. QED BY <2>1, <2>2 DEF LeaseOwner, IsValid
<1>3. CASE c = d
  BY <1>1, <1>2, <1>3
<1>4. CASE \E e \in Client : \A f \in Client \ {e} : acq'[f] = acq[f]
  <2>1. IsValid(acq[d]) \/ IsValid(acq'[c]) \/ c = d
    BY <1>1, <1>2, <1>4
  <2>2. IsValid(acq[d]) => d = c
    BY <1>1 DEF MutualExclusion
  <2>3. IsValid(acq'[c]) => d = c
    BY <1>2 DEF MutualExclusion, IsValid
  <2>q. QED BY <1>1, <1>2, <2>1, <2>2, <2>3
<1>5. CASE acq' = acq \/ \A e \in Client : IsValid(acq'[e]) => IsValid(acq[e])
  BY <1>1, <1>2, <1>5 DEF MutualExclusion
<1>q. QED BY <1>4, <1>5, AcquisitionStep

(* Redlock implements the exclusive lease that one lock manager implements,  *)
(* so a caller may use either behind the same contract.                      *)
THEOREM Refinement ==
    ASSUME RedlockAssumption, MaxLag <= ClockDrift
    PROVE  Spec => ImplementsLease
<1>1. Init => Lease!Init
  BY DEF Init, Lease!Init, LeaseOwner, NoAcq, IsValid
<1>2. TypeOK /\ MajorityIsHeld /\ MajorityIsHeld' /\ [Next]_vars => [Lease!Next]_(OwnerNow)
  <2> SUFFICES ASSUME TypeOK, MajorityIsHeld, MajorityIsHeld', [Next]_vars,
                      OwnerNow' # OwnerNow
               PROVE  Lease!Next
    OBVIOUS
  <2>1. MutualExclusion /\ MutualExclusion'
    BY DEF MajorityIsHeld
  <2>2. LeaseOwner' # LeaseOwner
    BY DEF OwnerNow
  <2>3. CASE LeaseOwner = NoEntry
    <3>1. LeaseOwner' \in Client
      BY <2>2, <2>3 DEF LeaseOwner
    <3>2. Lease!Acquire("key", LeaseOwner')
      BY <2>3 DEF Lease!Acquire
    <3>q. QED BY <3>1, <3>2 DEF Lease!Next, Client
  <2>4. CASE LeaseOwner' = NoEntry
    <3>1. Lease!Release({"key"})
      BY <2>4 DEF Lease!Release
    <3>q. QED BY <3>1 DEF Lease!Next
  <2>q. QED BY <2>1, <2>2, <2>3, <2>4, NeverHandedOver
<1>q. QED BY <1>1, <1>2, TypeCorrect, Excludes, PTL DEF Spec, ImplementsLease, Lease!Spec, OwnerNow
=============================================================================
