------------------------------ MODULE Redlock ------------------------------
(***************************************************************************)
(* distlock.Redlock: clients acquire one key on a majority of independent  *)
(* lock nodes.  A client visits the nodes one call at a time; other        *)
(* clients and the clock move in between.  The token of a client is the    *)
(* client itself.                                                          *)
(*                                                                         *)
(* The code notes time.Now().Add(ttl) after a node call has returned, while*)
(* the node computed its own expiry inside the call.  The model separates  *)
(* the two reads by a step (pc "stamp") and lets at most MaxLag ticks fall *)
(* between them.  NodeExpiries is kept as its key set and its minimum, the *)
(* only things the code computes from it.                                  *)
(*                                                                         *)
(* Usage assumed of a client: all its calls use one ttl, and it calls Lock *)
(* only when it has released, or found expired, what it acquired before.   *)
(***************************************************************************)
EXTENDS LockTable, FiniteSets

CONSTANTS N,            \* number of nodes, refused unless odd
          TTL,
          ClockDrift,   \* RedlockConfig.ClockDrift, 0 allowed
          MaxLag,       \* bound on the ticks between the two clock reads
          MaxStopped    \* bound on the nodes that are stopped

Client == Token
Node == 1 .. N

RedlockAssumption ==
    /\ N \in Nat \ {0} /\ N % 2 = 1
    /\ TTL \in Nat \ {0} /\ ClockDrift \in Nat /\ MaxLag \in Nat
    /\ MaxStopped \in Nat

VARIABLES
    node,   \* node[n]: the record of the key at node n
    up,     \* up[n]: the manager of node n is not stopped
    cli,    \* cli[c]: where client c is in its current call
    acq,    \* acq[c]: the LockAcquisition c holds; no nodes means none
    left    \* clients that dropped an expired acquisition without Unlock, until
            \* no node holds the lock for them

vars == <<node, up, cli, acq, left>>

NoAcq == [nodes |-> {}, expiry |-> 0]
Idle == [pc |-> "idle", todo |-> {}, at |-> 0, nodes |-> {}, min |-> TTL, lag |-> 0]

Init ==
    /\ node = [n \in Node |-> NoEntry]
    /\ up = [n \in Node |-> TRUE]
    /\ cli = [c \in Client |-> Idle]
    /\ acq = [c \in Client |-> NoAcq]
    /\ left = {}

Majority == N \div 2 + 1

(* LockAcquisition.IsValid *)
IsValid(a) == a.nodes # {} /\ a.expiry > 0

Smaller(x, y) == IF x < y THEN x ELSE y

(* A client's own expiries are only compared with 0: they stop there. *)
Sooner0(x) == IF x <= 0 THEN x ELSE x - 1

Next1(S) == CHOOSE n \in S : \A m \in S : n <= m

-----------------------------------------------------------------------------
(* Lock and TryLock enter attemptLock, with an empty NodeExpiries.  Lock's   *)
(* retry is another entry, and its deadline is a client that stops retrying. *)
BeginLock(c) ==
    /\ cli[c].pc = "idle" /\ acq[c] = NoAcq
    /\ cli' = [cli EXCEPT ![c] = [Idle EXCEPT !.pc = "lock", !.todo = Node]]
    /\ UNCHANGED <<node, up, acq, left>>

(* node.Lock on the next node of r.nodes. *)
LockNode(c) ==
    /\ cli[c].pc = "lock" /\ cli[c].todo # {} /\ cli[c].at = 0
    /\ LET n == Next1(cli[c].todo)
           ok == up[n] /\ LockOk(node[n], c)
       IN /\ node' = IF up[n] THEN [node EXCEPT ![n] = AfterLock(@, c, TTL)] ELSE node
          /\ cli' = [cli EXCEPT ![c].todo = @ \ {n},
                                ![c].at = IF ok THEN n ELSE 0]
    /\ UNCHANGED <<up, acq, left>>

(* nodeExpiries[node.ID()] = time.Now().Add(ttl) *)
Stamp(c) ==
    /\ cli[c].at # 0
    /\ cli' = [cli EXCEPT ![c].nodes = @ \cup {cli[c].at},
                          ![c].min = Smaller(@, TTL),
                          ![c].at = 0,
                          ![c].lag = 0]
    /\ UNCHANGED <<node, up, acq, left>>

(* Slip: a bare half of the nodes is taken for a quorum. *)
QuorumSlip(c) ==
    /\ Cardinality(cli[c].nodes) >= N \div 2
    /\ cli[c].min - ClockDrift > 0

(* The two tests at the end of attemptLock and of Heartbeat. *)
Quorum(c) ==
    /\ Cardinality(cli[c].nodes) >= Majority
    /\ cli[c].min - ClockDrift > 0

Acquisition(c) == [nodes |-> cli[c].nodes, expiry |-> cli[c].min - ClockDrift]

Visited(c, pc) == cli[c].pc = pc /\ cli[c].todo = {} /\ cli[c].at = 0

(* attemptLock returns; on failure rollbackPartialLock runs over NodeExpiries. *)
EndLock(c) ==
    /\ Visited(c, "lock")
    /\ IF Quorum(c)
       THEN /\ acq' = [acq EXCEPT ![c] = Acquisition(c)]
            /\ cli' = [cli EXCEPT ![c] = Idle]
       ELSE /\ acq' = acq
            /\ cli' = [cli EXCEPT ![c] = [Idle EXCEPT !.pc = "roll", !.todo = cli[c].nodes]]
    /\ UNCHANGED <<node, up, left>>

(* node.Unlock on node n, by a rollback (map order) or Unlock (slice order). *)
UnlockAt(c, n) ==
    /\ node' = IF up[n] THEN [node EXCEPT ![n] = AfterUnlock(@, c)] ELSE node
    /\ cli' = [cli EXCEPT ![c].todo = @ \ {n}]
    /\ UNCHANGED <<up, acq, left>>

RollbackNode(c) ==
    /\ cli[c].pc = "roll"
    /\ \E n \in cli[c].todo : UnlockAt(c, n)

(* Unlock broadcasts to every node, not only to those of the acquisition. *)
UnlockTargets(c) == Node

BeginUnlock(c) ==
    /\ cli[c].pc = "idle" /\ acq[c] # NoAcq
    /\ acq' = [acq EXCEPT ![c] = NoAcq]
    /\ cli' = [cli EXCEPT ![c] = [Idle EXCEPT !.pc = "unlock", !.todo = UnlockTargets(c)]]
    /\ UNCHANGED <<node, up, left>>

UnlockNode(c) ==
    /\ cli[c].pc = "unlock" /\ cli[c].todo # {}
    /\ UnlockAt(c, Next1(cli[c].todo))

EndUnlock(c) ==
    /\ Visited(c, "unlock") \/ Visited(c, "roll")
    /\ cli' = [cli EXCEPT ![c] = Idle]
    /\ UNCHANGED <<node, up, acq, left>>

(* Heartbeat renews the nodes of the acquisition, in map order. *)
BeginHeartbeat(c) ==
    /\ cli[c].pc = "idle" /\ acq[c] # NoAcq
    /\ cli' = [cli EXCEPT ![c] = [Idle EXCEPT !.pc = "beat", !.todo = acq[c].nodes]]
    /\ UNCHANGED <<node, up, acq, left>>

HeartbeatNode(c) ==
    /\ cli[c].pc = "beat" /\ cli[c].at = 0
    /\ \E n \in cli[c].todo :
          LET ok == up[n] /\ HeartbeatOk(node[n], c)
          IN /\ node' = IF up[n] THEN [node EXCEPT ![n] = AfterHeartbeat(@, c, TTL)]
                                 ELSE node
             /\ cli' = [cli EXCEPT ![c].todo = @ \ {n},
                                   ![c].at = IF ok THEN n ELSE 0]
    /\ UNCHANGED <<up, acq, left>>

(* Without a quorum Heartbeat returns nil: the caller still has the old one. *)
EndHeartbeat(c) ==
    /\ Visited(c, "beat")
    /\ acq' = IF Quorum(c) THEN [acq EXCEPT ![c] = Acquisition(c)] ELSE acq
    /\ cli' = [cli EXCEPT ![c] = Idle]
    /\ UNCHANGED <<node, up, left>>

(* A caller that finds its acquisition expired may forget it. *)
Abandon(c) ==
    /\ cli[c].pc = "idle" /\ acq[c] # NoAcq /\ ~ IsValid(acq[c])
    /\ acq' = [acq EXCEPT ![c] = NoAcq]
    /\ left' = left \cup {c}
    /\ UNCHANGED <<node, up, cli>>

(* Redlock.IsLocked asks each node, which deletes a lapsed record. *)
IsLockedNode(n) ==
    /\ up[n]
    /\ node' = [node EXCEPT ![n] = DropLapsed(@)]
    /\ UNCHANGED <<up, cli, acq, left>>

(* The manager of a node is stopped: all its calls fail from now on. *)
StopNode(n) ==
    /\ up[n]
    /\ Cardinality({m \in Node : ~ up[m]}) < MaxStopped
    /\ up' = [up EXCEPT ![n] = FALSE]
    /\ UNCHANGED <<node, cli, acq, left>>

Tick ==
    /\ \A c \in Client : cli[c].at # 0 => cli[c].lag < MaxLag
    /\ node' = [n \in Node |-> AfterTick(node[n])]
    /\ cli' = [c \in Client |->
                 [cli[c] EXCEPT !.min = IF cli[c].nodes = {} THEN @ ELSE Sooner0(@),
                                !.lag = IF cli[c].at # 0 THEN @ + 1 ELSE @]]
    /\ acq' = [c \in Client |-> [acq[c] EXCEPT !.expiry = Sooner0(@)]]
    /\ left' = {c \in left : \E n \in Node : HeldBy(AfterTick(node[n]), c)}
    /\ UNCHANGED up

-----------------------------------------------------------------------------
ClientStep(c) ==
    \/ BeginLock(c) \/ LockNode(c) \/ Stamp(c) \/ EndLock(c) \/ RollbackNode(c)
    \/ BeginUnlock(c) \/ UnlockNode(c) \/ EndUnlock(c)
    \/ BeginHeartbeat(c) \/ HeartbeatNode(c) \/ EndHeartbeat(c)
    \/ Abandon(c)

Next ==
    \/ \E c \in Client : ClientStep(c)
    \/ \E n \in Node : IsLockedNode(n) \/ StopNode(n)
    \/ Tick

Spec == Init /\ [][Next]_vars

-----------------------------------------------------------------------------
ClientState ==
    [pc : {"idle", "lock", "roll", "unlock", "beat"}, todo : SUBSET Node,
     at : {0} \cup Node, nodes : SUBSET Node, min : Int, lag : Nat]

TypeOK ==
    /\ node \in [Node -> Entry \cup {NoEntry}]
    /\ up \in [Node -> BOOLEAN]
    /\ cli \in [Client -> ClientState]
    /\ acq \in [Client -> [nodes : SUBSET Node, expiry : Int]]
    /\ left \subseteq Client

(* Two clients never hold acquisitions that are valid at the same time.      *)
(* Needs MaxLag <= ClockDrift: the drift allowance is what pays for expiries *)
(* noted after the node's own.                                               *)
MutualExclusion ==
    \A c, d \in Client : IsValid(acq[c]) /\ IsValid(acq[d]) => c = d

(* While an acquisition is valid, every node it names really holds the lock  *)
(* for this client, and will do so for as long as the acquisition claims.    *)
ValidMeansHeld ==
    \A c \in Client : IsValid(acq[c]) =>
        \A n \in acq[c].nodes :
            HeldBy(node[n], c) /\ node[n].expiresAt >= acq[c].expiry

(* A client that is not in a call and has no acquisition holds no node: a    *)
(* rolled back attempt and a broadcast Unlock leave nothing behind, unless a *)
(* node was stopped or the client walked away from an acquisition that some  *)
(* node still holds.                                                         *)
NothingLeftBehind ==
    \A c \in Client :
        cli[c].pc = "idle" /\ acq[c] = NoAcq /\ c \notin left /\ (\A n \in Node : up[n])
            => \A n \in Node : ~ HeldBy(node[n], c)

(* Two clients never hold acquisitions valid at the same time; while one is  *)
(* valid every node it names holds the lock for that client and for that     *)
(* long; and a failed attempt or an Unlock leaves no node held.              *)
MajorityIsHeld == MutualExclusion /\ ValidMeansHeld /\ NothingLeftBehind

(* What the clients see of the key: its owner is the client whose             *)
(* acquisition is valid.                                                     *)
LeaseOwner ==
    IF \E c \in Client : IsValid(acq[c]) THEN CHOOSE c \in Client : IsValid(acq[c]) ELSE NoEntry

Lease == INSTANCE ExclusiveLease
    WITH Key <- {"key"}, NoOwner <- NoEntry, owner <- [k \in {"key"} |-> LeaseOwner]

(* Redlock implements the lease of one node: the key passes from one client  *)
(* to the next only through a state in which nobody has a valid acquisition. *)
(* Needs MaxLag <= ClockDrift as well.                                       *)
ImplementsLease == Lease!Spec

(* docs/distlock.md calls NodeExpiries the actual expiry times of the nodes  *)
(* and takes their minimum, less ClockDrift, as the total holding time.      *)
ExpiryIsTheNodes ==
    \A c \in Client : IsValid(acq[c]) =>
        \A n \in acq[c].nodes :
            Held(node[n]) => acq[c].expiry + ClockDrift <= node[n].expiresAt
=============================================================================
