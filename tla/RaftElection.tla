---------------------------- MODULE RaftElection ----------------------------
(***************************************************************************)
(* Leader election in raftlog.RaftNode: terms, votes, timers, and the      *)
(* calls between nodes, in a cluster whose logs are still equal (nothing   *)
(* proposed yet).  Then every log is up to date with every other, an       *)
(* AppendEntries carries no entries and is accepted by its term alone, and *)
(* commitReady stays empty.  RaftLog adds the log.                         *)
(*                                                                         *)
(* A call is a goroutine of the caller: it takes the request to the target *)
(* (stage "req"), where the handler runs under the target's n.mu, and      *)
(* brings the reply back (stage "rep") to a handler under the caller's     *)
(* n.mu.  A call to a node that is not registered ends with an error,      *)
(* which the caller drops.                                                 *)
(*                                                                         *)
(* Timers.  The run goroutine evaluates n.electionTimer.C when it enters   *)
(* its select.  resetElectionTimer stops that timer and stores a new one,  *)
(* so a select that is already waiting keeps waiting on the stopped timer: *)
(* deaf[n].  It hears the new timer when another branch wakes it.          *)
(***************************************************************************)
EXTENDS Integers, FiniteSets

CONSTANTS Node, NoNode,
          MaxTerm,    \* bound: no timeout raises a term above it
          MaxCalls,   \* bound on the calls under way at a time
          MaxStops    \* bound on the number of Stops

RaftElectionAssumption ==
    /\ IsFiniteSet(Node) /\ NoNode \notin Node
    /\ MaxTerm \in Nat /\ MaxCalls \in Nat /\ MaxStops \in Nat

VARIABLES
    state, currentTerm, votedFor, votesReceived,   \* fields of a node
    nodeRunning,     \* n.running, which is also "registered with the transport"
    deaf,        \* the run goroutine waits on a replaced election timer
    heartbeat,   \* heartbeatTimer is armed
    calls,       \* the calls under way
    stops,       \* how many Stops so far
    granted      \* history: granted[n][t], whom n ever voted for in term t

nodeVars == <<state, currentTerm, votedFor, votesReceived>>
raftVars == <<nodeVars, nodeRunning, deaf, heartbeat, calls, stops, granted>>

RaftInit ==
    /\ state = [n \in Node |-> "Follower"]
    /\ currentTerm = [n \in Node |-> 0]
    /\ votedFor = [n \in Node |-> NoNode]
    /\ votesReceived = [n \in Node |-> {}]
    /\ nodeRunning = [n \in Node |-> TRUE]
    /\ deaf = [n \in Node |-> FALSE]
    /\ heartbeat = [n \in Node |-> FALSE]
    /\ calls = {}
    /\ stops = 0
    /\ granted = [n \in Node |-> [t \in 0 .. MaxTerm |-> {}]]

Quorum == Cardinality(Node) \div 2 + 1

Call(kind, from, to, t) ==
    [kind |-> kind, from |-> from, to |-> to, term |-> t, stage |-> "req",
     replyTerm |-> 0, granted |-> FALSE]

Calls(kind, n, t) == {Call(kind, n, m, t) : m \in Node \ {n}}

Room(new) == Cardinality(calls \cup new) <= MaxCalls

(* resetElectionTimer called from a goroutine other than run: run is waiting *)
(* in its select, or happens to be on its way there.                         *)
ResetElsewhere(n) == \E d \in BOOLEAN : deaf' = [deaf EXCEPT ![n] = d]

-----------------------------------------------------------------------------
(* handleElectionTimeout: becomeCandidate, then startElection. *)
ElectionTimeout(n) ==
    /\ nodeRunning[n] /\ ~ deaf[n] /\ state[n] # "Leader"
    /\ currentTerm[n] < MaxTerm
    /\ LET t == currentTerm[n] + 1 IN
       /\ Room(Calls("vote", n, t))
       /\ state' = [state EXCEPT ![n] = IF 1 >= Quorum THEN "Leader" ELSE "Candidate"]
       /\ currentTerm' = [currentTerm EXCEPT ![n] = t]
       /\ votedFor' = [votedFor EXCEPT ![n] = IF 1 >= Quorum THEN NoNode ELSE n]
       /\ votesReceived' = [votesReceived EXCEPT ![n] = {n}]
       /\ heartbeat' = [heartbeat EXCEPT ![n] = @ \/ 1 >= Quorum]
       /\ calls' = calls \cup Calls("vote", n, t)
       /\ granted' = [granted EXCEPT ![n][t] = @ \cup {n}]
    /\ UNCHANGED <<nodeRunning, deaf, stops>>

(* Slip: a vote given in an earlier term is kept. *)
FollowSlip(n, t) ==
    /\ state' = [state EXCEPT ![n] = "Follower"]
    /\ currentTerm' = [currentTerm EXCEPT ![n] = t]
    /\ ResetElsewhere(n)
    /\ UNCHANGED <<votedFor, votesReceived, granted>>

(* becomeFollower, as part of a handler. *)
Follow(n, t) ==
    /\ state' = [state EXCEPT ![n] = "Follower"]
    /\ currentTerm' = [currentTerm EXCEPT ![n] = t]
    /\ votedFor' = [votedFor EXCEPT ![n] = NoNode]
    /\ ResetElsewhere(n)
    /\ UNCHANGED <<votesReceived, granted>>

Replied(c, t, ok) == [c EXCEPT !.stage = "rep", !.replyTerm = t, !.granted = ok]

(* HandleRequestVote.  Every log is up to date here, so votedFor decides; a  *)
(* higher term empties it first.                                             *)
HandleRequestVote(c) ==
    /\ c.kind = "vote" /\ c.stage = "req" /\ nodeRunning[c.to]
    /\ LET n == c.to
           higher == c.term > currentTerm[n]
           term == IF higher THEN c.term ELSE currentTerm[n]
           vote == IF higher THEN NoNode ELSE votedFor[n]
           ok == c.term = term /\ vote \in {NoNode, c.from}
       IN /\ state' = [state EXCEPT ![n] = IF higher THEN "Follower" ELSE @]
          /\ currentTerm' = [currentTerm EXCEPT ![n] = term]
          /\ votedFor' = [votedFor EXCEPT ![n] = IF ok THEN c.from ELSE vote]
          /\ granted' = IF ok THEN [granted EXCEPT ![n][term] = @ \cup {c.from}] ELSE granted
          /\ IF higher \/ ok THEN ResetElsewhere(n) ELSE deaf' = deaf
          /\ calls' = (calls \ {c}) \cup {Replied(c, term, ok)}
    /\ UNCHANGED <<votesReceived, nodeRunning, heartbeat, stops>>

(* handleRequestVoteReply, with checkElectionWin, becomeLeader and the       *)
(* sendHeartbeats it spawns.  The term of the request is compared with the   *)
(* reply's, not with the node's.  A node handles replies even when stopped.  *)
HandleRequestVoteReply(c) ==
    /\ c.kind = "vote" /\ c.stage = "rep"
    /\ LET n == c.from IN
       IF state[n] # "Candidate"
       THEN calls' = calls \ {c} /\ UNCHANGED <<nodeVars, deaf, heartbeat, granted>>
       ELSE IF c.replyTerm > currentTerm[n]
       THEN calls' = calls \ {c} /\ Follow(n, c.replyTerm) /\ UNCHANGED heartbeat
       ELSE LET votes == IF c.replyTerm >= c.term /\ c.granted
                         THEN votesReceived[n] \cup {c.to} ELSE votesReceived[n]
                won == c.replyTerm >= c.term /\ Cardinality(votes) >= Quorum
            IN /\ votesReceived' = [votesReceived EXCEPT ![n] = votes]
               /\ state' = [state EXCEPT ![n] = IF won THEN "Leader" ELSE @]
               /\ votedFor' = [votedFor EXCEPT ![n] = IF won THEN NoNode ELSE @]
               /\ heartbeat' = [heartbeat EXCEPT ![n] = @ \/ won]
               /\ calls' = (calls \ {c}) \cup
                     (IF won THEN Calls("append", n, currentTerm[n]) ELSE {})
               /\ UNCHANGED <<currentTerm, deaf, granted>>
    /\ UNCHANGED <<nodeRunning, stops>>

(* The heartbeat timer fires in run, which afterwards selects on the current *)
(* election timer.  A leader sends AppendEntries and rearms the timer.       *)
HeartbeatTimeout(n) ==
    /\ nodeRunning[n] /\ heartbeat[n]
    /\ deaf' = [deaf EXCEPT ![n] = FALSE]
    /\ IF state[n] = "Leader"
       THEN /\ Room(Calls("append", n, currentTerm[n]))
            /\ calls' = calls \cup Calls("append", n, currentTerm[n])
            /\ heartbeat' = heartbeat
       ELSE /\ calls' = calls
            /\ heartbeat' = [heartbeat EXCEPT ![n] = FALSE]
    /\ UNCHANGED <<nodeVars, nodeRunning, stops, granted>>

(* Slip: a stale request is taken like a newer one. *)
HandleAppendEntriesStaleSlip(c) ==
    /\ c.kind = "append" /\ c.stage = "req" /\ nodeRunning[c.to]
    /\ Follow(c.to, c.term)
    /\ calls' = (calls \ {c}) \cup {Replied(c, c.term, TRUE)}
    /\ UNCHANGED <<nodeRunning, heartbeat, stops>>

(* HandleAppendEntries: a candidate of the same term gives in. *)
HandleAppendEntries(c) ==
    /\ c.kind = "append" /\ c.stage = "req" /\ nodeRunning[c.to]
    /\ LET n == c.to
           higher == c.term > currentTerm[n]
           stale == c.term < currentTerm[n]
       IN /\ IF higher \/ (~ stale /\ state[n] = "Candidate")
             THEN Follow(n, c.term)
             ELSE /\ UNCHANGED <<nodeVars, granted>>
                  /\ IF stale THEN deaf' = deaf ELSE ResetElsewhere(n)
          /\ calls' = (calls \ {c})
                \cup {Replied(c, IF higher THEN c.term ELSE currentTerm[n], ~ stale)}
    /\ UNCHANGED <<nodeRunning, heartbeat, stops>>

(* handleAppendEntriesReply: here only the term of the reply matters. *)
HandleAppendEntriesReply(c) ==
    /\ c.kind = "append" /\ c.stage = "rep"
    /\ calls' = calls \ {c}
    /\ IF state[c.from] = "Leader" /\ c.replyTerm > currentTerm[c.from]
       THEN Follow(c.from, c.replyTerm)
       ELSE UNCHANGED <<nodeVars, deaf, granted>>
    /\ UNCHANGED <<nodeRunning, heartbeat, stops>>

(* The target is not registered: the call returns an error. *)
CallFails(c) ==
    /\ c.stage = "req" /\ ~ nodeRunning[c.to]
    /\ calls' = calls \ {c}
    /\ UNCHANGED <<nodeVars, nodeRunning, deaf, heartbeat, stops, granted>>

(* Stop: the node keeps its state, its timers stop, its run goroutine ends. *)
RaftStop(n) ==
    /\ nodeRunning[n] /\ stops < MaxStops
    /\ stops' = stops + 1
    /\ nodeRunning' = [nodeRunning EXCEPT ![n] = FALSE]
    /\ heartbeat' = [heartbeat EXCEPT ![n] = FALSE]
    /\ UNCHANGED <<nodeVars, deaf, calls, granted>>

(* Start after a Stop: new timers, new goroutines, the old state. *)
Restart(n) ==
    /\ ~ nodeRunning[n]
    /\ nodeRunning' = [nodeRunning EXCEPT ![n] = TRUE]
    /\ deaf' = [deaf EXCEPT ![n] = FALSE]
    /\ heartbeat' = [heartbeat EXCEPT ![n] = FALSE]
    /\ UNCHANGED <<nodeVars, calls, stops, granted>>

-----------------------------------------------------------------------------
Handle(c) ==
    \/ HandleRequestVote(c) \/ HandleRequestVoteReply(c)
    \/ HandleAppendEntries(c) \/ HandleAppendEntriesReply(c)
    \/ CallFails(c)

RaftNext ==
    \/ \E n \in Node : ElectionTimeout(n) \/ HeartbeatTimeout(n) \/ RaftStop(n) \/ Restart(n)
    \/ \E c \in calls : Handle(c)

RaftSpec == RaftInit /\ [][RaftNext]_raftVars

HandleBetween(n, m) == \E c \in calls : c.from = n /\ c.to = m /\ Handle(c)

(* Timers fire, and every call is carried on; within a pair of nodes a       *)
(* leader's heartbeats are the same call, so none is overtaken for ever.     *)
RaftFairSpec ==
    /\ RaftSpec
    /\ \A n \in Node : WF_raftVars(ElectionTimeout(n)) /\ WF_raftVars(HeartbeatTimeout(n))
    /\ \A n, m \in Node : WF_raftVars(HandleBetween(n, m))

-----------------------------------------------------------------------------
CallType ==
    [kind : {"vote", "append"}, from : Node, to : Node, term : 0 .. MaxTerm,
     stage : {"req", "rep"}, replyTerm : 0 .. MaxTerm, granted : BOOLEAN]

RaftTypeOK ==
    /\ state \in [Node -> {"Follower", "Candidate", "Leader"}]
    /\ currentTerm \in [Node -> 0 .. MaxTerm]
    /\ votedFor \in [Node -> Node \cup {NoNode}]
    /\ votesReceived \in [Node -> SUBSET Node]
    /\ nodeRunning \in [Node -> BOOLEAN]
    /\ deaf \in [Node -> BOOLEAN]
    /\ heartbeat \in [Node -> BOOLEAN]
    /\ calls \subseteq CallType
    /\ stops \in 0 .. MaxStops
    /\ granted \in [Node -> [0 .. MaxTerm -> SUBSET Node]]

(* votedFor never carries a vote of an earlier term into a later one: what   *)
(* it names was voted for in the node's current term.                        *)
VoteIsOfThisTerm ==
    \A n \in Node : votedFor[n] # NoNode => votedFor[n] \in granted[n][currentTerm[n]]

(* While a node is a candidate it has voted for itself and for nobody else   *)
(* in its term.                                                             *)
CandidateVotesForItself ==
    \A n \in Node : state[n] = "Candidate" => granted[n][currentTerm[n]] = {n}

(* A leader has a majority of votes, and every vote counted was cast for     *)
(* the node, in its term or an earlier one: a late reply of an earlier       *)
(* election is counted, since it is not compared with the node's own term.   *)
VotesWereCast ==
    \A n \in Node :
        /\ \A m \in votesReceived[n] : \E t \in 0 .. currentTerm[n] : n \in granted[m][t]
        /\ state[n] = "Leader" => Cardinality(votesReceived[n]) >= Quorum

(* What votedFor names was voted for in the node's current term, although    *)
(* requests and replies of several terms arrive in any order; while a node   *)
(* is a candidate it has voted in its term for itself alone; and a leader    *)
(* has the votes of a majority that did vote for it.                         *)
VotesAreKept == VoteIsOfThisTerm /\ CandidateVotesForItself /\ VotesWereCast

(* A node's term never goes back, whatever order calls and replies come in,  *)
(* and within a term a leader stays leader.                                  *)
GrowsTerm ==
    \A n \in Node :
        /\ currentTerm'[n] >= currentTerm[n]
        /\ state[n] = "Leader" /\ state'[n] # "Leader" => currentTerm'[n] > currentTerm[n]

TermsGrow == [][GrowsTerm]_raftVars

(* docs/raftlog.md: at most one leader in a term. *)
ElectionSafety ==
    \A n, m \in Node :
        state[n] = "Leader" /\ state[m] = "Leader" /\ currentTerm[n] = currentTerm[m] => n = m

(* docs/raftlog.md: a follower that hears nothing stands for election when   *)
(* its timeout passes; so a quorum of followers without a leader, below the  *)
(* term bound and with nobody else stopping, does not stay that way.         *)
Leaderless ==
    /\ \A n \in Node : nodeRunning[n] => state[n] = "Follower" /\ currentTerm[n] < MaxTerm
    /\ Cardinality({n \in Node : nodeRunning[n]}) >= Quorum
Reelection == Leaderless ~> ~ Leaderless
=============================================================================
