------------------------- MODULE RaftElectionProofs -------------------------
(***************************************************************************)
(* Theorems about RaftElection, for any finite cluster, any number of      *)
(* terms and calls, and stops and restarts at any moment.                  *)
(***************************************************************************)
EXTENDS RaftElection, FiniteSetTheorems, TLAPS

(* A candidate's vote is still its own: only becomeLeader and becomeFollower *)
(* give it up, and both end the candidacy.                                   *)
CandidateKeepsVote == \A n \in Node : state[n] = "Candidate" => votedFor[n] = n

(* Nobody has voted in a term it has not reached. *)
NoVoteAhead ==
    \A n \in Node : \A t \in 0 .. MaxTerm : t > currentTerm[n] => granted[n][t] = {}

IInv ==
    /\ RaftTypeOK
    /\ VoteIsOfThisTerm
    /\ CandidateVotesForItself
    /\ CandidateKeepsVote
    /\ NoVoteAhead
-----------------------------------------------------------------------------
(* The calls of a node are calls. *)
LEMMA CallsType ==
    ASSUME RaftElectionAssumption, NEW kind \in {"vote", "append"}, NEW n \in Node,
           NEW t \in 0 .. MaxTerm
    PROVE  Calls(kind, n, t) \subseteq CallType
<1>1. 0 \in 0 .. MaxTerm
  BY DEF RaftElectionAssumption
<1>2. \A m \in Node : Call(kind, n, m, t) \in CallType
  BY <1>1 DEF Call, CallType
<1>q. QED BY <1>2 DEF Calls

(* So are the answered ones. *)
LEMMA RepliedType ==
    ASSUME NEW c \in CallType, NEW t \in 0 .. MaxTerm, NEW ok \in BOOLEAN
    PROVE  Replied(c, t, ok) \in CallType
BY Zenon DEF Replied, CallType

(* The state of the nodes, as far as votes and terms go. *)
NodeType ==
    /\ state \in [Node -> {"Follower", "Candidate", "Leader"}]
    /\ currentTerm \in [Node -> 0 .. MaxTerm]
    /\ votedFor \in [Node -> Node \cup {NoNode}]
    /\ votesReceived \in [Node -> SUBSET Node]
    /\ deaf \in [Node -> BOOLEAN]
    /\ granted \in [Node -> [0 .. MaxTerm -> SUBSET Node]]

VoteInv ==
    /\ VoteIsOfThisTerm
    /\ CandidateVotesForItself
    /\ CandidateKeepsVote
    /\ NoVoteAhead

(* becomeFollower gives up the vote, for a higher term or as a candidate. *)
LEMMA Followed ==
    ASSUME RaftElectionAssumption, IInv, NEW n \in Node, NEW t \in 0 .. MaxTerm, Follow(n, t),
           t >= currentTerm[n], t = currentTerm[n] => state[n] # "Leader"
    PROVE  NodeType' /\ VoteInv' /\ GrowsTerm
<1>1. NodeType'
  BY DEF IInv, RaftTypeOK, NodeType, Follow, ResetElsewhere
<1>2. VoteIsOfThisTerm' /\ CandidateVotesForItself' /\ CandidateKeepsVote'
  <2>1. \A m \in Node \ {n} : /\ state'[m] = state[m] /\ currentTerm'[m] = currentTerm[m]
                              /\ votedFor'[m] = votedFor[m]
    BY DEF IInv, RaftTypeOK, Follow
  <2>2. state'[n] = "Follower" /\ votedFor'[n] = NoNode /\ granted' = granted
    BY DEF IInv, RaftTypeOK, Follow
  <2>q. QED BY <2>1, <2>2 DEF IInv, VoteIsOfThisTerm, CandidateVotesForItself, CandidateKeepsVote
<1>3. currentTerm' = [currentTerm EXCEPT ![n] = t] /\ granted' = granted
  BY DEF Follow
<1>4. NoVoteAhead'
  <2>1. SUFFICES ASSUME NEW m \in Node, NEW u \in 0 .. MaxTerm, u > currentTerm'[m]
                 PROVE  granted[m][u] = {}
    BY <1>3 DEF NoVoteAhead
  <2>2. u > currentTerm[m]
    <3>1. currentTerm'[m] >= currentTerm[m] /\ currentTerm[m] \in Int /\ currentTerm'[m] \in Int
      BY <1>3, RaftElectionAssumption DEF IInv, RaftTypeOK, RaftElectionAssumption
    <3>q. QED BY <2>1, <3>1
  <2>q. QED BY <2>2 DEF IInv, NoVoteAhead
<1>5. GrowsTerm
  <2>1. SUFFICES ASSUME NEW m \in Node
                 PROVE  /\ currentTerm'[m] >= currentTerm[m]
                        /\ state[m] = "Leader" /\ state'[m] # "Leader" => currentTerm'[m] > currentTerm[m]
    BY DEF GrowsTerm
  <2>2. CASE m = n
    BY <1>3, <2>2 DEF IInv, RaftTypeOK, RaftElectionAssumption
  <2>3. CASE m # n
    BY <1>3, <2>3 DEF IInv, RaftTypeOK, RaftElectionAssumption, Follow
  <2>q. QED BY <2>2, <2>3
<1>q. QED BY <1>1, <1>2, <1>4, <1>5 DEF VoteInv

(* Votes and terms that stay as they are. *)
LEMMA Untouched ==
    ASSUME RaftElectionAssumption, IInv, UNCHANGED <<nodeVars, granted>>, deaf' \in [Node -> BOOLEAN]
    PROVE  NodeType' /\ VoteInv' /\ GrowsTerm
<1>1. NodeType'
  BY DEF IInv, RaftTypeOK, NodeType, nodeVars
<1>2. VoteInv'
  BY DEF IInv, VoteInv, VoteIsOfThisTerm, CandidateVotesForItself, CandidateKeepsVote, NoVoteAhead, nodeVars
<1>3. GrowsTerm
  BY DEF IInv, RaftTypeOK, GrowsTerm, nodeVars, RaftElectionAssumption
<1>q. QED BY <1>1, <1>2, <1>3

(* An election timeout: the node goes to the next term, where it has not voted. *)
LEMMA ElectionTimeoutStep ==
    ASSUME RaftElectionAssumption, IInv, NEW n \in Node, ElectionTimeout(n)
    PROVE  IInv' /\ GrowsTerm
<1>0. PICK t : t = currentTerm[n] + 1
  OBVIOUS
<1>1. /\ t \in 0 .. MaxTerm /\ t > currentTerm[n] /\ granted[n][t] = {}
      /\ currentTerm[n] \in Int
  BY <1>0 DEF ElectionTimeout, IInv, RaftTypeOK, NoVoteAhead, RaftElectionAssumption
<1>2. /\ state' = [state EXCEPT ![n] = IF 1 >= Quorum THEN "Leader" ELSE "Candidate"]
      /\ currentTerm' = [currentTerm EXCEPT ![n] = t]
      /\ votedFor' = [votedFor EXCEPT ![n] = IF 1 >= Quorum THEN NoNode ELSE n]
      /\ votesReceived' = [votesReceived EXCEPT ![n] = {n}]
      /\ heartbeat' = [heartbeat EXCEPT ![n] = @ \/ 1 >= Quorum]
      /\ calls' = calls \cup Calls("vote", n, t)
      /\ granted' = [granted EXCEPT ![n][t] = @ \cup {n}]
      /\ UNCHANGED <<nodeRunning, deaf, stops>> /\ state[n] # "Leader"
  BY <1>0 DEF ElectionTimeout
<1>3. RaftTypeOK'
  <2>1. calls' \subseteq CallType
    BY <1>1, <1>2, CallsType DEF IInv, RaftTypeOK
  <2>2. granted' \in [Node -> [0 .. MaxTerm -> SUBSET Node]]
    BY <1>1, <1>2 DEF IInv, RaftTypeOK
  <2>3. heartbeat' \in [Node -> BOOLEAN]
    BY <1>2 DEF IInv, RaftTypeOK
  <2>q. QED BY <1>1, <1>2, <2>1, <2>2, <2>3 DEF IInv, RaftTypeOK
<1>4. /\ state'[n] # "Follower" /\ currentTerm'[n] = t /\ granted'[n][t] = {n}
      /\ votedFor'[n] \in {NoNode, n} /\ (state'[n] = "Candidate" => votedFor'[n] = n)
      /\ \A u \in 0 .. MaxTerm : u # t => granted'[n][u] = granted[n][u]
  BY Zenon, <1>1, <1>2 DEF IInv, RaftTypeOK
<1>5. \A m \in Node \ {n} : /\ state'[m] = state[m] /\ currentTerm'[m] = currentTerm[m]
                            /\ votedFor'[m] = votedFor[m] /\ granted'[m] = granted[m]
  BY <1>2 DEF IInv, RaftTypeOK
<1>6. VoteIsOfThisTerm' /\ CandidateVotesForItself' /\ CandidateKeepsVote'
  BY <1>4, <1>5 DEF IInv, VoteIsOfThisTerm, CandidateVotesForItself, CandidateKeepsVote
<1>7. NoVoteAhead'
  <2>1. \A u \in 0 .. MaxTerm : u > t => granted'[n][u] = {}
    <3>1. \A u \in 0 .. MaxTerm : u > t => u # t /\ u > currentTerm[n]
      BY <1>1 DEF RaftElectionAssumption
    <3>q. QED BY <1>4, <3>1 DEF IInv, NoVoteAhead
  <2>2. ASSUME NEW m \in Node \ {n}, NEW u \in 0 .. MaxTerm, u > currentTerm'[m]
        PROVE  granted'[m][u] = {}
    BY <1>5, <2>2 DEF IInv, NoVoteAhead
  <2>q. QED BY <1>4, <2>1, <2>2 DEF NoVoteAhead
<1>8. GrowsTerm
  BY <1>1, <1>2, <1>4, <1>5 DEF IInv, RaftTypeOK, GrowsTerm, RaftElectionAssumption
<1>q. QED BY <1>3, <1>6, <1>7, <1>8 DEF IInv

(* Heartbeats, Stop, Restart and calls that fail change no vote and no term. *)
LEMMA QuietStep ==
    ASSUME RaftElectionAssumption, IInv,
           \/ \E n \in Node : HeartbeatTimeout(n) \/ RaftStop(n) \/ Restart(n)
           \/ \E c \in calls : CallFails(c)
    PROVE  IInv' /\ GrowsTerm
<1>1. UNCHANGED <<nodeVars, granted>>
  BY DEF HeartbeatTimeout, RaftStop, Restart, CallFails
<1>2. RaftTypeOK'
  <2>1. ASSUME NEW n \in Node, HeartbeatTimeout(n)
        PROVE  RaftTypeOK'
    <3>1. calls' \subseteq CallType
      BY <2>1, CallsType DEF IInv, RaftTypeOK, HeartbeatTimeout
    <3>q. QED BY Zenon, <2>1, <3>1 DEF IInv, RaftTypeOK, HeartbeatTimeout, nodeVars
  <2>2. ASSUME NEW n \in Node, RaftStop(n) \/ Restart(n)
        PROVE  RaftTypeOK'
    <3>1. stops' \in 0 .. MaxStops
      BY <2>2 DEF IInv, RaftTypeOK, RaftStop, Restart, RaftElectionAssumption
    <3>2. /\ nodeRunning' \in [Node -> BOOLEAN] /\ heartbeat' \in [Node -> BOOLEAN]
          /\ deaf' \in [Node -> BOOLEAN] /\ calls' = calls
      <4>1. CASE RaftStop(n)
        BY <4>1 DEF IInv, RaftTypeOK, RaftStop
      <4>2. CASE Restart(n)
        BY <4>2 DEF IInv, RaftTypeOK, Restart
      <4>q. QED BY <2>2, <4>1, <4>2
    <3>q. QED BY <1>1, <3>1, <3>2 DEF IInv, RaftTypeOK, nodeVars
  <2>3. ASSUME NEW c \in calls, CallFails(c)
        PROVE  RaftTypeOK'
    BY <2>3 DEF IInv, RaftTypeOK, CallFails, nodeVars
  <2>q. QED BY <2>1, <2>2, <2>3
<1>3. VoteInv' /\ GrowsTerm
  BY <1>1, <1>2, Untouched DEF RaftTypeOK
<1>q. QED BY <1>2, <1>3 DEF IInv, VoteInv

(* HandleRequestVote: the vote, if any, is given in the term the node is then in. *)
LEMMA RequestVoteStep ==
    ASSUME RaftElectionAssumption, IInv, NEW c \in calls, HandleRequestVote(c)
    PROVE  IInv' /\ GrowsTerm
<1> USE DEF nodeVars
<1>1. RaftTypeOK'
  <2>1. c \in CallType
    BY DEF IInv, RaftTypeOK
  <2>2. PICK t \in 0 .. MaxTerm, ok \in BOOLEAN, v \in Node \cup {NoNode} :
           /\ currentTerm' = [currentTerm EXCEPT ![c.to] = t]
           /\ votedFor' = [votedFor EXCEPT ![c.to] = v]
           /\ calls' = (calls \ {c}) \cup {Replied(c, t, ok)}
           /\ granted' = IF ok THEN [granted EXCEPT ![c.to][t] = @ \cup {c.from}] ELSE granted
    BY Zenon, <2>1 DEF IInv, RaftTypeOK, CallType, HandleRequestVote
  <2>3. calls' \subseteq CallType
    BY <2>1, <2>2, RepliedType DEF IInv, RaftTypeOK
  <2>4. granted' \in [Node -> [0 .. MaxTerm -> SUBSET Node]]
    <3>1. c.to \in Node /\ c.from \in Node /\ granted \in [Node -> [0 .. MaxTerm -> SUBSET Node]]
      BY <2>1 DEF IInv, RaftTypeOK, CallType
    <3>2. CASE ok
      BY Zenon, <2>2, <3>1, <3>2
    <3>3. CASE ~ ok
      BY <2>2, <3>1, <3>3
    <3>q. QED BY <3>2, <3>3
  <2>5. /\ state' \in [Node -> {"Follower", "Candidate", "Leader"}]
        /\ deaf' \in [Node -> BOOLEAN]
    BY Zenon, <2>1 DEF IInv, RaftTypeOK, CallType, HandleRequestVote, ResetElsewhere
  <2>q. QED BY <2>2, <2>3, <2>4, <2>5 DEF IInv, RaftTypeOK, HandleRequestVote
<1>2. VoteIsOfThisTerm'
  BY DEF IInv, RaftTypeOK, VoteIsOfThisTerm, RaftElectionAssumption, CallType, HandleRequestVote, ResetElsewhere
<1>3. CandidateVotesForItself'
  BY DEF IInv, RaftTypeOK, CandidateVotesForItself, CandidateKeepsVote, NoVoteAhead, RaftElectionAssumption, CallType, HandleRequestVote, ResetElsewhere
<1>4. CandidateKeepsVote'
  BY DEF IInv, RaftTypeOK, CandidateKeepsVote, RaftElectionAssumption, CallType, HandleRequestVote, ResetElsewhere
<1>5. NoVoteAhead'
  BY DEF IInv, RaftTypeOK, NoVoteAhead, RaftElectionAssumption, CallType, HandleRequestVote, ResetElsewhere
<1>6. GrowsTerm
  BY DEF IInv, RaftTypeOK, GrowsTerm, RaftElectionAssumption, CallType, HandleRequestVote, ResetElsewhere
<1>q. QED BY <1>1, <1>2, <1>3, <1>4, <1>5, <1>6 DEF IInv

(* handleRequestVoteReply: the candidate wins, goes on or gives up for a      *)
(* higher term.                                                              *)
LEMMA RequestVoteReplyStep ==
    ASSUME RaftElectionAssumption, IInv, NEW c \in calls, HandleRequestVoteReply(c)
    PROVE  IInv' /\ GrowsTerm
<1>0. /\ c \in CallType /\ c.from \in Node /\ c.replyTerm \in 0 .. MaxTerm /\ c.to \in Node
      /\ currentTerm[c.from] \in 0 .. MaxTerm /\ nodeRunning' = nodeRunning /\ stops' = stops
  BY DEF IInv, RaftTypeOK, CallType, HandleRequestVoteReply
<1>1. CASE calls' = calls \ {c} /\ UNCHANGED <<nodeVars, deaf, heartbeat, granted>>
  <2>1. NodeType' /\ VoteInv' /\ GrowsTerm
    BY <1>1, Untouched DEF IInv, RaftTypeOK
  <2>q. QED BY <1>0, <1>1, <2>1 DEF IInv, RaftTypeOK, NodeType, VoteInv
<1>2. CASE /\ c.replyTerm > currentTerm[c.from]
           /\ calls' = calls \ {c} /\ Follow(c.from, c.replyTerm) /\ UNCHANGED heartbeat
  <2>1. c.replyTerm >= currentTerm[c.from] /\ c.replyTerm # currentTerm[c.from]
    BY <1>0, <1>2 DEF RaftElectionAssumption
  <2>2. NodeType' /\ VoteInv' /\ GrowsTerm
    BY <1>0, <1>2, <2>1, Followed
  <2>q. QED BY <1>0, <1>2, <2>2 DEF IInv, RaftTypeOK, NodeType, VoteInv
<1>3. ASSUME NEW votes \in SUBSET Node, NEW won \in BOOLEAN, state[c.from] = "Candidate",
             /\ votesReceived' = [votesReceived EXCEPT ![c.from] = votes]
             /\ state' = [state EXCEPT ![c.from] = IF won THEN "Leader" ELSE @]
             /\ votedFor' = [votedFor EXCEPT ![c.from] = IF won THEN NoNode ELSE @]
             /\ heartbeat' = [heartbeat EXCEPT ![c.from] = @ \/ won]
             /\ calls' = (calls \ {c}) \cup
                   (IF won THEN Calls("append", c.from, currentTerm[c.from]) ELSE {})
             /\ UNCHANGED <<currentTerm, deaf, granted>>
      PROVE  IInv' /\ GrowsTerm
  <2>1. calls' \subseteq CallType
    BY <1>0, <1>3, CallsType DEF IInv, RaftTypeOK
  <2>2. heartbeat' \in [Node -> BOOLEAN]
    BY <1>0, <1>3 DEF IInv, RaftTypeOK
  <2>3. RaftTypeOK'
    BY <1>0, <1>3, <2>1, <2>2 DEF IInv, RaftTypeOK
  <2>4. \A m \in Node : /\ state'[m] = "Candidate" => state[m] = "Candidate" /\ votedFor'[m] = votedFor[m]
                        /\ votedFor'[m] \in {votedFor[m], NoNode}
                        /\ state[m] = "Leader" => state'[m] = "Leader"
    BY <1>0, <1>3 DEF IInv, RaftTypeOK
  <2>5. VoteInv'
    BY <1>3, <2>4 DEF IInv, VoteInv, VoteIsOfThisTerm, CandidateVotesForItself, CandidateKeepsVote, NoVoteAhead
  <2>6. GrowsTerm
    BY <1>3, <2>4 DEF IInv, RaftTypeOK, GrowsTerm, RaftElectionAssumption
  <2>q. QED BY <2>3, <2>5, <2>6 DEF IInv, VoteInv
<1>4. CASE state[c.from] = "Candidate" /\ ~ (c.replyTerm > currentTerm[c.from])
  <2>1. PICK votes, won :
             /\ votes \in SUBSET Node /\ won \in BOOLEAN
             /\ votesReceived' = [votesReceived EXCEPT ![c.from] = votes]
             /\ state' = [state EXCEPT ![c.from] = IF won THEN "Leader" ELSE @]
             /\ votedFor' = [votedFor EXCEPT ![c.from] = IF won THEN NoNode ELSE @]
             /\ heartbeat' = [heartbeat EXCEPT ![c.from] = @ \/ won]
             /\ calls' = (calls \ {c}) \cup
                   (IF won THEN Calls("append", c.from, currentTerm[c.from]) ELSE {})
             /\ UNCHANGED <<currentTerm, deaf, granted>>
    <3>1. votesReceived[c.from] \in SUBSET Node
      BY <1>0 DEF IInv, RaftTypeOK
    <3> DEFINE votes == IF c.replyTerm >= c.term /\ c.granted
                        THEN votesReceived[c.from] \cup {c.to} ELSE votesReceived[c.from]
               won == c.replyTerm >= c.term /\ Cardinality(votes) >= Quorum
    <3>2. votes \in SUBSET Node
      BY <1>0, <3>1
    <3>3. won \in BOOLEAN
      OBVIOUS
    <3>4. /\ votesReceived' = [votesReceived EXCEPT ![c.from] = votes]
          /\ state' = [state EXCEPT ![c.from] = IF won THEN "Leader" ELSE @]
          /\ votedFor' = [votedFor EXCEPT ![c.from] = IF won THEN NoNode ELSE @]
          /\ heartbeat' = [heartbeat EXCEPT ![c.from] = @ \/ won]
          /\ calls' = (calls \ {c}) \cup
                (IF won THEN Calls("append", c.from, currentTerm[c.from]) ELSE {})
          /\ UNCHANGED <<currentTerm, deaf, granted>>
      BY <1>4 DEF HandleRequestVoteReply
    <3> HIDE DEF votes, won
    <3>q. QED BY Zenon, <3>2, <3>3, <3>4
  <2>q. QED BY Zenon, <1>3, <1>4, <2>1
<1>q. QED BY <1>1, <1>2, <1>4 DEF HandleRequestVoteReply

(* HandleAppendEntries: only a candidate gives in to a call of its own term. *)
LEMMA AppendEntriesStep ==
    ASSUME RaftElectionAssumption, IInv, NEW c \in calls, HandleAppendEntries(c)
    PROVE  IInv' /\ GrowsTerm
<1>0. /\ c \in CallType /\ c.to \in Node /\ c.term \in 0 .. MaxTerm
      /\ currentTerm[c.to] \in 0 .. MaxTerm
      /\ nodeRunning' = nodeRunning /\ heartbeat' = heartbeat /\ stops' = stops
  BY DEF IInv, RaftTypeOK, CallType, HandleAppendEntries
<1>1. calls' \subseteq CallType
  <2>1. PICK t \in 0 .. MaxTerm, ok \in BOOLEAN : calls' = (calls \ {c}) \cup {Replied(c, t, ok)}
    BY Zenon, <1>0 DEF HandleAppendEntries
  <2>q. QED BY <1>0, <2>1, RepliedType DEF IInv, RaftTypeOK
<1>2. NodeType' /\ VoteInv' /\ GrowsTerm
  <2>1. CASE c.term > currentTerm[c.to] \/ (~ (c.term < currentTerm[c.to]) /\ state[c.to] = "Candidate")
    <3>1. /\ Follow(c.to, c.term) /\ c.term >= currentTerm[c.to]
          /\ c.term = currentTerm[c.to] => state[c.to] # "Leader"
      BY <1>0, <2>1 DEF HandleAppendEntries, RaftElectionAssumption
    <3>q. QED BY <1>0, <3>1, Followed
  <2>2. CASE ~ (c.term > currentTerm[c.to] \/ (~ (c.term < currentTerm[c.to]) /\ state[c.to] = "Candidate"))
    <3>1. UNCHANGED <<nodeVars, granted>> /\ deaf' \in [Node -> BOOLEAN]
      BY Zenon, <1>0, <2>2 DEF HandleAppendEntries, ResetElsewhere, IInv, RaftTypeOK
    <3>q. QED BY <3>1, Untouched
  <2>q. QED BY <2>1, <2>2
<1>q. QED BY <1>0, <1>1, <1>2 DEF IInv, RaftTypeOK, NodeType, VoteInv

(* handleAppendEntriesReply: a leader gives up for a higher term. *)
LEMMA AppendEntriesReplyStep ==
    ASSUME RaftElectionAssumption, IInv, NEW c \in calls, HandleAppendEntriesReply(c)
    PROVE  IInv' /\ GrowsTerm
<1>0. /\ c \in CallType /\ c.from \in Node /\ c.replyTerm \in 0 .. MaxTerm
      /\ currentTerm[c.from] \in 0 .. MaxTerm /\ calls' \subseteq CallType
      /\ nodeRunning' = nodeRunning /\ heartbeat' = heartbeat /\ stops' = stops
  BY DEF IInv, RaftTypeOK, CallType, HandleAppendEntriesReply
<1>1. NodeType' /\ VoteInv' /\ GrowsTerm
  <2>1. CASE state[c.from] = "Leader" /\ c.replyTerm > currentTerm[c.from]
    <3>1. /\ Follow(c.from, c.replyTerm) /\ c.replyTerm >= currentTerm[c.from]
          /\ c.replyTerm # currentTerm[c.from]
      BY <1>0, <2>1 DEF HandleAppendEntriesReply, RaftElectionAssumption
    <3>q. QED BY <1>0, <3>1, Followed
  <2>2. CASE ~ (state[c.from] = "Leader" /\ c.replyTerm > currentTerm[c.from])
    <3>1. UNCHANGED <<nodeVars, deaf, granted>>
      BY <2>2 DEF HandleAppendEntriesReply
    <3>q. QED BY <3>1, Untouched DEF IInv, RaftTypeOK
  <2>q. QED BY <2>1, <2>2
<1>q. QED BY <1>0, <1>1 DEF IInv, RaftTypeOK, NodeType, VoteInv

-----------------------------------------------------------------------------
(* A request for votes is not ahead of the node that sent it, and a granted  *)
(* one stands in the history of the node that answered.                      *)
RequestIsSound(c) ==
    /\ c.term <= currentTerm[c.from]
    /\ c.stage = "rep" /\ c.granted => c.from \in granted[c.to][c.term]

CastInv == VotesWereCast /\ \A c \in calls : c.kind = "vote" => RequestIsSound(c)

(* Where a call for votes comes from: it was there, it is new, or it has     *)
(* just been answered.                                                       *)
CallOrigin(c) ==
    \/ c \in calls
    \/ c.stage = "req" /\ c.term = currentTerm'[c.from]
    \/ \E d \in calls : /\ d.kind = "vote" /\ c.from = d.from /\ c.to = d.to /\ c.term = d.term
                        /\ c.granted => d.from \in granted'[d.to][d.term]

(* Where a counted vote comes from: it was counted, it is the node's own, or *)
(* a granted reply brought it.                                               *)
VoteOrigin(n, m) ==
    \/ m \in votesReceived[n]
    \/ n \in granted'[m][currentTerm'[n]]
    \/ \E c \in calls : /\ c.kind = "vote" /\ c.stage = "rep" /\ c.granted
                        /\ c.from = n /\ c.to = m

(* What a step does to votes and to the calls for them. *)
VoteStep ==
    /\ \A n \in Node : \A t \in 0 .. MaxTerm : granted[n][t] \subseteq granted'[n][t]
    /\ \A c \in calls' : c.kind = "vote" => CallOrigin(c)
    /\ \A n \in Node :
          /\ \A m \in votesReceived'[n] : VoteOrigin(n, m)
          /\ state'[n] = "Leader" => \/ state[n] = "Leader" /\ votesReceived'[n] = votesReceived[n]
                                     \/ Cardinality(votesReceived'[n]) >= Quorum

(* A step of that kind keeps every counted vote accounted for. *)
LEMMA VoteStepKeeps ==
    ASSUME RaftElectionAssumption, IInv, IInv', GrowsTerm, CastInv, VoteStep
    PROVE  CastInv'
<1>1. /\ \A n \in Node : currentTerm[n] \in 0 .. MaxTerm /\ currentTerm'[n] \in 0 .. MaxTerm
      /\ \A n \in Node : currentTerm'[n] >= currentTerm[n]
  BY DEF IInv, RaftTypeOK, GrowsTerm
<1>2. /\ \A c \in calls : c.from \in Node /\ c.to \in Node /\ c.term \in 0 .. MaxTerm
      /\ \A c \in calls' : c.from \in Node /\ c.to \in Node /\ c.term \in 0 .. MaxTerm
      /\ \A n \in Node : votesReceived[n] \subseteq Node /\ votesReceived'[n] \subseteq Node
  BY DEF IInv, RaftTypeOK, CallType
<1>3. \A n \in Node : \A u \in 0 .. MaxTerm : u <= currentTerm[n] => u \in 0 .. currentTerm'[n]
  BY <1>1 DEF RaftElectionAssumption
<1>4. \A n \in Node : \A u \in 0 .. currentTerm[n] : u \in 0 .. MaxTerm /\ u \in 0 .. currentTerm'[n]
  BY <1>1 DEF RaftElectionAssumption
<1>5. ASSUME NEW n \in Node, NEW m \in votesReceived'[n]
      PROVE  \E u \in 0 .. currentTerm'[n] : n \in granted'[m][u]
  <2>0. m \in Node
    BY <1>2, <1>5
  <2>1. CASE m \in votesReceived[n]
    BY Zenon, <1>4, <2>0, <2>1 DEF CastInv, VotesWereCast, VoteStep
  <2>2. CASE n \in granted'[m][currentTerm'[n]]
    <3>1. currentTerm'[n] \in 0 .. currentTerm'[n]
      BY <1>1 DEF RaftElectionAssumption
    <3>q. QED BY Zenon, <2>2, <3>1
  <2>3. ASSUME NEW c \in calls, c.kind = "vote", c.stage = "rep", c.granted, c.from = n, c.to = m
        PROVE  \E u \in 0 .. currentTerm'[n] : n \in granted'[m][u]
    <3>1. c.term <= currentTerm[n] /\ n \in granted[m][c.term] /\ c.term \in 0 .. MaxTerm
      BY Zenon, <1>2, <2>3 DEF CastInv, RequestIsSound
    <3>q. QED BY Zenon, <1>3, <2>0, <3>1 DEF VoteStep
  <2>4. VoteOrigin(n, m)
    BY Zenon, <1>5 DEF VoteStep
  <2>q. QED BY Zenon, <2>1, <2>2, <2>3, <2>4 DEF VoteOrigin
<1>6. ASSUME NEW n \in Node, state'[n] = "Leader"
      PROVE  Cardinality(votesReceived'[n]) >= Quorum
  BY Zenon, <1>6 DEF VoteStep, CastInv, VotesWereCast
<1>7. ASSUME NEW c \in calls', c.kind = "vote"
      PROVE  RequestIsSound(c)'
  <2>1. CASE c \in calls
    <3>1. c.term <= currentTerm[c.from] /\ (c.stage = "rep" /\ c.granted => c.from \in granted[c.to][c.term])
      BY Zenon, <1>7, <2>1 DEF CastInv, RequestIsSound
    <3>2. c.term <= currentTerm'[c.from]
      BY <1>1, <1>2, <2>1, <3>1 DEF RaftElectionAssumption
    <3>3. granted[c.to][c.term] \subseteq granted'[c.to][c.term]
      BY Zenon, <1>2, <2>1 DEF VoteStep
    <3>q. QED BY Zenon, <3>1, <3>2, <3>3 DEF RequestIsSound
  <2>2. CASE c.stage = "req" /\ c.term = currentTerm'[c.from]
    <3>1. c.term <= currentTerm'[c.from] /\ c.stage # "rep"
      BY <1>1, <1>2, <1>7, <2>2 DEF RaftElectionAssumption
    <3>q. QED BY Zenon, <3>1 DEF RequestIsSound
  <2>3. ASSUME NEW d \in calls, d.kind = "vote", c.from = d.from, c.to = d.to, c.term = d.term,
               c.granted => d.from \in granted'[d.to][d.term]
        PROVE  RequestIsSound(c)'
    <3>1. d.term <= currentTerm[d.from]
      BY Zenon, <2>3 DEF CastInv, RequestIsSound
    <3>2. d.term <= currentTerm'[d.from]
      BY <1>1, <1>2, <3>1 DEF RaftElectionAssumption
    <3>q. QED BY Zenon, <2>3, <3>2 DEF RequestIsSound
  <2>4. CallOrigin(c)
    BY Zenon, <1>7 DEF VoteStep
  <2>q. QED BY Zenon, <2>1, <2>2, <2>3, <2>4 DEF CallOrigin
<1>q. QED BY Zenon, <1>5, <1>6, <1>7 DEF CastInv, VotesWereCast

(* A step that counts no vote and sends and answers no call for votes. *)
LEMMA SilentVotes ==
    ASSUME RaftElectionAssumption, IInv, UNCHANGED <<votesReceived, granted>>,
           \A c \in calls' : c.kind = "vote" => c \in calls,
           \A n \in Node : state'[n] = "Leader" => state[n] = "Leader"
    PROVE  VoteStep
BY Zenon DEF VoteStep, CallOrigin, VoteOrigin

(* startElection counts the node's own vote and asks the others. *)
LEMMA ElectionTimeoutVotes ==
    ASSUME RaftElectionAssumption, IInv, NEW n \in Node, ElectionTimeout(n)
    PROVE  VoteStep
<1>0. PICK t : t = currentTerm[n] + 1
  OBVIOUS
<1>1. t \in 0 .. MaxTerm
  BY <1>0 DEF ElectionTimeout, IInv, RaftTypeOK, RaftElectionAssumption
<1>2. /\ state' = [state EXCEPT ![n] = IF 1 >= Quorum THEN "Leader" ELSE "Candidate"]
      /\ currentTerm' = [currentTerm EXCEPT ![n] = t]
      /\ votesReceived' = [votesReceived EXCEPT ![n] = {n}]
      /\ calls' = calls \cup Calls("vote", n, t)
      /\ granted' = [granted EXCEPT ![n][t] = @ \cup {n}]
  BY <1>0 DEF ElectionTimeout
<1>3. /\ currentTerm'[n] = t /\ n \in granted'[n][t] /\ votesReceived'[n] = {n}
      /\ state'[n] = "Leader" => 1 >= Quorum
  BY Zenon, <1>1, <1>2 DEF IInv, RaftTypeOK
<1>4. \A m \in Node : \A u \in 0 .. MaxTerm : granted[m][u] \subseteq granted'[m][u]
  BY Zenon, <1>1, <1>2 DEF IInv, RaftTypeOK
<1>5. \A m \in Node \ {n} : state'[m] = state[m] /\ votesReceived'[m] = votesReceived[m]
  BY Zenon, <1>2 DEF IInv, RaftTypeOK
<1>6. \A c \in Calls("vote", n, t) : c.stage = "req" /\ c.term = t /\ c.from = n
  BY DEF Calls, Call
<1>7. \A c \in calls' : CallOrigin(c)
  BY Zenon, <1>2, <1>3, <1>6 DEF CallOrigin
<1>8. Cardinality({n}) = 1
  BY FS_Singleton
<1>9. \A m \in Node : \A k \in votesReceived'[m] : VoteOrigin(m, k)
  BY Zenon, <1>3, <1>5 DEF VoteOrigin
<1>10. \A m \in Node : state'[m] = "Leader" =>
          \/ state[m] = "Leader" /\ votesReceived'[m] = votesReceived[m]
          \/ Cardinality(votesReceived'[m]) >= Quorum
  BY Zenon, <1>3, <1>5, <1>8
<1>q. QED BY Zenon, <1>4, <1>7, <1>9, <1>10 DEF VoteStep

(* HandleRequestVote answers that the vote is granted only when it is. *)
LEMMA RequestVoteVotes ==
    ASSUME RaftElectionAssumption, IInv, NEW c \in calls, HandleRequestVote(c)
    PROVE  VoteStep
<1>1. c \in CallType /\ c.to \in Node /\ c.from \in Node /\ c.kind = "vote"
  BY DEF IInv, RaftTypeOK, CallType, HandleRequestVote
<1>2. PICK t \in 0 .. MaxTerm, ok \in BOOLEAN :
         /\ calls' = (calls \ {c}) \cup {Replied(c, t, ok)}
         /\ granted' = IF ok THEN [granted EXCEPT ![c.to][t] = @ \cup {c.from}] ELSE granted
         /\ ok => c.term = t
  BY Zenon, <1>1 DEF IInv, RaftTypeOK, CallType, HandleRequestVote
<1>3. votesReceived' = votesReceived /\ \A n \in Node : state'[n] = "Leader" => state[n] = "Leader"
  BY Zenon, <1>1 DEF IInv, RaftTypeOK, HandleRequestVote
<1>4. \A m \in Node : \A u \in 0 .. MaxTerm : granted[m][u] \subseteq granted'[m][u]
  BY Zenon, <1>1, <1>2 DEF IInv, RaftTypeOK
<1>5. ok => c.from \in granted'[c.to][c.term]
  BY Zenon, <1>1, <1>2 DEF IInv, RaftTypeOK
<1>6. /\ Replied(c, t, ok).from = c.from /\ Replied(c, t, ok).to = c.to
      /\ Replied(c, t, ok).term = c.term /\ Replied(c, t, ok).granted = ok
  BY <1>1 DEF Replied, CallType
<1>7. CallOrigin(Replied(c, t, ok))
  BY Zenon, <1>1, <1>5, <1>6 DEF CallOrigin
<1>8. \A d \in calls' : CallOrigin(d)
  BY Zenon, <1>2, <1>7 DEF CallOrigin
<1>q. QED BY Zenon, <1>3, <1>4, <1>8 DEF VoteStep, VoteOrigin

(* handleRequestVoteReply counts what a granted reply brings, and            *)
(* checkElectionWin makes a leader of a node with a majority.                *)
LEMMA RequestVoteReplyVotes ==
    ASSUME RaftElectionAssumption, IInv, NEW c \in calls, HandleRequestVoteReply(c)
    PROVE  VoteStep
<1>0. c.kind = "vote" /\ c.stage = "rep" /\ c.from \in Node /\ c.to \in Node
  BY DEF IInv, RaftTypeOK, CallType, HandleRequestVoteReply
<1>1. CASE calls' = calls \ {c} /\ UNCHANGED <<nodeVars, deaf, heartbeat, granted>>
  BY <1>1, SilentVotes DEF nodeVars
<1>2. CASE calls' = calls \ {c} /\ Follow(c.from, c.replyTerm) /\ UNCHANGED heartbeat
  <2>1. \A n \in Node : state'[n] = "Leader" => state[n] = "Leader"
    BY Zenon, <1>0, <1>2 DEF Follow, IInv, RaftTypeOK
  <2>q. QED BY <1>2, <2>1, SilentVotes DEF Follow
<1>3. CASE state[c.from] = "Candidate" /\ ~ (c.replyTerm > currentTerm[c.from])
  <2> DEFINE votes == IF c.replyTerm >= c.term /\ c.granted
                      THEN votesReceived[c.from] \cup {c.to} ELSE votesReceived[c.from]
             won == c.replyTerm >= c.term /\ Cardinality(votes) >= Quorum
  <2>1. /\ votesReceived' = [votesReceived EXCEPT ![c.from] = votes]
        /\ state' = [state EXCEPT ![c.from] = IF won THEN "Leader" ELSE @]
        /\ calls' = (calls \ {c}) \cup
              (IF won THEN Calls("append", c.from, currentTerm[c.from]) ELSE {})
        /\ granted' = granted
    BY <1>3 DEF HandleRequestVoteReply
  <2>2. won => Cardinality(votes) >= Quorum
    OBVIOUS
  <2>3. \A m \in votes : m \in votesReceived[c.from] \/ (c.granted /\ m = c.to)
    OBVIOUS
  <2> HIDE DEF votes, won
  <2>4. /\ votesReceived'[c.from] = votes /\ (state'[c.from] = "Leader" => won)
        /\ \A n \in Node \ {c.from} : state'[n] = state[n] /\ votesReceived'[n] = votesReceived[n]
    BY Zenon, <1>0, <1>3, <2>1 DEF IInv, RaftTypeOK
  <2>5. \A d \in Calls("append", c.from, currentTerm[c.from]) : d.kind # "vote"
    BY DEF Calls, Call
  <2>6. \A d \in calls' : d.kind = "vote" => CallOrigin(d)
    BY Zenon, <2>1, <2>5 DEF CallOrigin
  <2>7. \A n \in Node : \A m \in votesReceived'[n] : VoteOrigin(n, m)
    BY Zenon, <1>0, <2>3, <2>4 DEF VoteOrigin
  <2>8. \A n \in Node : state'[n] = "Leader" =>
           \/ state[n] = "Leader" /\ votesReceived'[n] = votesReceived[n]
           \/ Cardinality(votesReceived'[n]) >= Quorum
    BY Zenon, <2>2, <2>4
  <2>q. QED BY Zenon, <2>1, <2>6, <2>7, <2>8 DEF VoteStep
<1>q. QED BY <1>1, <1>2, <1>3 DEF HandleRequestVoteReply

(* Heartbeats, AppendEntries and its replies, Stop, Restart and calls that   *)
(* fail have no part in the counting.                                        *)
LEMMA OtherVotes ==
    ASSUME RaftElectionAssumption, IInv,
           \/ \E n \in Node : HeartbeatTimeout(n) \/ RaftStop(n) \/ Restart(n)
           \/ \E c \in calls : HandleAppendEntries(c) \/ HandleAppendEntriesReply(c) \/ CallFails(c)
    PROVE  VoteStep
<1>1. ASSUME NEW n \in Node, HeartbeatTimeout(n)
      PROVE  VoteStep
  <2>1. \A d \in Calls("append", n, currentTerm[n]) : d.kind # "vote"
    BY DEF Calls, Call
  <2>2. \A c \in calls' : c.kind = "vote" => c \in calls
    BY <1>1, <2>1 DEF HeartbeatTimeout
  <2>q. QED BY <1>1, <2>2, SilentVotes DEF HeartbeatTimeout, nodeVars
<1>2. ASSUME NEW n \in Node, RaftStop(n) \/ Restart(n)
      PROVE  VoteStep
  BY <1>2, SilentVotes DEF RaftStop, Restart, nodeVars
<1>3. ASSUME NEW c \in calls, CallFails(c)
      PROVE  VoteStep
  BY <1>3, SilentVotes DEF CallFails, nodeVars
<1>4. ASSUME NEW c \in calls, HandleAppendEntries(c) \/ HandleAppendEntriesReply(c)
      PROVE  VoteStep
  <2>1. c \in CallType /\ c.kind = "append" /\ c.to \in Node /\ c.from \in Node
    BY <1>4 DEF IInv, RaftTypeOK, CallType, HandleAppendEntries, HandleAppendEntriesReply
  <2>2. \A u, ok : Replied(c, u, ok).kind # "vote"
    BY <2>1 DEF Replied, CallType
  <2>3. \A d \in calls' : d.kind = "vote" => d \in calls
    BY Zenon, <1>4, <2>2 DEF HandleAppendEntries, HandleAppendEntriesReply
  <2>4. ASSUME NEW n \in Node, NEW u, Follow(n, u)
        PROVE  /\ UNCHANGED <<votesReceived, granted>>
               /\ \A m \in Node : state'[m] = "Leader" => state[m] = "Leader"
    BY Zenon, <2>4 DEF Follow, IInv, RaftTypeOK
  <2>5. \/ UNCHANGED <<nodeVars, granted>>
        \/ \E n \in Node : \E u \in 0 .. MaxTerm : Follow(n, u)
    BY Zenon, <1>4, <2>1 DEF HandleAppendEntries, HandleAppendEntriesReply, CallType
  <2>6. /\ UNCHANGED <<votesReceived, granted>>
        /\ \A m \in Node : state'[m] = "Leader" => state[m] = "Leader"
    BY Zenon, <2>4, <2>5 DEF nodeVars
  <2>q. QED BY <2>3, <2>6, SilentVotes
<1>q. QED BY <1>1, <1>2, <1>3, <1>4

-----------------------------------------------------------------------------
(* New nodes are followers of term 0 that have voted for nobody. *)
LEMMA InitInv ==
    ASSUME RaftElectionAssumption, RaftInit
    PROVE  IInv
<1>1. 0 \in 0 .. MaxTerm /\ 0 \in 0 .. MaxStops
  BY DEF RaftElectionAssumption
<1>2. RaftTypeOK
  BY <1>1 DEF RaftInit, RaftTypeOK
<1>q. QED BY <1>2 DEF RaftInit, IInv, VoteIsOfThisTerm, CandidateVotesForItself, CandidateKeepsVote,
                      NoVoteAhead

(* Every step keeps the invariant and takes no node back to an earlier term. *)
LEMMA NextStep ==
    ASSUME RaftElectionAssumption, IInv, RaftNext
    PROVE  IInv' /\ GrowsTerm
<1>1. ASSUME NEW n \in Node,
             ElectionTimeout(n) \/ HeartbeatTimeout(n) \/ RaftStop(n) \/ Restart(n)
      PROVE  IInv' /\ GrowsTerm
  BY <1>1, ElectionTimeoutStep, QuietStep
<1>2. ASSUME NEW c \in calls, Handle(c)
      PROVE  IInv' /\ GrowsTerm
  BY <1>2, RequestVoteStep, RequestVoteReplyStep, AppendEntriesStep, AppendEntriesReplyStep,
     QuietStep DEF Handle
<1>q. QED BY <1>1, <1>2 DEF RaftNext

(* Nothing has changed. *)
LEMMA StutterInv ==
    ASSUME IInv, UNCHANGED raftVars
    PROVE  IInv'
BY DEF IInv, raftVars, nodeVars, RaftTypeOK, VoteIsOfThisTerm, CandidateVotesForItself,
       CandidateKeepsVote, NoVoteAhead

(* The invariant holds in every reachable state. *)
LEMMA Invariant ==
    ASSUME RaftElectionAssumption
    PROVE  RaftSpec => []IInv
<1>1. RaftInit => IInv
  BY InitInv
<1>2. IInv /\ [RaftNext]_raftVars => IInv'
  BY NextStep, StutterInv
<1>q. QED BY <1>1, <1>2, PTL DEF RaftSpec

(* Before the first election nothing is counted. *)
LEMMA InitCast ==
    ASSUME RaftInit
    PROVE  CastInv
BY Zenon DEF RaftInit, CastInv, VotesWereCast

(* Every step keeps every counted vote accounted for. *)
LEMMA NextCast ==
    ASSUME RaftElectionAssumption, IInv, CastInv, RaftNext
    PROVE  CastInv'
<1>1. VoteStep
  BY ElectionTimeoutVotes, RequestVoteVotes, RequestVoteReplyVotes, OtherVotes DEF RaftNext, Handle
<1>q. QED BY <1>1, NextStep, VoteStepKeeps

(* Nor does a step of something else disturb the count. *)
LEMMA StutterCast ==
    ASSUME CastInv, UNCHANGED raftVars
    PROVE  CastInv'
BY Zenon DEF CastInv, VotesWereCast, RequestIsSound, raftVars, nodeVars

(* The second layer of the invariant holds on top of the first. *)
LEMMA CastInvariant ==
    ASSUME RaftElectionAssumption
    PROVE  RaftSpec => []CastInv
<1>1. RaftInit => CastInv
  BY InitCast
<1>2. IInv /\ CastInv /\ [RaftNext]_raftVars => CastInv'
  BY NextCast, StutterCast
<1>q. QED BY <1>1, <1>2, Invariant, PTL DEF RaftSpec

-----------------------------------------------------------------------------
(* The fields of RaftNode and the calls under way keep their types. *)
THEOREM TypeCorrect ==
    ASSUME RaftElectionAssumption
    PROVE  RaftSpec => []RaftTypeOK
<1>1. IInv => RaftTypeOK
  BY DEF IInv
<1>q. QED BY <1>1, Invariant, PTL

(* HandleRequestVote, becomeFollower and becomeCandidate: a vote in votedFor *)
(* was given in the node's current term, and a candidate has voted for       *)
(* itself alone.  handleRequestVoteReply and checkElectionWin: every vote a  *)
(* node counts was cast for it, and a leader has a majority of them.         *)
THEOREM Votes ==
    ASSUME RaftElectionAssumption
    PROVE  RaftSpec => []VotesAreKept
<1>1. IInv /\ CastInv => VotesAreKept
  BY DEF IInv, CastInv, VotesAreKept
<1>q. QED BY <1>1, Invariant, CastInvariant, PTL

(* No handler, whatever order requests and replies come in, takes a node     *)
(* back to an earlier term, and a leader steps down only for a later one.    *)
THEOREM TermsOnlyGrow ==
    ASSUME RaftElectionAssumption
    PROVE  RaftSpec => TermsGrow
<1>1. IInv /\ [RaftNext]_raftVars => [GrowsTerm]_raftVars
  BY NextStep
<1>q. QED BY <1>1, Invariant, PTL DEF RaftSpec, TermsGrow
=============================================================================
