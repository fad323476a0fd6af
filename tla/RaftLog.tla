------------------------------ MODULE RaftLog ------------------------------
(***************************************************************************)
(* Log replication in raftlog.RaftNode: AppendEntries and its replies,     *)
(* commitment, application to the state machine, log compaction and        *)
(* snapshot installation, with a fixed set of nodes.                       *)
(*                                                                         *)
(* Elections are coarser here than in RaftElection: a candidate collects   *)
(* its votes in one step, and it wins only a term that has no leader yet.  *)
(* RaftElection shows that the code does not guarantee the latter; RaftLog *)
(* is about the behaviours in which it holds.                              *)
(*                                                                         *)
(* sendHeartbeats reads term and commitIndex under n.mu, and the goroutine *)
(* it spawns for a target reads nextIndex and the log under n.mu again:    *)
(* call stages "prep" and "append".  lastSnapshotIndex always equals       *)
(* logOffset.  An entry is stored at position index - logOffset of a slice *)
(* that starts with the entry at logOffset (a dummy at first), except that *)
(* HandleInstallSnapshot leaves the slice empty.                           *)
(***************************************************************************)
EXTENDS Integers, FiniteSets, Sequences, SequencesExt

CONSTANTS Node, Value, NoVal,
          MaxTerm, MaxIndex, MaxCalls,   \* bounds on terms, entries, calls under way
          Compaction                     \* whether CompactLog is ever called

VARIABLES
    state, currentTerm, votedFor,
    log, logOffset, lastSnapshotTerm, commitIndex, lastApplied,
    sm,                      \* sm[n]: the commands the state machine of n has applied
    nextIndex, matchIndex,
    calls,                   \* goroutines of sendHeartbeats under way
    led                      \* the terms that have had a leader

electVars == <<state, currentTerm, votedFor>>
logVars == <<log, logOffset, lastSnapshotTerm>>
doneVars == <<commitIndex, lastApplied, sm>>
leadVars == <<nextIndex, matchIndex>>
vars == <<electVars, logVars, doneVars, leadVars, calls, led>>

Init ==
    /\ state = [n \in Node |-> "Follower"]
    /\ currentTerm = [n \in Node |-> 0]
    /\ votedFor = [n \in Node |-> NoVal]
    /\ log = [n \in Node |-> <<[index |-> 0, term |-> 0, val |-> NoVal]>>]
    /\ logOffset = [n \in Node |-> 0]
    /\ lastSnapshotTerm = [n \in Node |-> 0]
    /\ commitIndex = [n \in Node |-> 0]
    /\ lastApplied = [n \in Node |-> 0]
    /\ sm = [n \in Node |-> <<>>]
    /\ nextIndex = [n \in Node |-> [m \in Node |-> 0]]
    /\ matchIndex = [n \in Node |-> [m \in Node |-> 0]]
    /\ calls = {}
    /\ led = {}

Quorum == Cardinality(Node) \div 2 + 1

(* The slice operations, on a slice lg whose first index is off. *)
Missing == [index |-> -1, term |-> -1, val |-> NoVal]

EntryAt(lg, off, i) ==
    IF i < off \/ i - off >= Len(lg) THEN Missing ELSE lg[i - off + 1]

LastOf(lg, off) == IF lg = <<>> THEN off ELSE Last(lg).index

GetLogEntry(n, i) == EntryAt(log[n], logOffset[n], i)
LastLogIndex(n) == LastOf(log[n], logOffset[n])
LastLogTerm(n) == IF log[n] = <<>> THEN lastSnapshotTerm[n] ELSE Last(log[n]).term

MaxOr(S, default) == IF S = {} THEN default ELSE CHOOSE x \in S : \A y \in S : y <= x

-----------------------------------------------------------------------------
(* handleElectionTimeout *)
ElectionTimeout(n) ==
    /\ state[n] # "Leader" /\ currentTerm[n] < MaxTerm
    /\ state' = [state EXCEPT ![n] = "Candidate"]
    /\ currentTerm' = [currentTerm EXCEPT ![n] = @ + 1]
    /\ votedFor' = [votedFor EXCEPT ![n] = n]
    /\ UNCHANGED <<logVars, doneVars, leadVars, calls, led>>

(* isLogUpToDate, asked of voter m about candidate n. *)
IsLogUpToDate(m, n) ==
    \/ LastLogTerm(n) > LastLogTerm(m)
    \/ LastLogTerm(n) = LastLogTerm(m) /\ LastLogIndex(n) >= LastLogIndex(m)

(* HandleRequestVote at the voters Q, the replies, and becomeLeader. *)
WinElection(n, Q) ==
    /\ state[n] = "Candidate" /\ n \in Q /\ Cardinality(Q) >= Quorum
    /\ currentTerm[n] \notin led
    /\ \A m \in Q \ {n} :
          /\ \/ currentTerm[m] < currentTerm[n]
             \/ currentTerm[m] = currentTerm[n] /\ votedFor[m] \in {NoVal, n}
          /\ IsLogUpToDate(m, n)
    /\ state' = [m \in Node |->
          IF m = n THEN "Leader"
          ELSE IF m \in Q /\ currentTerm[m] < currentTerm[n] THEN "Follower" ELSE state[m]]
    /\ currentTerm' = [m \in Node |-> IF m \in Q THEN currentTerm[n] ELSE currentTerm[m]]
    /\ votedFor' = [m \in Node |-> IF m = n THEN NoVal ELSE IF m \in Q THEN n ELSE votedFor[m]]
    /\ nextIndex' = [nextIndex EXCEPT ![n] = [m \in Node |-> LastLogIndex(n) + 1]]
    /\ matchIndex' = [matchIndex EXCEPT ![n] = [m \in Node |-> 0]]
    /\ led' = led \cup {currentTerm[n]}
    /\ UNCHANGED <<logVars, doneVars, calls>>

(* becomeFollower inside a handler. *)
Follow(n, t) ==
    /\ state' = [state EXCEPT ![n] = "Follower"]
    /\ currentTerm' = [currentTerm EXCEPT ![n] = t]
    /\ votedFor' = [votedFor EXCEPT ![n] = NoVal]

-----------------------------------------------------------------------------
(* Propose: refused while a snapshot is on its way to some follower. *)
SnapshotInFlight(n) ==
    \E c \in calls : c.from = n /\ c.stage \in {"snap", "install", "installed"}

Propose(n, v) ==
    /\ state[n] = "Leader" /\ ~ SnapshotInFlight(n)
    /\ LastLogIndex(n) < MaxIndex
    /\ log' = [log EXCEPT ![n] = Append(@, [index |-> LastLogIndex(n) + 1,
                                            term |-> currentTerm[n], val |-> v])]
    /\ UNCHANGED <<electVars, logOffset, lastSnapshotTerm, doneVars, leadVars, calls, led>>

(* sendHeartbeats, on the timer, after winning or after Propose.  That a     *)
(* goroutine is spawned for every target matters only through its effects.   *)
SendHeartbeat(n, m) ==
    /\ state[n] = "Leader" /\ m # n /\ Cardinality(calls) < MaxCalls
    /\ calls' = calls \cup {[stage |-> "prep", from |-> n, to |-> m,
                             term |-> currentTerm[n], commit |-> commitIndex[n]]}
    /\ UNCHANGED <<electVars, logVars, doneVars, leadVars, led>>

(* The goroutine builds its request, from whatever the node is by now. *)
Prepared(c) ==
    LET n == c.from
        next == IF nextIndex[n][c.to] = 0 THEN LastLogIndex(n) + 1 ELSE nextIndex[n][c.to]
        start == next - logOffset[n]
        prev == GetLogEntry(n, next - 1)
    IN IF next <= logOffset[n]
       THEN [stage |-> "snap", from |-> n, to |-> c.to, term |-> currentTerm[n],
             last |-> logOffset[n], lastTerm |-> lastSnapshotTerm[n]]
       ELSE [stage |-> "append", from |-> n, to |-> c.to, term |-> c.term, commit |-> c.commit,
             prev |-> next - 1,
             prevTerm |-> IF prev = Missing THEN 0 ELSE prev.term,
             entries |-> IF next <= LastLogIndex(n) /\ start < Len(log[n])
                         THEN SubSeq(log[n], start + 1, Len(log[n])) ELSE <<>>]

Prepare(c) ==
    /\ c.stage = "prep"
    /\ calls' = (calls \ {c}) \cup {Prepared(c)}
    /\ UNCHANGED <<electVars, logVars, doneVars, leadVars, led>>

(* The target is not registered with the transport: the goroutine ends. *)
CallFails(c) ==
    /\ c.stage \in {"append", "install"}
    /\ calls' = calls \ {c}
    /\ UNCHANGED <<electVars, logVars, doneVars, leadVars, led>>

-----------------------------------------------------------------------------
(* Why n refuses a request's predecessor, as ConflictIndex and ConflictTerm. *)
Conflict(n, c) ==
    LET prev == GetLogEntry(n, c.prev)
        cTerm == IF prev = Missing THEN 0 ELSE prev.term
        before == {i \in logOffset[n] .. c.prev - 1 :
                      /\ GetLogEntry(n, i) # Missing
                      /\ cTerm = 0 \/ GetLogEntry(n, i).term # cTerm}
    IN IF c.prev = 0 THEN {}
       ELSE IF c.prev < logOffset[n] THEN {<<logOffset[n] + 1, lastSnapshotTerm[n]>>}
       ELSE IF c.prev > LastLogIndex(n) THEN {<<LastLogIndex(n) + 1, -1>>}
       ELSE IF prev # Missing /\ prev.term = c.prevTerm THEN {}
       ELSE {<<MaxOr(before, logOffset[n]) + 1, cTerm>>}


(* One round of the loop over req.Entries. *)
Insert(off, acc, e) ==
    LET old == EntryAt(acc.lg, off, acc.i)
    IN [i |-> acc.i + 1,
        lg |-> IF acc.i > LastOf(acc.lg, off) THEN Append(acc.lg, e)
               ELSE IF old # Missing /\ old.term # e.term
               THEN Append(SubSeq(acc.lg, 1, acc.i - off), e)
               ELSE acc.lg]

Inserted(n, c) ==
    FoldLeft(LAMBDA acc, e : Insert(logOffset[n], acc, e),
             [i |-> c.prev + 1, lg |-> log[n]], c.entries).lg

Answer(c, t, ok, match, conflict) ==
    [stage |-> "appended", from |-> c.from, to |-> c.to, term |-> t, ok |-> ok,
     match |-> match, conflict |-> conflict]

(* The commit index after an accepted request. *)
CommitLearnt(n, c) ==
    LET last == c.prev + Len(c.entries)
    IN IF c.commit <= commitIndex[n] THEN commitIndex[n]
       ELSE IF c.commit < last THEN c.commit ELSE last

(* HandleAppendEntries.  A refused predecessor is reported with the term the *)
(* node had before it adopted the request's.                                 *)
HandleAppendEntries(c) ==
    /\ c.stage = "append"
    /\ LET n == c.to
           follow == c.term > currentTerm[n] \/ (c.term = currentTerm[n] /\ state[n] = "Candidate")
       IN IF c.term < currentTerm[n]
          THEN /\ calls' = (calls \ {c}) \cup {Answer(c, currentTerm[n], FALSE, 0, <<0, 0>>)}
               /\ UNCHANGED <<electVars, log, commitIndex>>
          ELSE /\ IF follow THEN Follow(n, c.term) ELSE UNCHANGED electVars
               /\ IF Conflict(n, c) # {}
                  THEN /\ \E x \in Conflict(n, c) :
                             calls' = (calls \ {c}) \cup {Answer(c, currentTerm[n], FALSE, 0, x)}
                       /\ UNCHANGED <<log, commitIndex>>
                  ELSE /\ log' = [log EXCEPT ![n] = Inserted(n, c)]
                       /\ commitIndex' = [commitIndex EXCEPT ![n] = CommitLearnt(n, c)]
                       /\ calls' = (calls \ {c}) \cup
                             {Answer(c, c.term, TRUE, c.prev + Len(c.entries), <<0, 0>>)}
    /\ UNCHANGED <<logOffset, lastSnapshotTerm, lastApplied, sm, leadVars, led>>

(* updateCommitIndex, with n's matchIndex. *)
CommitPoint(n, match) ==
    MaxOr({i \in commitIndex[n] + 1 .. LastLogIndex(n) :
              /\ GetLogEntry(n, i).term = currentTerm[n]
              /\ 1 + Cardinality({m \in Node \ {n} : match[m] >= i}) >= Quorum},
          commitIndex[n])

(* handleAppendEntriesReply *)
HandleAppendEntriesReply(c) ==
    /\ c.stage = "appended"
    /\ calls' = calls \ {c}
    /\ LET n == c.from
           match == [matchIndex[n] EXCEPT ![c.to] = c.match]
           same == {i \in logOffset[n] .. LastLogIndex(n) : GetLogEntry(n, i).term = c.conflict[2]}
           back == IF c.conflict[2] < 0 \/ same = {} THEN c.conflict[1] ELSE MaxOr(same, 0) + 1
       IN IF state[n] # "Leader" \/ c.term < currentTerm[n]
          THEN UNCHANGED <<electVars, leadVars, commitIndex>>
          ELSE IF c.term > currentTerm[n]
          THEN Follow(n, c.term) /\ UNCHANGED <<leadVars, commitIndex>>
          ELSE IF c.ok
          THEN /\ matchIndex' = [matchIndex EXCEPT ![n] = match]
               /\ nextIndex' = [nextIndex EXCEPT ![n][c.to] = c.match + 1]
               /\ commitIndex' = [commitIndex EXCEPT ![n] = CommitPoint(n, match)]
               /\ UNCHANGED electVars
          ELSE /\ nextIndex' = [nextIndex EXCEPT ![n][c.to] = IF back < 1 THEN 1 ELSE back]
               /\ UNCHANGED <<electVars, matchIndex, commitIndex>>
    /\ UNCHANGED <<logVars, lastApplied, sm, led>>

(* applyCommitted skips an index that the log does not have. *)
Applicable(n) ==
    SelectSeq([k \in 1 .. commitIndex[n] - lastApplied[n] |-> GetLogEntry(n, lastApplied[n] + k)],
              LAMBDA e : e # Missing)

(* A round of applyLoop. *)
ApplyLoop(n) ==
    /\ lastApplied[n] < commitIndex[n]
    /\ sm' = [sm EXCEPT ![n] = @ \o [k \in 1 .. Len(Applicable(n)) |-> Applicable(n)[k].val]]
    /\ lastApplied' = [lastApplied EXCEPT ![n] = commitIndex[n]]
    /\ UNCHANGED <<electVars, logVars, commitIndex, leadVars, calls, led>>

-----------------------------------------------------------------------------
(* CompactLog: the caller chooses any committed index. *)
CompactLog(n, i) ==
    /\ Compaction
    /\ i <= commitIndex[n] /\ i > logOffset[n] /\ GetLogEntry(n, i) # Missing
    /\ lastSnapshotTerm' = [lastSnapshotTerm EXCEPT ![n] = GetLogEntry(n, i).term]
    /\ log' = [log EXCEPT ![n] = SubSeq(@, i - logOffset[n] + 1, Len(@))]
    /\ logOffset' = [logOffset EXCEPT ![n] = i]
    /\ UNCHANGED <<electVars, doneVars, leadVars, calls, led>>

(* The goroutine reads the state machine after it has released n.mu. *)
TakeSnapshot(c) ==
    /\ c.stage = "snap"
    /\ calls' = (calls \ {c}) \cup
          {[stage |-> "install", from |-> c.from, to |-> c.to, term |-> c.term,
            last |-> c.last, lastTerm |-> c.lastTerm, data |-> sm[c.from]]}
    /\ UNCHANGED <<electVars, logVars, doneVars, leadVars, led>>

HandleInstallSnapshot(c) ==
    /\ c.stage = "install"
    /\ LET n == c.to
           stale == c.term < currentTerm[n]
       IN /\ IF c.term > currentTerm[n] THEN Follow(n, c.term) ELSE UNCHANGED electVars
          /\ IF stale \/ c.last <= logOffset[n]
             THEN UNCHANGED <<logVars, doneVars>>
             ELSE /\ sm' = [sm EXCEPT ![n] = c.data]
                  /\ lastSnapshotTerm' = [lastSnapshotTerm EXCEPT ![n] = c.lastTerm]
                  /\ logOffset' = [logOffset EXCEPT ![n] = c.last]
                  /\ log' = [log EXCEPT ![n] = <<>>]
                  /\ commitIndex' = [commitIndex EXCEPT ![n] = IF c.last > @ THEN c.last ELSE @]
                  /\ lastApplied' = [lastApplied EXCEPT ![n] = IF c.last > @ THEN c.last ELSE @]
          /\ calls' = (calls \ {c}) \cup {[stage |-> "installed", from |-> c.from, to |-> n,
                                           term |-> currentTerm[n], ok |-> ~ stale]}
    /\ UNCHANGED <<leadVars, led>>

HandleInstallSnapshotReply(c) ==
    /\ c.stage = "installed"
    /\ calls' = calls \ {c}
    /\ LET n == c.from IN
       IF state[n] # "Leader" \/ c.term < currentTerm[n]
       THEN UNCHANGED <<electVars, leadVars>>
       ELSE IF c.term > currentTerm[n]
       THEN Follow(n, c.term) /\ UNCHANGED leadVars
       ELSE /\ matchIndex' = [matchIndex EXCEPT ![n][c.to] = IF c.ok THEN logOffset[n] ELSE @]
            /\ nextIndex' = [nextIndex EXCEPT ![n][c.to] = IF c.ok THEN logOffset[n] + 1 ELSE @]
            /\ UNCHANGED electVars
    /\ UNCHANGED <<logVars, doneVars, led>>

-----------------------------------------------------------------------------
NodeStep(n) ==
    \/ ElectionTimeout(n)
    \/ \E Q \in SUBSET Node : WinElection(n, Q)
    \/ \E v \in Value : Propose(n, v)
    \/ \E m \in Node : SendHeartbeat(n, m)
    \/ ApplyLoop(n)
    \/ \E i \in 1 .. MaxIndex : CompactLog(n, i)

CallStep(c) ==
    \/ Prepare(c) \/ CallFails(c) \/ HandleAppendEntries(c) \/ HandleAppendEntriesReply(c)
    \/ TakeSnapshot(c) \/ HandleInstallSnapshot(c) \/ HandleInstallSnapshotReply(c)

Next == (\E n \in Node : NodeStep(n)) \/ (\E c \in calls : CallStep(c))

Spec == Init /\ [][Next]_vars

-----------------------------------------------------------------------------
IndexesOf(n) == {log[n][k].index : k \in 1 .. Len(log[n])}

TypeOK ==
    /\ state \in [Node -> {"Follower", "Candidate", "Leader"}]
    /\ currentTerm \in [Node -> 0 .. MaxTerm]
    /\ votedFor \in [Node -> Node \cup {NoVal}]
    /\ \A n \in Node : IndexesOf(n) \subseteq 0 .. MaxIndex
    /\ \A n \in Node : commitIndex[n] \in 0 .. MaxIndex /\ lastApplied[n] \in 0 .. commitIndex[n]
    /\ led \subseteq 1 .. MaxTerm

(* Two logs that have an entry of one index and term agree on it and on all  *)
(* that both keep before it.                                                 *)
LogMatching ==
    \A n, m \in Node : n # m =>
        LET both == IndexesOf(n) \cap IndexesOf(m) IN
        \A i \in both : GetLogEntry(n, i).term = GetLogEntry(m, i).term =>
            \A j \in both : j <= i => GetLogEntry(n, j) = GetLogEntry(m, j)

(* A leader has every entry that a node of its own or an earlier term        *)
(* believes committed.                                                       *)
LeaderCompleteness ==
    \A n, m \in Node :
        state[n] = "Leader" /\ currentTerm[m] <= currentTerm[n] =>
            \A i \in 1 .. commitIndex[m] :
                GetLogEntry(m, i) # Missing /\ i >= logOffset[n] =>
                    GetLogEntry(n, i) = GetLogEntry(m, i)

(* docs/raftlog.md: every state machine applies the same commands in the     *)
(* same order.                                                               *)
StateMachineSafety ==
    \A n, m \in Node : IsPrefix(sm[n], sm[m]) \/ IsPrefix(sm[m], sm[n])

(* What a node believes committed is never removed, replaced or doubted,     *)
(* whatever old requests still arrive.                                       *)
StaysCommitted ==
    \A n \in Node :
        /\ commitIndex'[n] >= commitIndex[n]
        /\ \A i \in logOffset'[n] .. commitIndex[n] :
              GetLogEntry(n, i) # Missing => GetLogEntry(n, i)' = GetLogEntry(n, i)

CommittedStays == [][StaysCommitted]_vars
=============================================================================
