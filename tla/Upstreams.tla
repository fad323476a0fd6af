----------------------------- MODULE Upstreams ------------------------------
(*****************************************************************************)
(* What the program reaches over the network: the streams of tcpproxy        *)
(* multiplexed over one connection, its health checks with balancing (the    *)
(* connection pool is ProxyPool), and the names of dnsresolver. The parts    *)
(* share no state; each has its own specification.                           *)
(*****************************************************************************)
EXTENDS Integers, Sequences, SequencesExt, FiniteSets

(***************************************************************************)
(* tcpproxy.MuxConn and Stream: the two ends of one connection.  The end   *)
(* "c" opens streams, the end "s" gets them in onStream.  Each stream has  *)
(* an owner at each end that writes, reads and at last closes it.  A frame *)
(* is a type, a stream and, for DATA, the number of the write.  FIN, RST   *)
(* and SYNC are written in one step with the change they belong to.        *)
(***************************************************************************)

CONSTANTS
    MaxStreams, MaxWrites,  \* bounds: streams, and writes of an owner
    Writers,                \* bound: the ends whose owners write
    Cap,                    \* capacity of readCh
    MayBreak                \* whether the connection may fail

MuxEnd == {"c", "s"}
Id == 1 .. MaxStreams
Other(e) == IF e = "c" THEN "s" ELSE "c"

VARIABLES
    pipe,       \* frames on their way to an end
    broken,     \* the connection has failed or an end has closed it
    muxClosed,     \* MuxConn.closed and stopCh
    muxLoop,       \* readLoop: the frame it handles, Idle, or Ended
    nextStream,
    st,         \* per end and id, the Stream
    muxSent, got   \* what the owner has written and read

muxVars == <<pipe, broken, muxClosed, muxLoop, nextStream, st, muxSent, got>>

MuxFrame(t, id, d) == [t |-> t, id |-> id, d |-> d]
MuxIdle == MuxFrame("idle", 0, 0)
Ended == MuxFrame("ended", 0, 0)

(* made: the object exists; reg: it is in the map streams; own: its owner    *)
(* has called Close; wr: a Write has passed its checks; orphan: it was put   *)
(* into the map after the map had been cleared for good                      *)
Absent == [made |-> FALSE, reg |-> FALSE, closed |-> FALSE, finSent |-> FALSE, finRecv |-> FALSE,
           ch |-> <<>>, open |-> FALSE, once |-> FALSE, own |-> FALSE, wr |-> 0, eof |-> FALSE, orphan |-> FALSE]
newStream(late) == [Absent EXCEPT !.made = TRUE, !.reg = TRUE, !.open = TRUE, !.orphan = late]

MuxTypeOK ==
    /\ broken \in BOOLEAN /\ muxClosed \in [MuxEnd -> BOOLEAN] /\ nextStream \in 0 .. MaxStreams
    /\ \A e \in MuxEnd : muxLoop[e].t \in {"idle", "ended", "SYNC", "DATA", "FIN", "RST", "close"}
    /\ \A e \in MuxEnd, i \in Id : Len(st[e][i].ch) <= Cap /\ st[e][i].wr \in 0 .. MaxWrites

(* writeFrame: nothing is written on a closed MuxConn; on a connection that  *)
(* fails the frame is lost.                                                  *)
MuxWritten(e, f) == IF muxClosed[e] \/ broken THEN pipe ELSE [pipe EXCEPT ![Other(e)] = Append(@, f)]

(* cleanupOnError: every stream of the map is closed and the map emptied *)
Cleared(s) == [i \in Id |-> IF s[i].reg THEN [s[i] EXCEPT !.closed = TRUE, !.open = FALSE, !.reg = FALSE] ELSE s[i]]
cleanupOnError(e) ==
    /\ muxClosed' = [muxClosed EXCEPT ![e] = TRUE] /\ broken' = TRUE
    /\ st' = IF muxClosed[e] THEN st ELSE [st EXCEPT ![e] = Cleared(@)]

(* Stream.Close, run once: FIN unless it was sent; readCh is closed *)
Closing(s) == [s EXCEPT !.closed = TRUE, !.open = FALSE, !.once = TRUE, !.finSent = TRUE]
FinWritten(e, i) == IF st[e][i].once \/ st[e][i].finSent THEN pipe ELSE MuxWritten(e, MuxFrame("FIN", i, 0))

(***************************************************************************)
(* The owners                                                              *)
(***************************************************************************)
NewStream ==
    /\ ~ muxClosed["c"] /\ nextStream < MaxStreams
    /\ nextStream' = nextStream + 1
    /\ LET f == MuxFrame("SYNC", nextStream + 1, 0)
       IN IF broken THEN UNCHANGED <<st, pipe>>
          ELSE st' = [st EXCEPT !["c"][nextStream + 1] = newStream(FALSE)] /\ pipe' = MuxWritten("c", f)
    /\ UNCHANGED <<broken, muxClosed, muxLoop, muxSent, got>>

Busy(e, i) == st[e][i].made /\ ~ st[e][i].own

(* Write looks at the flags and then writes the frame. *)
Write(e, i) ==
    /\ e \in Writers /\ Busy(e, i) /\ st[e][i].wr = 0 /\ ~ st[e][i].closed /\ ~ muxClosed[e] /\ Len(muxSent[e][i]) < MaxWrites
    /\ st' = [st EXCEPT ![e][i].wr = Len(muxSent[e][i]) + 1]
    /\ UNCHANGED <<pipe, broken, muxClosed, muxLoop, nextStream, muxSent, got>>

WriteData(e, i) ==
    /\ st[e][i].wr # 0
    /\ st' = [st EXCEPT ![e][i].wr = 0]
    /\ pipe' = MuxWritten(e, MuxFrame("DATA", i, st[e][i].wr))
    /\ muxSent' = IF muxClosed[e] \/ broken THEN muxSent ELSE [muxSent EXCEPT ![e][i] = Append(@, st[e][i].wr)]
    /\ UNCHANGED <<broken, muxClosed, muxLoop, nextStream, got>>

Read(e, i) ==
    /\ Busy(e, i) /\ ~ st[e][i].eof
    /\ \/ /\ st[e][i].ch # <<>>
          /\ got' = [got EXCEPT ![e][i] = Append(@, Head(st[e][i].ch))]
          /\ st' = [st EXCEPT ![e][i].ch = Tail(@)]
       \/ /\ st[e][i].ch = <<>> /\ (st[e][i].closed \/ ~ st[e][i].open)
          /\ st' = [st EXCEPT ![e][i].eof = TRUE] /\ UNCHANGED got
    /\ UNCHANGED <<pipe, broken, muxClosed, muxLoop, nextStream, muxSent>>

CloseStream(e, i) ==
    /\ Busy(e, i) /\ st[e][i].wr = 0
    /\ pipe' = FinWritten(e, i)
    /\ st' = [st EXCEPT ![e][i] = [Closing(@) EXCEPT !.own = TRUE]]
    /\ UNCHANGED <<broken, muxClosed, muxLoop, nextStream, muxSent, got>>

(* handleStream without an upstream: RST, and the deferred Close. *)
Refuse(i) ==
    /\ Busy("s", i) /\ st["s"][i].wr = 0 /\ muxSent["s"][i] = <<>> /\ got["s"][i] = <<>>
    /\ LET rst == MuxFrame("RST", i, 0)
           fin == IF st["s"][i].once \/ st["s"][i].finSent THEN <<>> ELSE <<MuxFrame("FIN", i, 0)>>
       IN pipe' = IF muxClosed["s"] \/ broken THEN pipe ELSE [pipe EXCEPT !["c"] = @ \o <<rst>> \o fin]
    /\ st' = [st EXCEPT !["s"][i] = [Closing(@) EXCEPT !.own = TRUE]]
    /\ UNCHANGED <<broken, muxClosed, muxLoop, nextStream, muxSent, got>>

(***************************************************************************)
(* readLoop                                                                *)
(***************************************************************************)
Decode(e) ==
    /\ muxLoop[e] = MuxIdle /\ ~ muxClosed[e] /\ pipe[e] # <<>>
    /\ muxLoop' = [muxLoop EXCEPT ![e] = Head(pipe[e])] /\ pipe' = [pipe EXCEPT ![e] = Tail(@)]
    /\ UNCHANGED <<broken, muxClosed, nextStream, st, muxSent, got>>

(* stopCh is closed, or the connection is at its end; what was under way  *)
(* may be lost.                                                           *)
ReadEnds(e) ==
    /\ muxLoop[e] = MuxIdle /\ (muxClosed[e] \/ broken)
    /\ cleanupOnError(e) /\ muxLoop' = [muxLoop EXCEPT ![e] = Ended]
    /\ UNCHANGED <<pipe, nextStream, muxSent, got>>

Handled(e) == muxLoop' = [muxLoop EXCEPT ![e] = MuxIdle] /\ UNCHANGED <<broken, muxClosed, nextStream, muxSent, got>>

HandleSync(e) ==
    /\ muxLoop[e].t = "SYNC"
    /\ st' = [st EXCEPT ![e][muxLoop[e].id] = newStream(muxClosed[e])]
    /\ Handled(e) /\ UNCHANGED pipe

(* pushData waits for room in readCh; when readCh is closed meanwhile, the   *)
(* send panics, which is recovered, and the data is dropped                  *)
HandleData(e) ==
    /\ muxLoop[e].t = "DATA"
    /\ LET s == st[e][muxLoop[e].id]
           dropped == ~ s.reg \/ s.closed \/ ~ s.open
       IN /\ dropped \/ Len(s.ch) < Cap
          /\ st' = IF dropped THEN st ELSE [st EXCEPT ![e][muxLoop[e].id].ch = Append(@, muxLoop[e].d)]
    /\ Handled(e) /\ UNCHANGED pipe

(* handleFin under streamMu, then Close when no FIN was sent *)
HandleFin(e) ==
    /\ muxLoop[e].t = "FIN"
    /\ LET i == muxLoop[e].id
           s == st[e][i]
       IN IF s.reg
          THEN /\ st' = [st EXCEPT ![e][i] = [@ EXCEPT !.finRecv = TRUE, !.closed = TRUE, !.open = FALSE, !.reg = ~ s.finSent]]
               /\ muxLoop' = [muxLoop EXCEPT ![e] = IF s.finSent THEN MuxIdle ELSE MuxFrame("close", i, 0)]
          ELSE UNCHANGED st /\ muxLoop' = [muxLoop EXCEPT ![e] = MuxIdle]
    /\ UNCHANGED <<pipe, broken, muxClosed, nextStream, muxSent, got>>

FinAnswered(e) ==
    /\ muxLoop[e].t = "close"
    /\ pipe' = FinWritten(e, muxLoop[e].id)
    /\ st' = [st EXCEPT ![e][muxLoop[e].id] = Closing(@)]
    /\ Handled(e)

HandleRst(e) ==
    /\ muxLoop[e].t = "RST"
    /\ LET i == muxLoop[e].id
       IN st' = IF st[e][i].reg THEN [st EXCEPT ![e][i].reg = FALSE, ![e][i].closed = TRUE, ![e][i].open = FALSE] ELSE st
    /\ Handled(e) /\ UNCHANGED pipe

(***************************************************************************)
(* MuxConn.Close, or a failure of the network                              *)
(***************************************************************************)
CloseMux(e) ==
    /\ ~ muxClosed[e] /\ cleanupOnError(e)
    /\ UNCHANGED <<pipe, muxLoop, nextStream, muxSent, got>>

Breaks ==
    /\ MayBreak /\ ~ broken /\ broken' = TRUE
    /\ UNCHANGED <<pipe, muxClosed, muxLoop, nextStream, st, muxSent, got>>

MuxInit ==
    /\ pipe = [e \in MuxEnd |-> <<>>] /\ broken = FALSE /\ muxClosed = [e \in MuxEnd |-> FALSE]
    /\ muxLoop = [e \in MuxEnd |-> MuxIdle] /\ nextStream = 0
    /\ st = [e \in MuxEnd |-> [i \in Id |-> Absent]]
    /\ muxSent = [e \in MuxEnd |-> [i \in Id |-> <<>>]] /\ got = [e \in MuxEnd |-> [i \in Id |-> <<>>]]

MuxNext ==
    \/ NewStream \/ Breaks \/ \E i \in Id : Refuse(i)
    \/ \E e \in MuxEnd, i \in Id : Write(e, i) \/ WriteData(e, i) \/ Read(e, i) \/ CloseStream(e, i)
    \/ \E e \in MuxEnd : \/ Decode(e) \/ ReadEnds(e) \/ HandleSync(e) \/ HandleData(e) \/ HandleFin(e)
                      \/ FinAnswered(e) \/ HandleRst(e) \/ (MayBreak /\ CloseMux(e))

-----------------------------------------------------------------------------
(* An owner reads what the other owner wrote, in its order, and once it is  *)
(* told the end, by a FIN it did not ask for with its own Close, it has all. *)
StreamDelivers ==
    \A e \in MuxEnd, i \in Id :
        /\ IsPrefix(got[e][i] \o st[e][i].ch, muxSent[Other(e)][i])
        /\ st[e][i].finRecv /\ st[e][i].eof => got[e][i] = muxSent[Other(e)][i]

(* When readLoop has ended nobody is left waiting: every stream has been    *)
(* closed, unless its SYNC was being handled while Close cleared the map.   *)
NoOrphanReader ==
    \A e \in MuxEnd : muxLoop[e] = Ended =>
        \A i \in Id : st[e][i].made /\ ~ st[e][i].orphan => st[e][i].closed /\ ~ st[e][i].open

(* A stream that both owners have closed is not closed on one end only.     *)
ClosedOnBothEnds ==
    \A i \in Id : \A e \in MuxEnd :
        st[e][i].own /\ ~ broken /\ pipe[Other(e)] = <<>> /\ muxLoop[Other(e)] = MuxIdle /\ st[Other(e)][i].made =>
            st[Other(e)][i].closed

-----------------------------------------------------------------------------
(***************************************************************************)
(* tcpproxy.HealthChecker with the IPHashBalancer that follows it.  An     *)
(* Upstream object is a pair of an address and a number: an address that   *)
(* is removed and added again gets a new object.  The hash of a client     *)
(* over a list in the order of a map is a choice.  Each client has one     *)
(* call of GetUpstream at a time.                                          *)
(***************************************************************************)

CONSTANTS Addr, Client, FailThreshold, PassThreshold,
          MaxObjects, MaxRounds, MaxCalls   \* bounds: objects of an address, calls of checkAll, of GetUpstream

VARIABLES
    made,       \* objects made of an address
    upstreams,  \* address -> [obj, failCount, passCount], or Gone
    healthy,    \* the objects that are healthy
    chk,        \* checkAll: [todo, addr, obj]
    mapping,    \* client -> address or "none"
    healthCall,       \* client -> [pc, snap, last, n]: last is what the latest call returned
    rounds,
    streak,     \* object -> [ok, n]: its latest probe and how many in a row agree
    kept        \* clients whose latest upstream has been registered and healthy ever since

healthVars == <<made, upstreams, healthy, chk, mapping, healthCall, rounds, streak, kept>>

Object == Addr \X (1 .. MaxObjects)
Gone == [obj |-> <<"none", 0>>, failCount |-> 0, passCount |-> 0]
Registered == {a \in Addr : upstreams[a] # Gone}
HealthRest == [todo |-> {}, addr |-> "none", obj |-> <<"none", 0>>]

HealthTypeOK ==
    /\ healthy \subseteq Object /\ kept \subseteq Client
    /\ \A a \in Registered : upstreams[a].obj[1] = a /\ upstreams[a].failCount * upstreams[a].passCount = 0
    /\ \A c \in Client : mapping[c] \in Addr \cup {"none"} /\ healthCall[c].snap \subseteq Addr

Dropped(a) == {c \in kept : healthCall[c].last # a}

AddUpstream(a) ==
    /\ made[a] < MaxObjects /\ made' = [made EXCEPT ![a] = @ + 1]
    /\ LET o == <<a, made[a] + 1>>
       IN upstreams' = [upstreams EXCEPT ![a] = [Gone EXCEPT !.obj = o]] /\ healthy' = healthy \cup {o}
    /\ UNCHANGED <<chk, mapping, healthCall, rounds, streak, kept>>

RemoveUpstream(a) ==
    /\ a \in Registered /\ upstreams' = [upstreams EXCEPT ![a] = Gone] /\ kept' = Dropped(a)
    /\ UNCHANGED <<made, healthy, chk, mapping, healthCall, rounds, streak>>

(***************************************************************************)
(* checkAll copies the addresses; checkOne looks the object up, probes it  *)
(* without the lock and applies the result if it is still the object of    *)
(* the address.  onChange runs with the lock held.                         *)
(***************************************************************************)
CheckAll ==
    /\ chk = HealthRest /\ Registered # {} /\ rounds < MaxRounds /\ rounds' = rounds + 1
    /\ chk' = [HealthRest EXCEPT !.todo = Registered]
    /\ UNCHANGED <<made, upstreams, healthy, mapping, healthCall, streak, kept>>

CheckOne(a) ==
    /\ chk.addr = "none" /\ a \in chk.todo
    /\ chk' = [chk EXCEPT !.todo = @ \ {a},
                          !.addr = IF a \in Registered THEN a ELSE @,
                          !.obj = IF a \in Registered THEN upstreams[a].obj ELSE @]
    /\ UNCHANGED <<made, upstreams, healthy, mapping, healthCall, rounds, streak, kept>>

Current(a, o) == upstreams[a].obj = o
Counted(u, ok) == [u EXCEPT !.failCount = IF ok THEN 0 ELSE @ + 1, !.passCount = IF ok THEN @ + 1 ELSE 0]

Probed(ok) ==
    /\ chk.addr # "none"
    /\ LET a == chk.addr
           o == upstreams[a].obj
           u == Counted(upstreams[a], ok)
           up == o \notin healthy /\ u.passCount >= PassThreshold
           down == o \in healthy /\ u.failCount >= FailThreshold
           n == IF streak[chk.obj].ok = ok THEN streak[chk.obj].n + 1 ELSE 1
       IN /\ streak' = [streak EXCEPT ![chk.obj] = [ok |-> ok, n |-> n]]
          /\ IF a \in Registered /\ Current(a, chk.obj)
             THEN /\ upstreams' = [upstreams EXCEPT ![a] = u]
                  /\ healthy' = IF up THEN healthy \cup {o} ELSE IF down THEN healthy \ {o} ELSE healthy
                  /\ mapping' = IF down THEN [c \in Client |-> IF mapping[c] = a THEN "none" ELSE mapping[c]] ELSE mapping
                  /\ kept' = IF down THEN Dropped(a) ELSE kept
             ELSE UNCHANGED <<upstreams, healthy, mapping, kept>>
    /\ chk' = [chk EXCEPT !.addr = "none", !.obj = HealthRest.obj]
    /\ UNCHANGED <<made, healthCall, rounds>>

(***************************************************************************)
(* GetUpstream: the healthy ones under the lock of the checker, the        *)
(* mapping and its update under two locks of the balancer.                 *)
(***************************************************************************)
Snapshot(c) ==
    /\ healthCall[c].pc = "idle" /\ healthCall[c].n < MaxCalls
    /\ LET s == {a \in Registered : upstreams[a].obj \in healthy}
       IN healthCall' = [healthCall EXCEPT ![c].pc = IF s = {} THEN "idle" ELSE "look", ![c].snap = s, ![c].n = @ + 1]
    /\ UNCHANGED <<made, upstreams, healthy, chk, mapping, rounds, streak, kept>>

(* The upstream returned may have failed since the list was made. *)
StillThere(a) == a \in Registered /\ upstreams[a].obj \in healthy
Returned(c, a) ==
    /\ healthCall' = [healthCall EXCEPT ![c].pc = "idle", ![c].last = a, ![c].snap = {}]
    /\ kept' = IF StillThere(a) THEN kept \cup {c} ELSE kept \ {c}
    /\ UNCHANGED <<made, upstreams, healthy, chk, rounds, streak>>

Mapped(c) == mapping[c] \in healthCall[c].snap
LookUp(c) ==
    /\ healthCall[c].pc = "look"
    /\ IF Mapped(c) THEN Returned(c, mapping[c]) /\ UNCHANGED mapping
       ELSE /\ healthCall' = [healthCall EXCEPT ![c].pc = "select"]
            /\ UNCHANGED <<made, upstreams, healthy, chk, mapping, rounds, streak, kept>>

Select(c, a) ==
    /\ healthCall[c].pc = "select" /\ a \in healthCall[c].snap
    /\ mapping' = [mapping EXCEPT ![c] = a] /\ Returned(c, a)

HealthInit ==
    /\ made = [a \in Addr |-> 1] /\ healthy = Addr \X {1}
    /\ upstreams = [a \in Addr |-> [Gone EXCEPT !.obj = <<a, 1>>]]
    /\ chk = HealthRest /\ mapping = [c \in Client |-> "none"] /\ rounds = 0
    /\ healthCall = [c \in Client |-> [pc |-> "idle", snap |-> {}, last |-> "none", n |-> 0]]
    /\ streak = [o \in Object |-> [ok |-> TRUE, n |-> 0]] /\ kept = {}

HealthNext ==
    \/ \E a \in Addr : AddUpstream(a) \/ RemoveUpstream(a) \/ CheckOne(a)
    \/ CheckAll \/ Probed(TRUE) \/ Probed(FALSE)
    \/ \E c \in Client : Snapshot(c) \/ LookUp(c) \/ \E a \in Addr : Select(c, a)

-----------------------------------------------------------------------------
(* docs/tcpproxy.md, F12: the calls of one client return one upstream for   *)
(* as long as it is registered and healthy.                                 *)
StickyStep ==
    \A c \in Client : c \in kept /\ healthCall[c].pc # "idle" /\ healthCall'[c].pc = "idle" => healthCall'[c].last = healthCall[c].last
StickyWhileHealthy == [][StickyStep]_healthVars

(* An upstream changes its state only after as many probes of this object   *)
(* in a row agreed on it as the threshold says.                             *)
FlipStep ==
    \A o \in Object :
        /\ o \in healthy \ healthy' => ~ streak'[o].ok /\ streak'[o].n >= FailThreshold
        /\ o \in healthy' \ healthy /\ streak'[o] # [ok |-> TRUE, n |-> 0] => streak'[o].ok /\ streak'[o].n >= PassThreshold
FlipsAfterStreak == [][FlipStep]_healthVars

-----------------------------------------------------------------------------
(***************************************************************************)
(* dnsresolver: names resolved from the root servers down or by upstream   *)
(* servers, aliases followed, answers cached for their time to live.       *)
(* Names are sequences of labels, the top one first.  The servers asked    *)
(* are external: each serves a zone of a small world and lists the name    *)
(* servers of that zone and of the zones below it in the authority section,*)
(* as the servers of the repository's tests do; a query may be lost.       *)
(* The only call that returns to a caller with more to do is the one for   *)
(* the address of a name server, so the stack of a resolution holds those. *)
(***************************************************************************)

CONSTANTS
    Caller, Domain,         \* names that callers ask for
    Zones,                  \* zone -> its name servers, whether glue comes with them
    Serves,                 \* address of a server -> its zone
    Records,                \* name -> its records
    Behind,                 \* servers that have no records yet
    RootServers, UpstreamServers, EnableRecursion, MaxRecursionDepth, DefaultTTL,
    Lossy,                  \* whether queries may be lost
    DnsWritten, Texts,         \* names that a response holds, and its addresses
    MaxTime, MaxRecords     \* bounds

VARIABLES
    cache,      \* name -> entry
    dnsCall,       \* the Resolve of each caller
    now, dnsClosed,
    dnsLoop,       \* cacheCleanupLoop: "runs" or "ended"
    wire,       \* a response as a server writes it: cells, and where a name can be pointed to
    dnsSent        \* the names and records it stands for

resolving == <<cache, dnsCall, now, dnsClosed, dnsLoop>>
dnsVars == <<cache, dnsCall, now, dnsClosed, dnsLoop, wire, dnsSent>>

NoRecords == [records |-> <<>>, at |-> 0, ttl |-> 0]
DnsIdle == [step |-> "idle", name |-> <<>>, stack |-> <<>>, entry |-> NoRecords, ok |-> FALSE, records |-> <<>>, lost |-> FALSE]

DnsInit ==
    /\ cache = [n \in {} |-> NoRecords] /\ now = 0 /\ dnsClosed = FALSE /\ dnsLoop = "runs"
    /\ dnsCall = [c \in Caller |-> DnsIdle] /\ wire = [cells |-> <<>>, at |-> {}] /\ dnsSent = <<>>

Expired(e) == now > e.at + e.ttl

filterRecords(rs, t) == SelectSeq(rs, LAMBDA r : r.type = t)
extractIPs(rs) == [i \in DOMAIN filterRecords(rs, "A") |-> filterRecords(rs, "A")[i].ip]
Target(rs) == filterRecords(rs, "CNAME")[1].to
HasAlias(rs) == filterRecords(rs, "CNAME") # <<>>
HasTarget(rs) == filterRecords(rs, "A") # <<>>

-----------------------------------------------------------------------------
(* The servers: what one answers to a question. *)
Reply(answers, zone) == [ok |-> TRUE, answers |-> answers,
                         ns |-> IF zone \in DOMAIN Zones THEN Zones[zone].ns ELSE <<>>,
                         glued |-> zone \in DOMAIN Zones /\ Zones[zone].glue]
NoZone == <<"none">>
Empty == Reply(<<>>, NoZone)
Failed == [Empty EXCEPT !.ok = FALSE]
ParentZone(z) == CHOOSE p \in DOMAIN Zones : /\ p # z /\ IsPrefix(p, z)
                                             /\ \A q \in DOMAIN Zones : q # z /\ IsPrefix(q, z) => Len(q) <= Len(p)
Known(n) == IF n \in DOMAIN Records THEN Records[n] ELSE <<>>
(* an alias alone, or with the records it leads to *)
Found(n) == {Reply(Known(n), NoZone)} \cup
            {Reply(Known(n) \o Known(Target(Known(n))), NoZone) : x \in {y \in {1} : HasAlias(Known(n))}}
Below(z, n) == {d \in DOMAIN Zones : d # <<>> /\ ParentZone(d) = z /\ IsPrefix(d, n)}
Answer(s, n, t) ==
    IF s \in Behind THEN {Empty}
    ELSE IF ~ EnableRecursion THEN IF Known(n) = <<>> THEN {Failed} ELSE Found(n)
    ELSE IF t = "NS"
    THEN IF n \in DOMAIN Zones /\ (n = Serves[s] \/ ParentZone(n) = Serves[s]) THEN {Reply(<<>>, n)} ELSE {Empty}
    ELSE IF ~ IsPrefix(Serves[s], n) THEN {Failed}
    ELSE IF Below(Serves[s], n) # {} THEN {Reply(<<>>, d) : d \in Below(Serves[s], n)}
    ELSE IF Known(n) = <<>> THEN {Failed} ELSE Found(n)

(* queryParallel: all servers are asked, some of the queries are lost.  The *)
(* first response with content wins, then the first one, then an error.     *)
Content(rs) == {r \in rs : r.ok /\ (r.answers # <<>> \/ r.ns # <<>>)}
Best(rs) == IF Content(rs) # {} THEN Content(rs) ELSE IF Empty \in rs THEN {Empty} ELSE {Failed}
Answering(servers) == IF Lossy THEN SUBSET ToSet(servers) ELSE {ToSet(servers)}
queryParallel(servers, n, t) ==
    UNION {{[reply |-> r, lost |-> S # ToSet(servers)] : r \in Best(UNION {Answer(s, n, t) : s \in S})} : S \in Answering(servers)}

-----------------------------------------------------------------------------
(* Resolve: the cache first. *)
Enter(c, n) ==
    /\ dnsCall[c].step = "idle" /\ ~ dnsClosed
    /\ dnsCall' = [dnsCall EXCEPT ![c] = IF n \in DOMAIN cache THEN [DnsIdle EXCEPT !.step = "read", !.name = n, !.entry = cache[n]]
                                                         ELSE [DnsIdle EXCEPT !.step = "miss", !.name = n]]
    /\ UNCHANGED <<cache, now, dnsClosed, dnsLoop>>

Without(n) == [m \in DOMAIN cache \ {n} |-> cache[m]]
getFromCache(c) ==
    /\ dnsCall[c].step = "read"
    /\ dnsCall' = [dnsCall EXCEPT ![c] = IF Expired(dnsCall[c].entry) THEN [@ EXCEPT !.step = "expired"]
                                   ELSE [@ EXCEPT !.step = "hit", !.ok = TRUE, !.records = dnsCall[c].entry.records]]
    /\ UNCHANGED <<cache, now, dnsClosed, dnsLoop>>
StillExpired(n) == n \in DOMAIN cache /\ Expired(cache[n])
DropExpired(c) ==
    /\ dnsCall[c].step = "expired"
    /\ cache' = IF StillExpired(dnsCall[c].name) THEN Without(dnsCall[c].name) ELSE cache
    /\ dnsCall' = [dnsCall EXCEPT ![c].step = "miss", ![c].entry = NoRecords]
    /\ UNCHANGED <<now, dnsClosed, dnsLoop>>

(* resolveRecursive and resolveIterative *)
DnsFrame(n, depth) == [step |-> IF depth >= MaxRecursionDepth THEN "deep" ELSE "zone", name |-> n, depth |-> depth, i |-> 0,
                    servers |-> RootServers, zone |-> <<>>, ns |-> <<>>, glued |-> FALSE, next |-> <<>>, resp |-> <<>>]
Begin(c) ==
    /\ dnsCall[c].step = "miss"
    /\ dnsCall' = [dnsCall EXCEPT ![c].step = "run",
                            ![c].stack = <<IF EnableRecursion THEN DnsFrame(dnsCall[c].name, 0)
                                           ELSE [DnsFrame(dnsCall[c].name, 0) EXCEPT !.step = "upstream", !.servers = UpstreamServers]>>]
    /\ UNCHANGED <<cache, now, dnsClosed, dnsLoop>>

Top(c) == dnsCall[c].stack[Len(dnsCall[c].stack)]
Running(c, step) == dnsCall[c].step = "run" /\ Top(c).step = step
DnsRest == UNCHANGED <<cache, now, dnsClosed, dnsLoop>>
Go(c, f, lost) ==
    /\ dnsCall' = [dnsCall EXCEPT ![c].stack[Len(dnsCall[c].stack)] = f, ![c].lost = @ \/ lost]
    /\ DnsRest
(* a return: to Resolve, or to the frame that wanted a server's address *)
NextServers(f, ok, rs) == [f EXCEPT !.next = @ \o extractIPs(rs), !.ns = Tail(@)]
Return(c, ok, rs, lost) ==
    LET below == SubSeq(dnsCall[c].stack, 1, Len(dnsCall[c].stack) - 1)
    IN /\ dnsCall' = [dnsCall EXCEPT ![c] =
                     IF below = <<>> THEN [@ EXCEPT !.step = IF ok THEN "put" ELSE "failed", !.ok = ok, !.records = rs, !.stack = <<>>, !.lost = @ \/ lost]
                     ELSE [@ EXCEPT !.stack = [below EXCEPT ![Len(below)] = NextServers(@, ok, IF ok THEN rs ELSE <<>>)], !.lost = @ \/ lost]]
       /\ DnsRest
TooDeep(c) == Running(c, "deep") /\ Return(c, FALSE, <<>>, FALSE)

(* the name servers of the next zone down *)
AskZone(c) ==
    /\ Running(c, "zone")
    /\ LET f == Top(c)
       IN IF f.i > Len(f.name) THEN Go(c, [f EXCEPT !.step = "ask"], FALSE)
          ELSE \E q \in queryParallel(f.servers, SubSeq(f.name, 1, f.i), "NS") :
                 Go(c, IF q.reply.ok /\ q.reply.ns # <<>>
                       THEN [f EXCEPT !.step = "ns", !.ns = q.reply.ns, !.glued = q.reply.glued, !.next = <<>>]
                       ELSE [f EXCEPT !.step = "ask"], q.lost)
NameServer(c) ==
    /\ Running(c, "ns")
    /\ LET f == Top(c)
       IN IF f.ns = <<>>
          THEN Go(c, IF f.next = <<>> THEN [f EXCEPT !.step = "ask"]
                     ELSE [f EXCEPT !.step = "zone", !.zone = SubSeq(f.name, 1, f.i), !.servers = f.next, !.i = @ + 1, !.next = <<>>], FALSE)
          ELSE IF f.glued THEN Go(c, NextServers(f, TRUE, Records[f.ns[1]]), FALSE)
          ELSE dnsCall' = [dnsCall EXCEPT ![c].stack = Append(@, DnsFrame(f.ns[1], f.depth + 1))] /\ DnsRest

(* the question itself *)
Ask(c) ==
    /\ Running(c, "ask")
    /\ LET f == Top(c) IN \E q \in queryParallel(f.servers, f.name, "A") :
         LET rs == q.reply.answers
         IN IF ~ q.reply.ok THEN Return(c, FALSE, <<>>, q.lost)
            ELSE IF HasAlias(rs) THEN IF f.depth + 1 >= MaxRecursionDepth THEN Return(c, FALSE, <<>>, q.lost)
                                      ELSE Go(c, [f EXCEPT !.step = "follow", !.name = Target(rs), !.resp = rs, !.ns = <<>>, !.next = <<>>], q.lost)
            ELSE Return(c, HasTarget(rs), rs, q.lost)

(* followCNAME *)
AnsweredSlip(rs) == rs # <<>>
Answered(rs) == HasTarget(rs)
isSameZone(n, zone) == IsPrefix(zone, n)
followCNAME(c) ==
    /\ Running(c, "follow")
    /\ LET f == Top(c)
           again == DnsFrame(f.name, f.depth + 1)
       IN IF f.depth + 1 >= MaxRecursionDepth THEN Return(c, FALSE, <<>>, FALSE)
          ELSE IF Answered(f.resp) THEN Return(c, TRUE, f.resp, FALSE)
          ELSE IF ~ isSameZone(f.name, f.zone) THEN Go(c, again, FALSE)
          ELSE \E q \in queryParallel(f.servers, f.name, "A") :
                 LET rs == q.reply.answers
                 IN IF q.reply.ok /\ HasAlias(rs) THEN Go(c, [f EXCEPT !.name = Target(rs), !.depth = @ + 1, !.resp = rs], q.lost)
                    ELSE IF q.reply.ok /\ HasTarget(rs) THEN Return(c, TRUE, rs, q.lost)
                    ELSE Go(c, again, q.lost)

resolveIterative(c) ==
    /\ Running(c, "upstream")
    /\ LET f == Top(c) IN \E q \in queryParallel(f.servers, f.name, "A") :
         LET rs == q.reply.answers
         IN IF ~ q.reply.ok THEN Return(c, FALSE, <<>>, q.lost)
            ELSE IF HasAlias(rs) THEN IF f.depth >= MaxRecursionDepth THEN Return(c, FALSE, <<>>, q.lost)
                                      ELSE Go(c, [f EXCEPT !.name = Target(rs), !.depth = @ + 1], q.lost)
            ELSE Return(c, HasTarget(rs), rs, q.lost)

(* putToCache: for the first time to live that is not zero. *)
AnswerTTL(rs) == LET live == SelectSeq(rs, LAMBDA r : r.ttl > 0) IN IF live = <<>> THEN DefaultTTL ELSE live[1].ttl
putToCache(c) ==
    /\ dnsCall[c].step = "put"
    /\ cache' = [n \in DOMAIN cache \cup {dnsCall[c].name} |->
                   IF n = dnsCall[c].name THEN [records |-> dnsCall[c].records, at |-> now, ttl |-> AnswerTTL(dnsCall[c].records)] ELSE cache[n]]
    /\ dnsCall' = [dnsCall EXCEPT ![c].step = "done"]
    /\ UNCHANGED <<now, dnsClosed, dnsLoop>>
Leave(c) ==
    /\ dnsCall[c].step \in {"done", "hit", "failed"}
    /\ dnsCall' = [dnsCall EXCEPT ![c] = DnsIdle]
    /\ UNCHANGED <<cache, now, dnsClosed, dnsLoop>>

cleanupExpired ==
    /\ dnsLoop = "runs" /\ \E n \in DOMAIN cache : Expired(cache[n])
    /\ cache' = [n \in {m \in DOMAIN cache : ~ Expired(cache[m])} |-> cache[n]]
    /\ UNCHANGED <<dnsCall, now, dnsClosed, dnsLoop>>
ClearCache ==
    /\ cache' = [n \in {} |-> NoRecords] /\ UNCHANGED <<dnsCall, now, dnsClosed, dnsLoop>>
Close ==
    /\ ~ dnsClosed /\ dnsClosed' = TRUE /\ UNCHANGED <<cache, dnsCall, now, dnsLoop>>
LoopEnds ==
    /\ dnsClosed /\ dnsLoop = "runs" /\ dnsLoop' = "ended" /\ UNCHANGED <<cache, dnsCall, now, dnsClosed>>
Tick == now < MaxTime /\ now' = now + 1 /\ UNCHANGED <<cache, dnsCall, dnsClosed, dnsLoop>>

ResolverNext ==
    \/ \E c \in Caller : \/ \E n \in Domain : Enter(c, n)
                         \/ getFromCache(c) \/ DropExpired(c) \/ Begin(c) \/ putToCache(c) \/ Leave(c)
                         \/ TooDeep(c) \/ AskZone(c) \/ NameServer(c) \/ Ask(c) \/ followCNAME(c) \/ resolveIterative(c)
    \/ cleanupExpired \/ ClearCache \/ Close \/ LoopEnds \/ Tick

-----------------------------------------------------------------------------
(* The message format.  A cell is a label with its length, the byte that    *)
(* ends a name, a pointer, the fixed fields of a record, or an address;     *)
(* labels of a name stand in the order of the message.                      *)
Cell(kind, value) == [kind |-> kind, value |-> value]
maxJumps == 2       \* 10 in the code

(* decodeName: the labels, and where the name itself ends *)
NoName == [ok |-> FALSE, labels |-> <<>>, end |-> 0]
DnsEnd(o, d) == [d EXCEPT !.end = o + 1]
decodeName(msg, offset) ==
    LET dec[o \in 1 .. Len(msg) + 1, jumps \in 0 .. maxJumps] ==
          IF o > Len(msg) THEN NoName
          ELSE CASE msg[o].kind = "end" -> [ok |-> TRUE, labels |-> <<>>, end |-> o + 1]
                 [] msg[o].kind = "ptr" -> IF jumps = maxJumps THEN NoName ELSE DnsEnd(o, dec[msg[o].value, jumps + 1])
                 [] msg[o].kind = "label" -> LET d == dec[o + 1, jumps] IN [d EXCEPT !.labels = <<msg[o].value>> \o @]
                 [] OTHER -> NoName
    IN dec[offset, 0]

(* parseRR and parseRRs *)
Bad == [ok |-> FALSE, records |-> <<>>]
Data(msg, type, o) == IF type = "A" THEN <<msg[o].value>> ELSE decodeName(msg, o).labels
parseRR(msg, d, fixed) ==   \* the name is d, the fixed fields are (type, length)
    [name |-> d.labels, type |-> fixed[1], data |-> Data(msg, fixed[1], d.end + 1)]
parseRRs(msg, offset, count) ==
    LET rrs[o \in 1 .. Len(msg) + 1, k \in 0 .. count] ==
          IF k = 0 THEN [ok |-> TRUE, records |-> <<>>]
          ELSE LET d == decodeName(msg, o)
               IN IF ~ d.ok \/ d.end > Len(msg) THEN Bad
                  ELSE IF msg[d.end].kind # "fixed" THEN Bad
                  ELSE IF d.end + msg[d.end].value[2] > Len(msg) THEN Bad
                  ELSE LET more == rrs[d.end + 1 + msg[d.end].value[2], k - 1]
                       IN [more EXCEPT !.records = <<parseRR(msg, d, msg[d.end].value)>> \o @]
    IN rrs[offset, count]
parseResponse(msg, count) ==
    LET d == decodeName(msg, 1) IN IF ~ d.ok THEN Bad ELSE parseRRs(msg, d.end, count)

(* a server writes a name: some labels, then the end or a pointer to where  *)
(* the rest of it already stands                                            *)
Ways(n) == {[cells |-> [i \in 1 .. Len(n) |-> Cell("label", n[i])] \o <<Cell("end", 0)>>]} \cup
           {[cells |-> [i \in 1 .. w[1] |-> Cell("label", n[i])] \o <<Cell("ptr", w[2][1])>>] :
              w \in {v \in (0 .. Len(n) - 1) \X wire.at : v[2][2] = SubSeq(n, v[1] + 1, Len(n))}}
(* the places a name offers, with the pointers that lead from there *)
Places(n, o, cells) == {<<o + i, SubSeq(n, i + 1, Len(n))>> : i \in 0 .. Len(cells) - 1}
Jumps(p) == LET j[o \in 1 .. Len(wire.cells)] ==
                  CASE wire.cells[o].kind = "ptr" -> 1 + j[wire.cells[o].value]
                    [] wire.cells[o].kind = "label" -> j[o + 1]
                    [] OTHER -> 0
            IN j[p]
Near(cells) == \A i \in DOMAIN cells : cells[i].kind = "ptr" => Jumps(cells[i].value) < maxJumps
WriteQuestion(n) ==
    /\ wire.cells = <<>> /\ MaxRecords > 0
    /\ \E w \in Ways(n) : wire' = [cells |-> w.cells, at |-> Places(n, 1, w.cells)]
    /\ UNCHANGED <<resolving, dnsSent>>
WriteRecord(n, type, data) ==
    /\ wire.cells # <<>> /\ Len(dnsSent) < MaxRecords
    /\ \E w \in Ways(n) : \E v \in (IF type = "A" THEN {[cells |-> <<Cell("ip", data)>>]} ELSE Ways(data)) :
         /\ Near(w.cells \o v.cells)
         /\ wire' = [cells |-> wire.cells \o w.cells \o <<Cell("fixed", <<type, Len(v.cells)>>)>> \o v.cells,
                     at |-> wire.at \cup Places(n, Len(wire.cells) + 1, w.cells)
                              \cup (IF type = "A" THEN {} ELSE Places(data, Len(wire.cells) + Len(w.cells) + 2, v.cells))]
    /\ dnsSent' = Append(dnsSent, [name |-> n, type |-> type, data |-> IF type = "A" THEN <<data>> ELSE data])
    /\ UNCHANGED resolving

DnsNext ==
    \/ ResolverNext /\ UNCHANGED <<wire, dnsSent>>
    \/ \E n \in DnsWritten : WriteQuestion(n) \/ \E d \in DnsWritten : WriteRecord(n, "CNAME", d)
    \/ \E n \in DnsWritten, ip \in Texts : WriteRecord(n, "A", ip)

DnsTypeOK ==
    /\ now \in 0 .. MaxTime /\ dnsLoop \in {"runs", "ended"} /\ DOMAIN cache \subseteq Domain
    /\ \A c \in Caller : Len(dnsCall[c].stack) <= MaxRecursionDepth + 1

-----------------------------------------------------------------------------
(* The world's own answer: the records at the end of the chain of aliases.  *)
Chain[n \in DOMAIN Records, hops \in 0 .. MaxRecursionDepth] ==
    IF ~ HasAlias(Records[n]) THEN Records[n]
    ELSE IF hops = 0 \/ Target(Records[n]) \notin DOMAIN Records THEN <<>>
    ELSE Chain[Target(Records[n]), hops - 1]
Truth(n, hops) == IF n \in DOMAIN Records THEN extractIPs(Chain[n, hops]) ELSE <<>>

(* Whatever queries are lost, by whichever servers and aliases a name is    *)
(* resolved, and whether it comes from the cache: the addresses returned    *)
(* are those at the end of its chain of aliases, never none and never those *)
(* of another name.                                                         *)
RightAddresses ==
    \A c \in Caller : dnsCall[c].step \in {"put", "done", "hit"} =>
        /\ extractIPs(dnsCall[c].records) # <<>>
        /\ extractIPs(dnsCall[c].records) = Truth(dnsCall[c].name, MaxRecursionDepth)

(* Where no query is lost, every name that exists resolves, if its chain of *)
(* aliases leaves a level for the address of a name server; a server that   *)
(* has no records yet and a name server without an address do not prevent   *)
(* it, and a circle of aliases fails.                                       *)
NothingMissed ==
    \A c \in Caller : dnsCall[c].step = "failed" /\ ~ dnsCall[c].lost => Truth(dnsCall[c].name, MaxRecursionDepth - 2) = <<>>

(* An entry leaves the cache only after its time or by ClearCache, also     *)
(* where one caller finds it expired while another renews it; and no caller *)
(* decides for an entry whose time has passed.                              *)
EntriesLiveStep ==
    /\ \A n \in DOMAIN cache : ~ Expired(cache[n]) => n \in DOMAIN cache' \/ (DOMAIN cache' = {} /\ UNCHANGED dnsCall)
    /\ \A c \in Caller : dnsCall[c].step = "read" /\ dnsCall'[c].step = "hit" => now <= dnsCall[c].entry.at + dnsCall[c].entry.ttl
EntriesLive == [][EntriesLiveStep]_dnsVars

(* A response that servers write with whatever compression is read back as  *)
(* the same records, and one cut anywhere by the 512 byte buffer is refused.*)
ReadsBack ==
    wire.cells # <<>> =>
        /\ parseResponse(wire.cells, Len(dnsSent)) = [ok |-> TRUE, records |-> dnsSent]
        /\ \A k \in 0 .. Len(wire.cells) - 1 : ~ parseResponse(SubSeq(wire.cells, 1, k), Len(dnsSent)).ok
=============================================================================
