----------------------------- MODULE Messaging ------------------------------
(*****************************************************************************)
(* Messages to many: the broker of pubsub for one topic, its tree of topic   *)
(* filters, and the rooms of wscenter. The parts share no state; each has    *)
(* its own specification.                                                    *)
(*****************************************************************************)
EXTENDS Integers, Sequences, FiniteSets, SequencesExt

(***************************************************************************)
(* The delivery side of pubsub.Broker: consumers with a bounded channel    *)
(* and a bounded number of unacknowledged messages, durable subscriptions  *)
(* that buffer what cannot be delivered, timeouts, retries and dead        *)
(* letters, disconnecting and reconnecting, Stop and Start. One topic; a   *)
(* consumer has at most one subscription.                                  *)
(***************************************************************************)

CONSTANTS
    BrokerConsumer, Message,
    MaxRetry, MaxUnacked, ConsumerBuffer,
    MaxLinks             \* bound on AddConsumer, Disconnect, Unsubscribe, Stop, Nack and timeouts

VARIABLES
    running,
    cons,                \* cons[c]: the record of a consumer
    sub,                 \* "none", "plain" or "durable"
    published,
    dead,                \* deadLetters, with the consumer that gave up
    got,                 \* <<c, m>>: m was taken from c's channel
    acked,               \* <<c, m>>: the consumer acknowledged m
    owed,                \* <<c, m>>: published while c was durably subscribed
    sentClosed,          \* a message was sent on a closed channel (a panic)
    links

brokerVars == <<running, cons, sub, published, dead, got, acked, owed, sentClosed, links>>

None == [status |-> "none", listed |-> FALSE, element |-> FALSE, retry |-> 0, durable |-> FALSE]

(* listed: in pendingList; element: pm.element # nil, which removing from  *)
(* the list does not reset. gone: the field disconnected.                  *)
NewConsumer ==
    [connected |-> TRUE, gone |-> FALSE, closed |-> FALSE, ch |-> <<>>, unacked |-> 0,
     pending |-> [m \in Message |-> None], buffer |-> <<>>]

BrokerInit ==
    /\ running = TRUE /\ cons = [c \in BrokerConsumer |-> {}]
    /\ sub = [c \in BrokerConsumer |-> "none"]
    /\ published = {} /\ dead = {} /\ got = {} /\ acked = {} /\ owed = {}
    /\ sentClosed = FALSE /\ links = 0

Exists(c) == cons[c] # {}
Rec(c) == CHOOSE k \in cons[c] : TRUE

-----------------------------------------------------------------------------
(* Changes to one consumer's record k. *)
Unlist(k, m) ==
    [k EXCEPT !.unacked = IF k.pending[m].element THEN @ - 1 ELSE @,
              !.pending[m].listed = FALSE]

trackDurablePending(k, m) ==
    IF k.pending[m] # None THEN k ELSE [k EXCEPT !.pending[m] = [None EXCEPT !.status = "pending", !.durable = TRUE]]

Buffered(k, m, durable) ==
    IF durable THEN trackDurablePending([k EXCEPT !.buffer = Append(@, m)], m) ELSE k

Send(k, m, retry, durable) ==
    [k EXCEPT !.ch = Append(@, m), !.unacked = @ + 1,
              !.pending[m] = [status |-> "delivered", listed |-> TRUE, element |-> TRUE,
                                retry |-> retry, durable |-> durable]]

deliverToConsumer(k, m, durable) ==
    IF ~ k.connected \/ k.unacked >= MaxUnacked THEN Buffered(k, m, durable)
    ELSE LET k1 == [Unlist(k, m) EXCEPT !.pending[m] = None] IN
         IF Len(k1.ch) < ConsumerBuffer THEN Send(k1, m, 0, durable) ELSE Buffered(k1, m, durable)

(* Every buffered message is tried again; what is over the limit stays.    *)
flushDurableBuffer(k, s) ==
    IF k.buffer = <<>> \/ s = "none" THEN k
    ELSE FoldSeq(LAMBDA m, r : IF r.unacked >= MaxUnacked THEN [r EXCEPT !.buffer = Append(@, m)]
                               ELSE deliverToConsumer(r, m, s = "durable"),
                 [k EXCEPT !.buffer = <<>>], k.buffer)

Exhausted(k, m) == k.pending[m].retry + 1 > MaxRetry

redeliverOrDeadLetter(k, m, s) ==
    LET r == k.pending[m].retry + 1
        k1 == [Unlist(k, m) EXCEPT !.pending[m].retry = r]
        waits == [k1 EXCEPT !.pending[m].status = "pending"] IN
    IF Exhausted(k, m) THEN flushDurableBuffer([k1 EXCEPT !.pending[m] = None], s)
    ELSE CASE ~ k.connected /\ k1.pending[m].durable -> [waits EXCEPT !.buffer = Append(@, m)]
           [] ~ k.connected /\ ~ k1.pending[m].durable -> [waits EXCEPT !.pending[m] = None]
           [] k.connected /\ (k1.unacked >= MaxUnacked \/ Len(k.ch) >= ConsumerBuffer) ->
                [waits EXCEPT !.buffer = Append(@, m)]
           [] OTHER -> Send(k1, m, r, k1.pending[m].durable)

-----------------------------------------------------------------------------
(* A handler leaves consumer c with record k; a longer channel is a send. *)
Becomes(c, k) ==
    /\ cons' = [cons EXCEPT ![c] = {k}]
    /\ sentClosed' = (sentClosed \/ (k.closed /\ Len(k.ch) > Len(Rec(c).ch)))

AddConsumer(c) ==
    /\ running /\ ~ Exists(c) /\ links < MaxLinks
    /\ cons' = [cons EXCEPT ![c] = {NewConsumer}] /\ links' = links + 1
    /\ UNCHANGED <<running, sub, published, dead, got, acked, owed, sentClosed>>

RemoveConsumer(c) ==
    /\ running /\ Exists(c)
    /\ cons' = [cons EXCEPT ![c] = {}] /\ sub' = [sub EXCEPT ![c] = "none"]
    /\ owed' = {x \in owed : x[1] # c} /\ got' = {x \in got : x[1] # c}
    /\ UNCHANGED <<running, published, dead, acked, sentClosed, links>>

SubscribeDurable(c, s) ==
    /\ running /\ Exists(c) /\ sub[c] = "none" /\ sub' = [sub EXCEPT ![c] = s]
    /\ UNCHANGED <<running, cons, published, dead, got, acked, owed, sentClosed, links>>

(* The buffer of an unsubscribed consumer is neither flushed nor dropped;  *)
(* the broker owes it nothing any more.                                    *)
BrokerUnsubscribe(c) ==
    /\ running /\ sub[c] # "none" /\ sub' = [sub EXCEPT ![c] = "none"]
    /\ links < MaxLinks /\ links' = links + 1
    /\ owed' = {x \in owed : x[1] # c}
    /\ UNCHANGED <<running, cons, published, dead, got, acked, sentClosed>>

Publish(m) ==
    LET to == {c \in BrokerConsumer : Exists(c) /\ sub[c] # "none"}
        after(c) == deliverToConsumer(Rec(c), m, sub[c] = "durable") IN
    /\ running /\ m \notin published /\ published' = published \cup {m}
    /\ cons' = [c \in BrokerConsumer |-> IF c \in to THEN {after(c)} ELSE cons[c]]
    /\ sentClosed' = (sentClosed \/ \E c \in to : Rec(c).closed /\ Len(after(c).ch) > Len(Rec(c).ch))
    /\ owed' = owed \cup {<<c, m>> : c \in {x \in to : sub[x] = "durable"}}
    /\ UNCHANGED <<running, sub, dead, got, acked, links>>

Receive(c) ==
    /\ Exists(c) /\ Rec(c).ch # <<>>
    /\ cons' = [cons EXCEPT ![c] = {[Rec(c) EXCEPT !.ch = Tail(@)]}]
    /\ got' = got \cup {<<c, Head(Rec(c).ch)>>}
    /\ UNCHANGED <<running, sub, published, dead, acked, owed, sentClosed, links>>

Answerable(c, m) == running /\ Exists(c) /\ <<c, m>> \in got /\ Rec(c).pending[m] # None

Ack(c, m) ==
    /\ Answerable(c, m)
    /\ Becomes(c, flushDurableBuffer([Unlist(Rec(c), m) EXCEPT !.pending[m] = None], sub[c]))
    /\ acked' = acked \cup {<<c, m>>}
    /\ UNCHANGED <<running, sub, published, dead, got, owed, links>>

Redeliver(c, m) ==
    /\ links < MaxLinks /\ links' = links + 1
    /\ Becomes(c, redeliverOrDeadLetter(Rec(c), m, sub[c]))
    /\ dead' = IF Exhausted(Rec(c), m) THEN dead \cup {<<c, m>>} ELSE dead
    /\ UNCHANGED <<running, sub, published, got, acked, owed>>

Nack(c, m) == Answerable(c, m) /\ Redeliver(c, m)

(* ProcessTimeouts, for one message whose AckTimeout has passed. *)
ProcessTimeouts(c, m) ==
    /\ running /\ Exists(c) /\ Rec(c).pending[m].listed /\ Rec(c).pending[m].status = "delivered"
    /\ Redeliver(c, m)

(* What is delivered and not acknowledged moves, in list order, to the     *)
(* buffer of a durable subscriber; unackedCount is left as it is.          *)
DisconnectConsumer(c) ==
    /\ running /\ Exists(c) /\ Rec(c).connected /\ links < MaxLinks /\ links' = links + 1
    /\ LET k == Rec(c)
           L == {m \in Message : k.pending[m].listed} IN
       \E o \in SetToSeqs({m \in L : k.pending[m].durable}) :
           Becomes(c, [k EXCEPT !.connected = FALSE,
                         !.buffer = @ \o o,
                         !.pending = [m \in Message |-> IF m \in L THEN [@[m] EXCEPT !.listed = FALSE, !.status = "pending"] ELSE @[m]]])
    /\ UNCHANGED <<running, sub, published, dead, got, acked, owed>>

MayReconnect(k) == ~ k.connected /\ ~ k.gone

ReconnectConsumer(c) ==
    /\ running /\ Exists(c) /\ MayReconnect(Rec(c))
    /\ Becomes(c, flushDurableBuffer([Rec(c) EXCEPT !.connected = TRUE], sub[c]))
    /\ UNCHANGED <<running, sub, published, dead, got, acked, owed, links>>

Stop ==
    /\ running /\ running' = FALSE /\ links < MaxLinks /\ links' = links + 1
    /\ cons' = [c \in BrokerConsumer |-> {[k EXCEPT !.gone = TRUE, !.connected = FALSE, !.closed = TRUE] : k \in cons[c]}]
    /\ UNCHANGED <<sub, published, dead, got, acked, owed, sentClosed>>

Start ==
    /\ ~ running /\ running' = TRUE
    /\ UNCHANGED <<cons, sub, published, dead, got, acked, owed, sentClosed, links>>

ClearDeadLetters ==
    /\ dead # {} /\ dead' = {} /\ owed' = owed \ dead
    /\ UNCHANGED <<running, cons, sub, published, got, acked, sentClosed, links>>

BrokerNext ==
    \/ Stop \/ Start \/ ClearDeadLetters
    \/ \E m \in Message : Publish(m)
    \/ \E c \in BrokerConsumer :
        \/ AddConsumer(c) \/ RemoveConsumer(c) \/ BrokerUnsubscribe(c) \/ Receive(c)
        \/ DisconnectConsumer(c) \/ ReconnectConsumer(c)
        \/ \E s \in {"plain", "durable"} : SubscribeDurable(c, s)
        \/ \E m \in Message : Ack(c, m) \/ Nack(c, m) \/ ProcessTimeouts(c, m)

BrokerSpec == BrokerInit /\ [][BrokerNext]_brokerVars

-----------------------------------------------------------------------------
BrokerTypeOK ==
    /\ running \in BOOLEAN /\ sub \in [BrokerConsumer -> {"none", "plain", "durable"}]
    /\ \A c \in BrokerConsumer : \A k \in cons[c] :
        /\ k.connected \in BOOLEAN /\ k.unacked \in Int
        /\ k.ch \in Seq(Message) /\ Len(k.ch) <= ConsumerBuffer
        /\ \A m \in Message : k.pending[m].status \in {"none", "pending", "delivered"}

(* docs/pubsub.md: what is published to a durable subscriber is cached and *)
(* delivered until it is acknowledged or dead-lettered. Through any        *)
(* disconnects, limits, full channels and retries it is either on the      *)
(* timeout list or in the buffer: nothing waits in neither.                *)
DurableNotLost ==
    \A x \in owed : x \in acked \/ x \in dead \/
        LET k == Rec(x[1]) IN
        k.pending[x[2]].listed \/ x[2] \in ToSet(k.buffer)

(* Nothing is ever sent on a channel that RemoveConsumer or Stop has       *)
(* closed, although Start makes the broker run again with its consumers.   *)
NoSendOnClosed == ~ sentClosed

(* docs/pubsub.md, back pressure: a consumer never has more than           *)
(* MaxUnacked messages delivered and unacknowledged.                       *)
BackPressure ==
    \A c \in BrokerConsumer : \A k \in cons[c] :
        Cardinality({m \in Message : k.pending[m].listed}) <= MaxUnacked

-----------------------------------------------------------------------------
(***************************************************************************)
(* The subscription tree of pubsub.Broker: filters are kept as paths of a  *)
(* tree, a final "*" or "#" in the wildcard table of the node above it.    *)
(* Publish looks a topic up in the tree; flushDurableBuffer matches the    *)
(* same filters with matchTopic. Branches that become empty are pruned.    *)
(***************************************************************************)

CONSTANTS
    TreeConsumer, Filter, Topic,   \* filters and topics are sequences of parts
    MaxOps                     \* bound on Subscribe and Unsubscribe calls

VARIABLES
    subs,        \* subscriptions: pairs <<consumer, filter>>
    nodes,       \* the nodes of the tree, by path; <<>> is the root
    exact,       \* <<path, consumer>>: subscribers of a node
    one, any,    \* <<path, consumer>>: wildcardOne and wildcardAny of a node
    ops

treeVars == <<subs, nodes, exact, one, any, ops>>

validateFilter(f) == f # <<>> /\ \A i \in 1..Len(f) : f[i] = "#" => i = Len(f)

TreeInit ==
    /\ subs = {} /\ nodes = {<<>>} /\ exact = {} /\ one = {} /\ any = {} /\ ops = 0

(* addToTopicTree *)
Subscribe(c, f) ==
    LET at == Front(f) IN
    /\ ops < MaxOps /\ validateFilter(f) /\ <<c, f>> \notin subs
    /\ subs' = subs \cup {<<c, f>>} /\ ops' = ops + 1
    /\ CASE Last(f) = "#" -> any' = any \cup {<<at, c>>} /\ nodes' = nodes \cup Prefixes(at)
                             /\ UNCHANGED <<exact, one>>
         [] Last(f) = "*" -> one' = one \cup {<<at, c>>} /\ nodes' = nodes \cup Prefixes(at)
                             /\ UNCHANGED <<exact, any>>
         [] OTHER -> exact' = exact \cup {<<f, c>>} /\ nodes' = nodes \cup Prefixes(f)
                     /\ UNCHANGED <<one, any>>

HoldsNone(p, E, O, A) == \A c \in TreeConsumer : <<p, c>> \notin E \cup O \cup A

(* The upward pass deletes, from the end of the filter, nodes that have    *)
(* neither children nor subscribers, up to the first that is in use.       *)
Dropped(f, E, O, A) ==
    {p \in nodes \ {<<>>} : /\ IsPrefix(p, f)
                            /\ \A q \in nodes : IsPrefix(p, q) => IsPrefix(q, f) /\ HoldsNone(q, E, O, A)}

(* removeFromTopicTree: what a deleted node holds goes with it. *)
TreeUnsubscribe(c, f) ==
    LET at == Front(f)
        E == exact \ {<<f, c>>}
        O == IF Last(f) = "*" THEN one \ {<<at, c>>} ELSE one
        A == IF Last(f) = "#" THEN any \ {<<at, c>>} ELSE any
        pruned == Dropped(f, E, O, A) IN
    /\ ops < MaxOps /\ <<c, f>> \in subs
    /\ subs' = subs \ {<<c, f>>} /\ ops' = ops + 1
    /\ nodes' = nodes \ pruned
    /\ exact' = {x \in E : x[1] \notin pruned}
    /\ one' = {x \in O : x[1] \notin pruned}
    /\ any' = {x \in A : x[1] \notin pruned}

TreeNext == \E c \in TreeConsumer, f \in Filter : Subscribe(c, f) \/ TreeUnsubscribe(c, f)

TreeSpec == TreeInit /\ [][TreeNext]_treeVars

-----------------------------------------------------------------------------
(* The paths collectMatches visits before the last part of the topic: at   *)
(* each part it descends into the child "*" and the child of that name.    *)
Visited(t) ==
    {p \in nodes : Len(p) < Len(t) /\ \A i \in 1..Len(p) : p[i] \in {"*", t[i]}}
LastVisited(t) ==
    {p \in nodes : Len(p) = Len(t) /\ \A i \in 1..Len(p) : p[i] \in {"*", t[i]}}

collectMatches(t) ==
    {c \in TreeConsumer :
        \/ \E p \in Visited(t) : <<p, c>> \in any
        \/ \E p \in Visited(t) : Len(p) = Len(t) - 1 /\ <<p, c>> \in one
        \/ \E p \in LastVisited(t) : <<p, c>> \in exact \cup any}

(* matchParts on validated filters: "#" can only be last.                  *)
matchParts(f, t) ==
    IF Last(f) = "#"
    THEN Len(t) >= Len(f) - 1 /\ \A i \in 1..(Len(f) - 1) : f[i] \in {"*", t[i]}
    ELSE Len(t) = Len(f) /\ \A i \in 1..Len(f) : f[i] \in {"*", t[i]}

TreeTypeOK ==
    /\ subs \subseteq TreeConsumer \X Filter /\ ops \in 0..MaxOps /\ <<>> \in nodes
    /\ \A x \in exact \cup one \cup any : x[1] \in nodes

(* After any subscribing and unsubscribing, the tree finds for every topic *)
(* exactly the consumers one of whose filters matches it.                  *)
TreeAgrees ==
    \A t \in Topic : collectMatches(t) = {c \in TreeConsumer : \E f \in Filter : <<c, f>> \in subs /\ matchParts(f, t)}

(* Pruning leaves no dead branch: every leaf of the tree is subscribed to. *)
TreeIsPruned ==
    \A p \in nodes \ {<<>>} : \E x \in exact \cup one \cup any : IsPrefix(p, x[1])

-----------------------------------------------------------------------------
(***************************************************************************)
(* wscenter.WSCenter: clients join and leave rooms and are disconnected by *)
(* their own call or by a missing pong. The center's lock, the room's and  *)
(* the client's are taken one after the other, so a call takes several     *)
(* steps. One room name; the room objects that bear it one after another   *)
(* are numbered, 0 is none.                                                *)
(***************************************************************************)

CONSTANTS
    Client,
    MaxObjs,     \* bound on rooms created
    MaxCalls,    \* bound on Connect, Join, Leave and Disconnect calls
    Serial       \* does each client make its Join and Leave calls in turn?

Obj == 1..MaxObjs

VARIABLES
    clients,     \* ids in ws.clients
    gone,        \* the disconnect flag of the client object
    inRoom,      \* inRoom[c]: the client's own entry for the room
    registered,  \* the object in ws.rooms
    created, members,
    used,        \* room objects that have had a member
    lock,        \* a JoinRoom that holds ws.mu, as a set
    leave, dis,  \* LeaveRoom and Disconnect calls in progress
    calls

rooms == <<registered, created, members, used>>
centerVars == <<clients, gone, inRoom, rooms, lock, leave, dis, calls>>

Idle == [pc |-> "idle", obj |-> 0]

CenterInit ==
    /\ clients = {} /\ gone = [c \in Client |-> FALSE] /\ inRoom = [c \in Client |-> 0]
    /\ registered = 0 /\ created = 0 /\ members = [o \in Obj |-> {}] /\ used = {}
    /\ lock = {} /\ leave = [c \in Client |-> Idle] /\ dis = [c \in Client |-> Idle]
    /\ calls = 0

Call == calls < MaxCalls /\ calls' = calls + 1

Connect(c) ==
    /\ Call /\ lock = {} /\ c \notin clients /\ leave[c] = Idle /\ dis[c] = Idle
    /\ clients' = clients \cup {c}
    /\ gone' = [gone EXCEPT ![c] = FALSE] /\ inRoom' = [inRoom EXCEPT ![c] = 0]
    /\ UNCHANGED <<rooms, lock, leave, dis>>

CreateRoom ==
    /\ lock = {} /\ registered = 0 /\ created < MaxObjs
    /\ created' = created + 1 /\ registered' = created + 1
    /\ UNCHANGED <<clients, gone, inRoom, members, used, lock, leave, dis, calls>>

MayJoin(c) == c \in clients /\ registered # 0 /\ ~ gone[c] /\ c \notin members[registered]

JoinRoom(c) ==
    /\ Call /\ lock = {} /\ MayJoin(c) /\ (Serial => leave[c] = Idle)
    /\ members' = [members EXCEPT ![registered] = @ \cup {c}] /\ used' = used \cup {registered}
    /\ lock' = {c}
    /\ UNCHANGED <<clients, gone, inRoom, registered, created, leave, dis>>

JoinEnds(c) ==
    /\ lock = {c} /\ lock' = {} /\ inRoom' = [inRoom EXCEPT ![c] = registered]
    /\ UNCHANGED <<clients, gone, rooms, leave, dis, calls>>

LeaveRoom(c) ==
    /\ Call /\ lock = {} /\ c \in clients /\ registered # 0 /\ leave[c] = Idle
    /\ leave' = [leave EXCEPT ![c] = [pc |-> "remove", obj |-> registered]]
    /\ UNCHANGED <<clients, gone, inRoom, rooms, lock, dis>>

-----------------------------------------------------------------------------
(* The end of LeaveRoom and Disconnect alike, for one room object: take    *)
(* the client out, drop its own entry, and delete an empty room by name.   *)
(* proc is leave or dis; missing and next are where the call goes on.      *)
RemoveMember(c, proc, procNew, missing) ==
    LET o == proc[c].obj IN
    /\ proc[c].pc = "remove"
    /\ IF c \in members[o]
       THEN /\ members' = [members EXCEPT ![o] = @ \ {c}]
            /\ procNew = [proc EXCEPT ![c].pc = "unlink"]
       ELSE procNew = [proc EXCEPT ![c] = missing] /\ UNCHANGED members
    /\ UNCHANGED <<clients, gone, inRoom, registered, created, used, lock, calls>>

Unlink(c, proc, procNew) ==
    /\ proc[c].pc = "unlink" /\ inRoom' = [inRoom EXCEPT ![c] = 0]
    /\ procNew = [proc EXCEPT ![c].pc = "check"]
    /\ UNCHANGED <<clients, gone, rooms, lock, calls>>

Check(c, proc, procNew, next) ==
    /\ proc[c].pc = "check"
    /\ procNew = [proc EXCEPT ![c] = IF members[@.obj] = {} THEN [@ EXCEPT !.pc = "delete"] ELSE next]
    /\ UNCHANGED <<clients, gone, inRoom, rooms, lock, calls>>

(* delete(ws.rooms, roomID) names the room, not the object.                *)
Deleted(o) == IF members[o] = {} THEN 0 ELSE registered

Delete(c, proc, procNew, next) ==
    /\ proc[c].pc = "delete" /\ lock = {}
    /\ registered' = Deleted(proc[c].obj)
    /\ procNew = [proc EXCEPT ![c] = next]
    /\ UNCHANGED <<clients, gone, inRoom, created, members, used, lock, calls>>

LeaveStep(c) ==
    /\ \/ RemoveMember(c, leave, leave', Idle) \/ Unlink(c, leave, leave')
       \/ Check(c, leave, leave', Idle) \/ Delete(c, leave, leave', Idle)
    /\ UNCHANGED dis

Closing == [pc |-> "close", obj |-> 0]

(* Disconnect, called for a client or by checkTimeouts. *)
Disconnect(c) ==
    /\ Call /\ lock = {} /\ c \in clients /\ ~ gone[c]
    /\ gone' = [gone EXCEPT ![c] = TRUE]
    /\ dis' = [dis EXCEPT ![c] = IF inRoom[c] = 0 THEN Closing ELSE [pc |-> "remove", obj |-> inRoom[c]]]
    /\ UNCHANGED <<clients, inRoom, rooms, lock, leave>>

DisconnectStep(c) ==
    /\ \/ RemoveMember(c, dis, dis', [dis[c] EXCEPT !.pc = "check"]) \/ Unlink(c, dis, dis')
       \/ Check(c, dis, dis', Closing) \/ Delete(c, dis, dis', Closing)
    /\ UNCHANGED leave

Close(c) ==
    /\ dis[c].pc = "close" /\ lock = {}
    /\ clients' = clients \ {c} /\ dis' = [dis EXCEPT ![c] = Idle]
    /\ UNCHANGED <<gone, inRoom, rooms, lock, leave, calls>>

CenterNext ==
    \/ CreateRoom
    \/ \E c \in Client :
        \/ Connect(c) \/ JoinRoom(c) \/ JoinEnds(c) \/ LeaveRoom(c) \/ LeaveStep(c)
        \/ Disconnect(c) \/ DisconnectStep(c) \/ Close(c)

CenterSpec == CenterInit /\ [][CenterNext]_centerVars

-----------------------------------------------------------------------------
CenterTypeOK ==
    /\ clients \subseteq Client /\ gone \in [Client -> BOOLEAN]
    /\ inRoom \in [Client -> 0..MaxObjs] /\ registered \in 0..MaxObjs
    /\ members \in [Obj -> SUBSET Client] /\ created \in 0..MaxObjs
    /\ \A c \in Client : {leave[c].pc, dis[c].pc} \subseteq {"idle", "remove", "unlink", "check", "delete", "close"}

(* Disconnect takes a client out of every room it is in before it forgets  *)
(* the client: no room keeps a member that is not connected.               *)
NoGhostMember == \A o \in Obj : members[o] \subseteq clients

(* A room that its last member has left is gone once the calls that left   *)
(* it have ended.                                                          *)
EmptyRoomIsDeleted ==
    (\A c \in Client : leave[c] = Idle /\ dis[c] = Idle) =>
        \A o \in used : members[o] = {} => registered # o

(* A client in a room can be reached by the room's name.                   *)
MembersReachable == \A o \in Obj, c \in Client : c \in members[o] => registered = o
=============================================================================
