------------------------------ MODULE ProxyPool ------------------------------
(***************************************************************************)
(* tcpproxy.ConnPool: the connections to one upstream.  A borrower is one  *)
(* call of Get with the use of its connection and the Close of the         *)
(* pooledConn.  Time is a connection that has passed IdleTimeout since     *)
(* lastUsed and a borrower that has passed its deadline.  Connections that *)
(* Get drops are closed at once: nobody else can reach them.               *)
(***************************************************************************)
EXTENDS Integers, Sequences, FiniteSets, SequencesExt

CONSTANTS
    Borrowers,
    MaxConns,
    Waits,      \* whether WaitTimeout is positive
    MaxDials    \* bound: connections that are opened

VARIABLES
    idleList,   \* sequence of connections
    activeCount, closed,
    conns,      \* sequence of [up, old, idle, removed]
    b,          \* per borrower [pc, conn, late]: late once its deadline has passed
    armed, due, \* timers of a borrower that will broadcast, and those that are about to
    waiters,    \* the notify list of cond
    shuffled,   \* Get has looked through more than one idle connection
    unarmed     \* borrowers whose deadline passed between the two readings of the clock

vars == <<idleList, activeCount, closed, conns, b, armed, due, waiters, shuffled, unarmed>>

None == 0
TypeOK ==
    /\ ToSet(idleList) \cup {b[u].conn : u \in Borrowers} \subseteq 0 .. Len(conns)
    /\ ToSet(waiters) = {u \in Borrowers : b[u].pc = "wait"}
    /\ \A u \in Borrowers : b[u].pc \in {"new", "look", "dial", "wait", "woken", "use", "put", "done"}
    /\ activeCount \in 0 .. MaxConns /\ due \in Nat

(* cond.Signal and cond.Broadcast, on top of the borrowers bs *)
Wake(bs, who) == [u \in Borrowers |-> IF u \in who THEN [bs[u] EXCEPT !.pc = "woken"] ELSE bs[u]]
Signal(bs) == /\ b' = Wake(bs, IF waiters = <<>> THEN {} ELSE {Head(waiters)})
              /\ waiters' = IF waiters = <<>> THEN <<>> ELSE Tail(waiters)
Broadcast(bs) == b' = Wake(bs, ToSet(waiters)) /\ waiters' = <<>>
NoSignal(bs) == b' = bs /\ UNCHANGED waiters

Goes(u, pc) == [b EXCEPT ![u].pc = pc]
Holds(u, c) == [b EXCEPT ![u].pc = "use", ![u].conn = c]

Shut(cs) == [c \in DOMAIN conns |-> IF c \in cs THEN [conns[c] EXCEPT !.up = FALSE] ELSE conns[c]]

(***************************************************************************)
(* The loop of Get over idleList, from its end to its start.  It writes    *)
(* the connections it keeps to the start of the list it is reading.        *)
(***************************************************************************)
Scan ==
    FoldLeft(LAMBDA s, i :
                IF conns[s.list[i]].old THEN [s EXCEPT !.expired = @ \cup {s.list[i]}]
                ELSE [s EXCEPT !.list[s.valid + 1] = s.list[i], !.valid = @ + 1,
                               !.selected = IF @ = None THEN s.list[i] ELSE @],
             [list |-> idleList, valid |-> 0, selected |-> None, expired |-> {}],
             Reverse([i \in 1 .. Len(idleList) |-> i]))
Kept == SubSeq(Scan.list, 1, Scan.valid)

(***************************************************************************)
(* The inner loop of Get, with mu held: give up, look again, or sleep until*)
(* woken, with a timer for the rest of the time.                           *)
(***************************************************************************)
WaitLoop(u, idle) ==
    IF closed \/ b[u].late THEN NoSignal(Goes(u, "done")) /\ UNCHANGED <<armed, unarmed>>
    ELSE IF idle # <<>> \/ activeCount < MaxConns THEN NoSignal(Goes(u, "look")) /\ UNCHANGED <<armed, unarmed>>
    ELSE /\ waiters' = Append(waiters, u)
         /\ \/ b' = Goes(u, "wait") /\ armed' = [armed EXCEPT ![u] = @ + 1] /\ UNCHANGED unarmed
            \/ /\ b' = [b EXCEPT ![u].pc = "wait", ![u].late = TRUE]
               /\ unarmed' = unarmed \cup {u} /\ UNCHANGED armed

Get(u) ==
    /\ b[u].pc = "new"
    /\ NoSignal(Goes(u, "look"))
    /\ UNCHANGED <<idleList, activeCount, closed, conns, armed, due, shuffled, unarmed>>

Look(u) ==
    /\ b[u].pc = "look"
    /\ \/ /\ closed /\ NoSignal(Goes(u, "done"))
          /\ UNCHANGED <<idleList, activeCount, conns, armed, shuffled, unarmed>>
       \/ /\ ~ closed
          /\ shuffled' = (shuffled \/ Len(idleList) > 1)
          /\ IF Scan.selected # None
             THEN /\ idleList' = RemoveFirst(Kept, Scan.selected)
                  /\ conns' = [Shut(Scan.expired) EXCEPT ![Scan.selected].idle = FALSE]
                  /\ activeCount' = activeCount + 1 /\ NoSignal(Holds(u, Scan.selected))
                  /\ UNCHANGED <<armed, unarmed>>
             ELSE /\ idleList' = <<>> /\ conns' = Shut(Scan.expired)
                  /\ IF activeCount < MaxConns
                     THEN /\ activeCount' = activeCount + 1 /\ NoSignal(Goes(u, "dial"))
                          /\ UNCHANGED <<armed, unarmed>>
                     ELSE /\ UNCHANGED activeCount
                          /\ IF Waits THEN WaitLoop(u, <<>>)
                             ELSE NoSignal(Goes(u, "done")) /\ UNCHANGED <<armed, unarmed>>
    /\ UNCHANGED <<closed, due>>

Woken(u) ==
    /\ b[u].pc = "woken" /\ WaitLoop(u, idleList)
    /\ UNCHANGED <<idleList, activeCount, closed, conns, due, shuffled>>

(* Connect succeeds or fails, outside of mu *)
Connected(u) ==
    /\ b[u].pc = "dial" /\ Len(conns) < MaxDials
    /\ conns' = Append(conns, [up |-> TRUE, old |-> FALSE, idle |-> FALSE, removed |-> FALSE])
    /\ NoSignal(Holds(u, Len(conns) + 1))
    /\ UNCHANGED <<idleList, activeCount, closed, armed, due, shuffled, unarmed>>

ConnectFails(u) ==
    /\ b[u].pc = "dial"
    /\ activeCount' = activeCount - 1 /\ Signal(Goes(u, "done"))
    /\ UNCHANGED <<idleList, closed, conns, armed, due, shuffled, unarmed>>

(* A Read or Write of the pooledConn fails and removes its connection. *)
RemoveConn(u) ==
    /\ b[u].pc = "use" /\ ~ conns[b[u].conn].removed
    /\ conns' = [Shut({b[u].conn}) EXCEPT ![b[u].conn].removed = TRUE]
    /\ activeCount' = activeCount - 1 /\ Signal(b)
    /\ UNCHANGED <<idleList, closed, armed, due, shuffled, unarmed>>

(* pooledConn.Close looks at the flags without mu, then Put takes mu. *)
CloseConnSlip(u) ==
    /\ b[u].pc = "use" /\ NoSignal(Goes(u, IF conns[b[u].conn].idle THEN "done" ELSE "put"))
    /\ UNCHANGED <<idleList, activeCount, closed, conns, armed, due, shuffled, unarmed>>
CloseConn(u) ==
    /\ b[u].pc = "use"
    /\ NoSignal(Goes(u, IF conns[b[u].conn].idle \/ conns[b[u].conn].removed THEN "done" ELSE "put"))
    /\ UNCHANGED <<idleList, activeCount, closed, conns, armed, due, shuffled, unarmed>>

Put(u) ==
    /\ b[u].pc = "put"
    /\ LET c == b[u].conn
           out == Goes(u, "done")
       IN IF closed THEN conns' = Shut({c}) /\ NoSignal(out) /\ UNCHANGED <<idleList, activeCount>>
          ELSE /\ activeCount' = activeCount - 1
               /\ IF conns[c].removed THEN NoSignal(out) /\ UNCHANGED <<conns, idleList>>
                  ELSE /\ Signal(out)
                       /\ IF conns[c].old THEN conns' = Shut({c}) /\ UNCHANGED idleList
                          ELSE /\ conns' = [conns EXCEPT ![c].idle = TRUE]
                               /\ idleList' = Append(idleList, c)
    /\ UNCHANGED <<closed, armed, due, shuffled, unarmed>>

(* idleTimeoutLoop *)
ReclaimIdle ==
    /\ ~ closed
    /\ LET expired == {c \in ToSet(idleList) : conns[c].old}
       IN /\ expired # {} /\ conns' = Shut(expired)
          /\ idleList' = SelectSeq(idleList, LAMBDA c : c \notin expired)
    /\ Broadcast(b)
    /\ UNCHANGED <<activeCount, closed, armed, due, shuffled, unarmed>>

Close ==
    /\ ~ closed /\ closed' = TRUE
    /\ Broadcast(b) /\ idleList' = <<>> /\ conns' = Shut(ToSet(idleList))
    /\ UNCHANGED <<activeCount, armed, due, shuffled, unarmed>>

(* Time passes. *)
Ages(c) ==
    /\ conns[c].up /\ ~ conns[c].old /\ conns' = [conns EXCEPT ![c].old = TRUE]
    /\ UNCHANGED <<idleList, activeCount, closed, b, armed, due, waiters, shuffled, unarmed>>

DeadlinePasses(u) ==
    /\ armed[u] > 0
    /\ b' = [b EXCEPT ![u].late = TRUE]
    /\ due' = due + armed[u] /\ armed' = [armed EXCEPT ![u] = 0]
    /\ UNCHANGED <<idleList, activeCount, closed, conns, waiters, shuffled, unarmed>>

TimerFires ==
    /\ due > 0 /\ due' = due - 1 /\ Broadcast(b)
    /\ UNCHANGED <<idleList, activeCount, closed, conns, armed, shuffled, unarmed>>

Init ==
    /\ idleList = <<>> /\ activeCount = 0 /\ closed = FALSE /\ conns = <<>>
    /\ b = [u \in Borrowers |-> [pc |-> "new", conn |-> None, late |-> FALSE]]
    /\ armed = [u \in Borrowers |-> 0] /\ due = 0 /\ waiters = <<>>
    /\ shuffled = FALSE /\ unarmed = {}

Next ==
    \/ \E u \in Borrowers : \/ Get(u) \/ Look(u) \/ Woken(u) \/ Connected(u) \/ ConnectFails(u)
                            \/ RemoveConn(u) \/ CloseConn(u) \/ Put(u) \/ DeadlinePasses(u)
    \/ ReclaimIdle \/ Close \/ TimerFires \/ \E c \in DOMAIN conns : Ages(c)

Spec == Init /\ [][Next]_vars

-----------------------------------------------------------------------------
Using(u) == b[u].pc \in {"use", "put"}

(* docs/tcpproxy.md, 6.1.2: Get removes the connection it selects from the  *)
(* idle list, so that no two borrowers have the same connection.            *)
ConnExclusive ==
    \A u \in Borrowers : Using(u) /\ conns[b[u].conn].up =>
        /\ b[u].conn \notin ToSet(idleList)
        /\ \A v \in Borrowers \ {u} : Using(v) => b[v].conn # b[u].conn

(* As long as no Get looked through two idle connections: each connection   *)
(* has one borrower or a place in the list, activeCount counts the          *)
(* borrowers, the limit covers the idle connections too, and a closed pool  *)
(* has no open connection left once the borrowers are gone.                 *)
PoolAccounts ==
    ~ shuffled =>
        /\ ConnExclusive
        /\ ~ closed => activeCount = Cardinality({u \in Borrowers : b[u].pc = "dial" \/ (Using(u) /\ ~ conns[b[u].conn].removed)})
        /\ activeCount + Len(idleList) <= MaxConns
        /\ closed /\ (\A u \in Borrowers : b[u].pc \in {"new", "done"}) => \A c \in DOMAIN conns : ~ conns[c].up

(* docs/tcpproxy.md, 6.1.7: nobody sleeps while there is a place unless     *)
(* somebody else is on the way to it or a timer is about to wake all, and   *)
(* nobody sleeps without a timer.  The clock is read twice: a deadline that *)
(* passes in between leaves a sleeper without one.                          *)
NoLostWakeup ==
    /\ \A u \in Borrowers : b[u].pc = "wait" => armed[u] > 0 \/ due > 0 \/ u \in unarmed
    /\ waiters # <<>> /\ (idleList # <<>> \/ activeCount < MaxConns \/ closed) =>
           unarmed # {} \/ due > 0 \/ \E v \in Borrowers : b[v].pc \in {"look", "woken"}
=============================================================================
