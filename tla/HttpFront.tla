----------------------------- MODULE HttpFront ------------------------------
(*****************************************************************************)
(* What stands in front of servers: the circuit breaker of the gateway       *)
(* package, its rate limiter, routes and health checks, the balancers of     *)
(* httplb and the chains of fallback. The parts share no state; each has     *)
(* its own specification.                                                    *)
(*****************************************************************************)
EXTENDS Integers, Sequences, SequencesExt, FiniteSets

(***************************************************************************)
(* gateway.CircuitBreaker with the requests of Router.Handler that pass    *)
(* through it.  A request asks Allow, runs, and records its outcome; a     *)
(* handler that panics records nothing.                                    *)
(***************************************************************************)

CONSTANTS
    Req,                \* requests that can be under way at a time
    windowSize, failureThreshold, openDuration, halfOpenMaxRequests,
    Forced, Panics,     \* whether Reset, ForceOpen, ForceClosed are called, and handlers panic
    CircuitMaxTime, CircuitMaxRequests  \* bounds

VARIABLES
    circuitNow, state,
    failures,       \* times
    lastOpenTime, halfOpenRequests, halfOpenSuccesses,
    req,            \* per request: the period it was admitted in, or None
    circuitRequests,
    period,         \* half-open periods begun so far
    heard,          \* outcomes recorded while closed: [t, ok]
    probed,         \* outcomes of the probes of this half-open period
    strayed, lost   \* in this half-open period an older request reported, a probe panicked

circuitVars == <<circuitNow, state, failures, lastOpenTime, halfOpenRequests, halfOpenSuccesses, req, circuitRequests, period, heard, probed, strayed, lost>>

None == [period |-> -1, probe |-> FALSE]

CircuitTypeOK ==
    /\ state \in {"closed", "open", "half-open"}
    /\ halfOpenRequests \in 0 .. halfOpenMaxRequests /\ halfOpenSuccesses \in 0 .. halfOpenMaxRequests
    /\ \A i \in 1 .. Len(failures) - 1 : failures[i] <= failures[i + 1]

(* checkStateTransition, at the start of Allow and State *)
Elapsed == state = "open" /\ circuitNow - lastOpenTime >= openDuration

ToHalfOpen == halfOpenRequests' = 0 /\ halfOpenSuccesses' = 0

State ==
    /\ Elapsed /\ state' = "half-open" /\ ToHalfOpen
    /\ period' = period + 1 /\ probed' = <<>> /\ strayed' = FALSE /\ lost' = FALSE
    /\ UNCHANGED <<circuitNow, failures, lastOpenTime, req, circuitRequests, heard>>

(* Allow; a request that is refused gets the fallback. *)
Allow(r) ==
    /\ req[r] = None /\ circuitRequests < CircuitMaxRequests /\ circuitRequests' = circuitRequests + 1
    /\ ~ Elapsed
    /\ \/ /\ state = "closed"
          /\ req' = [req EXCEPT ![r] = [period |-> period, probe |-> FALSE]] /\ UNCHANGED halfOpenRequests
       \/ /\ state = "open" \/ (state = "half-open" /\ halfOpenRequests >= halfOpenMaxRequests)
          /\ UNCHANGED <<req, halfOpenRequests>>
       \/ /\ state = "half-open" /\ halfOpenRequests < halfOpenMaxRequests
          /\ halfOpenRequests' = halfOpenRequests + 1
          /\ req' = [req EXCEPT ![r] = [period |-> period, probe |-> TRUE]]
    /\ UNCHANGED <<circuitNow, state, failures, lastOpenTime, halfOpenSuccesses, period, heard, probed, strayed, lost>>

OfThisPeriod(r) == req[r].probe /\ req[r].period = period
Reports(r, ok) ==
    /\ req[r] # None /\ req' = [req EXCEPT ![r] = None]
    /\ probed' = IF state = "half-open" /\ OfThisPeriod(r) THEN Append(probed, ok) ELSE probed
    /\ strayed' = (strayed \/ (state = "half-open" /\ ~ OfThisPeriod(r)))
    /\ UNCHANGED <<circuitNow, circuitRequests, halfOpenRequests, period, lost>>

ToClosed == state' = "closed" /\ failures' = <<>> /\ heard' = <<>>
ToOpen == state' = "open" /\ lastOpenTime' = circuitNow

RecordSuccess(r) ==
    /\ Reports(r, TRUE)
    /\ CASE state = "closed" -> /\ failures' = <<>> /\ heard' = Append(heard, [t |-> circuitNow, ok |-> TRUE])
                                /\ UNCHANGED <<state, halfOpenSuccesses>>
         [] state = "half-open" -> /\ halfOpenSuccesses' = halfOpenSuccesses + 1
                                   /\ IF halfOpenSuccesses + 1 >= halfOpenMaxRequests THEN ToClosed
                                      ELSE UNCHANGED <<state, failures, heard>>
         [] OTHER -> UNCHANGED <<state, failures, halfOpenSuccesses, heard>>
    /\ UNCHANGED lastOpenTime

(* countRecentFailures: from the end, up to the first that is too old *)
Recent(fs) == LET old == {i \in DOMAIN fs : fs[i] < circuitNow - windowSize}
              IN Len(fs) - (IF old = {} THEN 0 ELSE CHOOSE i \in old : \A j \in old : j <= i)

RecordFailure(r) ==
    /\ Reports(r, FALSE)
    /\ failures' = Append(failures, circuitNow)
    /\ heard' = IF state = "closed" THEN Append(heard, [t |-> circuitNow, ok |-> FALSE]) ELSE heard
    /\ IF state = "half-open" \/ (state = "closed" /\ Recent(failures') >= failureThreshold)
       THEN ToOpen ELSE UNCHANGED <<state, lastOpenTime>>
    /\ UNCHANGED halfOpenSuccesses

Panic(r) ==
    /\ Panics /\ req[r] # None /\ req' = [req EXCEPT ![r] = None]
    /\ lost' = (lost \/ OfThisPeriod(r))
    /\ UNCHANGED <<circuitNow, state, failures, lastOpenTime, halfOpenRequests, halfOpenSuccesses, circuitRequests, period, heard, probed, strayed>>

(* Reset and ForceClosed are the same *)
ForceClosed ==
    /\ Forced /\ ToClosed
    /\ UNCHANGED <<circuitNow, lastOpenTime, halfOpenRequests, halfOpenSuccesses, req, circuitRequests, period, probed, strayed, lost>>
ForceOpen ==
    /\ Forced /\ ToOpen
    /\ UNCHANGED <<circuitNow, failures, halfOpenRequests, halfOpenSuccesses, req, circuitRequests, period, heard, probed, strayed, lost>>

CircuitTick ==
    /\ circuitNow < CircuitMaxTime /\ circuitNow' = circuitNow + 1
    /\ UNCHANGED <<state, failures, lastOpenTime, halfOpenRequests, halfOpenSuccesses, req, circuitRequests, period, heard, probed, strayed, lost>>

CircuitInit ==
    /\ circuitNow = 0 /\ state = "closed" /\ failures = <<>> /\ lastOpenTime = 0
    /\ halfOpenRequests = 0 /\ halfOpenSuccesses = 0
    /\ req = [r \in Req |-> None] /\ circuitRequests = 0 /\ period = 0 /\ heard = <<>> /\ probed = <<>>
    /\ strayed = FALSE /\ lost = FALSE

Recorded == \E r \in Req : RecordSuccess(r) \/ RecordFailure(r)
CircuitNext ==
    \/ State \/ CircuitTick \/ ForceClosed \/ ForceOpen
    \/ \E r \in Req : Allow(r) \/ RecordSuccess(r) \/ RecordFailure(r) \/ Panic(r)

-----------------------------------------------------------------------------
(* docs/gateway.md, F10: an outcome opens the closed breaker only when the  *)
(* last failureThreshold outcomes were failures within the window.          *)
TripStep ==
    Recorded /\ state = "closed" /\ state' = "open" =>
        /\ Len(heard') >= failureThreshold
        /\ \A i \in Len(heard') - failureThreshold + 1 .. Len(heard') : ~ heard'[i].ok /\ heard'[i].t >= circuitNow - windowSize
TripsOnStreak == [][TripStep]_circuitVars

(* docs/gateway.md, F11: the breaker closes when all probes of this         *)
(* half-open period succeeded, unless an older request reported meanwhile.  *)
RecoverStep ==
    Recorded /\ state = "half-open" /\ state' = "closed" /\ ~ strayed' =>
        Len(probed') = halfOpenMaxRequests /\ \A i \in DOMAIN probed' : probed'[i]
RecoversByProbes == [][RecoverStep]_circuitVars

(* A breaker that is half-open lets a request in or waits for one: it does  *)
(* not refuse for good, unless a probe panicked.                            *)
NotStuckHalfOpen ==
    state = "half-open" /\ halfOpenRequests = halfOpenMaxRequests /\ ~ lost => \E r \in Req : OfThisPeriod(r)

-----------------------------------------------------------------------------
(***************************************************************************)
(* What the gateway does with a request before an upstream gets it: the    *)
(* token bucket of the client, the token, the route and the health of its  *)
(* upstream.  Paths and wildcard prefixes are sequences; the probes of the *)
(* HealthChecker run without its lock while upstreams are registered anew. *)
(***************************************************************************)

CONSTANTS
    Client, Path,
    Exact,          \* routes: path -> upstream
    Wildcards,      \* sequence of [prefix, upstream]
    Upstream,       \* those the checker knows
    ExemptPath,
    capacity, rate, refillRate, failThreshold, passThreshold,
    GateMaxTime, MaxHandlers, GateMaxRequests, MaxChecks  \* bounds

VARIABLES
    gateNow,
    bucket,     \* client -> [tokens, lastRefill], or NoBucket
    uh,         \* upstream -> [handler, healthy, failCount, passCount]
    probe,      \* the upstream checkOne is probing without the lock, or NoProbe
    answer,     \* what the latest request got: [path, code, upstream]
    taken,      \* client -> times at which its bucket gave a token
    gateRequests, checks

gateVars == <<gateNow, bucket, uh, probe, answer, taken, gateRequests, checks>>

NoBucket == [tokens |-> -1, lastRefill |-> 0]
NoProbe == "none"
NoAnswer == [path |-> <<>>, code |-> 0, upstream |-> "none"]

GateTypeOK ==
    /\ \A c \in Client : bucket[c] = NoBucket \/ bucket[c].tokens \in 0 .. capacity
    /\ \A u \in Upstream : uh[u].failCount * uh[u].passCount = 0

Least(a, b) == IF a < b THEN a ELSE b

(***************************************************************************)
(* getBucket and take: whole refills since lastRefill, which moves on by   *)
(* as many.                                                                *)
(***************************************************************************)
Found(c) == IF bucket[c] = NoBucket THEN [tokens |-> capacity, lastRefill |-> gateNow] ELSE bucket[c]
Refilled(k) == LET n == (gateNow - k.lastRefill) \div refillRate
               IN IF n > 0 THEN [tokens |-> Least(k.tokens + n * rate, capacity), lastRefill |-> k.lastRefill + n * refillRate] ELSE k

(* Router.Match: an exact route with a healthy upstream, else the longest    *)
(* wildcard, the first of the longest.  Upstreams nobody checks are healthy. *)
isUpstreamHealthy(u) == u \in Upstream => uh[u].healthy
Fits(i, p) == IsPrefix(Wildcards[i].prefix, p)
GateBest(p) == CHOOSE i \in DOMAIN Wildcards :
               Fits(i, p) /\ \A j \in DOMAIN Wildcards : Fits(j, p) =>
                   \/ Len(Wildcards[j].prefix) < Len(Wildcards[i].prefix)
                   \/ Len(Wildcards[j].prefix) = Len(Wildcards[i].prefix) /\ i <= j
Match(p) ==
    IF p \in DOMAIN Exact /\ isUpstreamHealthy(Exact[p]) THEN Exact[p]
    ELSE IF \E i \in DOMAIN Wildcards : Fits(i, p) /\ isUpstreamHealthy(Wildcards[GateBest(p)].upstream)
         THEN Wildcards[GateBest(p)].upstream ELSE "none"

(***************************************************************************)
(* ServeHTTP: the limiter comes before the token and the route.            *)
(***************************************************************************)
ServeHTTP(c, p, valid) ==
    /\ gateRequests < GateMaxRequests /\ gateRequests' = gateRequests + 1
    /\ LET k == Refilled(Found(c))
           got == k.tokens > 0
           u == Match(p)
       IN /\ bucket' = [bucket EXCEPT ![c] = IF got THEN [k EXCEPT !.tokens = @ - 1] ELSE k]
          /\ taken' = IF got THEN [taken EXCEPT ![c] = Append(@, gateNow)] ELSE taken
          /\ answer' = CASE ~ got -> [path |-> p, code |-> 429, upstream |-> "none"]
                         [] got /\ p \notin ExemptPath /\ ~ valid -> [path |-> p, code |-> 401, upstream |-> "none"]
                         [] got /\ (p \in ExemptPath \/ valid) -> [path |-> p, code |-> IF u = "none" THEN 404 ELSE 200, upstream |-> u]
    /\ UNCHANGED <<gateNow, uh, probe, checks>>

(***************************************************************************)
(* HealthChecker; unlike that of tcpproxy it counts the probe of a handler *)
(* that was replaced meanwhile for the new one.                            *)
(***************************************************************************)
RegisterUpstream(u) ==
    /\ uh[u].handler < MaxHandlers
    /\ uh' = [uh EXCEPT ![u] = [handler |-> @.handler + 1, healthy |-> TRUE, failCount |-> 0, passCount |-> 0]]
    /\ answer' = NoAnswer
    /\ UNCHANGED <<gateNow, bucket, probe, taken, gateRequests, checks>>

CheckOne(u) ==
    /\ probe = NoProbe /\ checks < MaxChecks /\ checks' = checks + 1
    /\ probe' = u
    /\ UNCHANGED <<gateNow, bucket, uh, answer, taken, gateRequests>>

Probed(ok) ==
    /\ probe # NoProbe /\ probe' = NoProbe /\ answer' = NoAnswer
    /\ LET u == probe
           f == IF ok THEN 0 ELSE uh[u].failCount + 1
           s == IF ok THEN uh[u].passCount + 1 ELSE 0
           h == (uh[u].healthy /\ f < failThreshold) \/ (~ uh[u].healthy /\ s >= passThreshold)
       IN uh' = [uh EXCEPT ![u] = [@ EXCEPT !.failCount = f, !.passCount = s, !.healthy = h]]
    /\ UNCHANGED <<gateNow, bucket, taken, gateRequests, checks>>

SetHealthy(u, h) ==
    /\ uh' = [uh EXCEPT ![u] = [@ EXCEPT !.healthy = h, !.passCount = IF h THEN passThreshold ELSE 0,
                                         !.failCount = IF h THEN 0 ELSE failThreshold]]
    /\ answer' = NoAnswer /\ UNCHANGED <<gateNow, bucket, probe, taken, gateRequests, checks>>

GateTick ==
    /\ gateNow < GateMaxTime /\ gateNow' = gateNow + 1
    /\ UNCHANGED <<bucket, uh, probe, answer, taken, gateRequests, checks>>

GateInit ==
    /\ gateNow = 0 /\ bucket = [c \in Client |-> NoBucket] /\ probe = NoProbe /\ answer = NoAnswer
    /\ uh = [u \in Upstream |-> [handler |-> 1, healthy |-> TRUE, failCount |-> 0, passCount |-> 0]]
    /\ taken = [c \in Client |-> <<>>] /\ gateRequests = 0 /\ checks = 0

GateNext ==
    \/ GateTick \/ \E c \in Client, p \in Path, v \in BOOLEAN : ServeHTTP(c, p, v)
    \/ \E u \in Upstream : \/ RegisterUpstream(u) \/ CheckOne(u) \/ SetHealthy(u, TRUE) \/ SetHealthy(u, FALSE)
    \/ Probed(TRUE) \/ Probed(FALSE)

-----------------------------------------------------------------------------
(* Between any two moments a client gets at most a full bucket and the      *)
(* refills that fall between them.                                          *)
RateBounded ==
    \A c \in Client : \A i, j \in DOMAIN taken[c] : i <= j =>
        j - i + 1 <= capacity + rate * ((taken[c][j] - taken[c][i]) \div refillRate + 1)

(* A request goes to a healthy upstream: that of its path, or else, when    *)
(* the path has none, to the wildcard that fits it most closely.            *)
RoutedRight ==
    answer.code = 200 =>
        /\ isUpstreamHealthy(answer.upstream)
        /\ \/ answer.path \in DOMAIN Exact /\ answer.upstream = Exact[answer.path]
           \/ /\ answer.path \in DOMAIN Exact => ~ isUpstreamHealthy(Exact[answer.path])
              /\ \E i \in DOMAIN Wildcards : /\ Wildcards[i].upstream = answer.upstream /\ Fits(i, answer.path)
                                             /\ \A j \in DOMAIN Wildcards : Fits(j, answer.path) =>
                                                    Len(Wildcards[j].prefix) <= Len(Wildcards[i].prefix)

-----------------------------------------------------------------------------
(***************************************************************************)
(* httplb: a pool of servers that drain before they are removed, and four  *)
(* ways to choose among the healthy ones.  Round robin and least           *)
(* connections choose from a snapshot without a lock; weighted round robin *)
(* and consistent hashing choose under the lock that RemoveServer takes.   *)
(* Servers are objects: an address that is added again is a new one.       *)
(***************************************************************************)

CONSTANTS
    Caller, Addr, Key,
    Weights,            \* weights a server is added with
    Points,             \* hashes of the virtual nodes of each address: address -> weight -> set
    KeyHash,            \* key -> hash
    Algorithms,         \* those of the instance
    MaxServers, MaxPicks, MaxCounter    \* bounds: objects made, picks while steady, the counter

VARIABLES
    algorithm,
    servers,    \* the objects: address, weight, status, activeConn
    order,      \* ServerPool.order: the objects in the pool
    counter,    \* RoundRobin.counter
    weighted,   \* WeightedRoundRobin: current weight of each object
    call,       \* where each caller is, what it has read, the server it holds
    steady,     \* nothing has changed since the first pick, see StaysSteady
    picks       \* how often each object was picked while steady

balancerVars == <<algorithm, servers, order, counter, weighted, call, steady, picks>>

Idle == [step |-> "idle", snap |-> <<>>, at |-> 0, min |-> 0, server |-> 0]

BalancerInit ==
    /\ algorithm \in Algorithms
    /\ servers = <<>> /\ order = <<>> /\ counter = 0 /\ weighted = <<>>
    /\ call = [c \in Caller |-> Idle] /\ steady = TRUE /\ picks = <<>>

Pooled(a) == \E i \in DOMAIN order : servers[order[i]].addr = a
Object(a) == CHOOSE o \in ToSet(order) : servers[o].addr = a
Healthy == SelectSeq(order, LAMBDA o : servers[o].status = "up")
Picks == FoldLeft(+, 0, picks)
Fresh == Picks = 0 /\ \A c \in Caller : call[c].step = "idle"
StaysSteady(still) ==
    /\ steady' = (steady /\ still)
    /\ picks' = IF steady' THEN picks ELSE [o \in DOMAIN picks |-> 0]

AddServer(a, w) ==
    /\ (algorithm \in {"round_robin", "least_connections"} => w = 1)      \* these ignore it
    /\ ~ Pooled(a) /\ Len(servers) < MaxServers
    /\ servers' = Append(servers, [addr |-> a, weight |-> w, status |-> "up", conn |-> 0])
    /\ order' = Append(order, Len(servers) + 1)
    /\ weighted' = Append(weighted, 0) /\ picks' = Append([o \in DOMAIN picks |-> 0], 0)
    /\ steady' = (steady /\ Fresh)
    /\ UNCHANGED <<algorithm, counter, call>>

Removable(o) == servers[o].status = "draining" /\ servers[o].conn = 0
RemoveServer(a) ==
    /\ Pooled(a) /\ Removable(Object(a))
    /\ order' = SelectSeq(order, LAMBDA o : o # Object(a))
    /\ StaysSteady(Fresh) /\ UNCHANGED <<algorithm, servers, counter, weighted, call>>

Mark(a, from, to) ==
    /\ Pooled(a) /\ servers[Object(a)].status \in from
    /\ servers' = [servers EXCEPT ![Object(a)].status = to]
    /\ StaysSteady(Fresh) /\ UNCHANGED <<algorithm, order, counter, weighted, call>>
DrainServer(a) == Mark(a, {"up"}, "draining")
RestoreServer(a) == Mark(a, {"draining", "down"}, "up")
MarkDown(a) == Mark(a, {"up", "draining"}, "down")

-----------------------------------------------------------------------------
IncConn(c, o) ==
    /\ steady => Picks < MaxPicks
    /\ servers' = [servers EXCEPT ![o].conn = @ + 1]
    /\ call' = [call EXCEPT ![c] = [Idle EXCEPT !.step = "serving", !.server = o]]
    /\ picks' = IF steady THEN [picks EXCEPT ![o] = @ + 1] ELSE picks

(* RoundRobin.Next and LeastConnections.Next: GetHealthyServers, *)
Choosing(c) == call[c].step \in {"read", "chosen"}
Snapshot(c) ==
    /\ algorithm \in {"round_robin", "least_connections"} /\ call[c].step = "idle" /\ Healthy # <<>>
    /\ call' = [call EXCEPT ![c] = [Idle EXCEPT !.step = "read", !.snap = Healthy, !.at = 1]]
    /\ StaysSteady(algorithm = "least_connections" => ~ \E d \in Caller : Choosing(d))
    /\ UNCHANGED <<algorithm, servers, order, counter, weighted>>
(* then the one the counter says *)
Chosen(c, o) == call' = [call EXCEPT ![c] = [Idle EXCEPT !.step = "chosen", !.server = o]]
Turn(c) == (counter % Len(call[c].snap)) + 1
RoundRobin(c) ==
    /\ algorithm = "round_robin" /\ call[c].step = "read" /\ counter < MaxCounter
    /\ counter' = counter + 1
    /\ Chosen(c, call[c].snap[Turn(c)])
    /\ UNCHANGED <<algorithm, servers, order, weighted, steady, picks>>
(* or, one after another, the first with the fewest connections, *)
Fewer(c, o) == call[c].at = 1 \/ servers[o].conn < call[c].min
LeastConnections(c) ==
    /\ algorithm = "least_connections" /\ call[c].step = "read"
    /\ LET o == call[c].snap[call[c].at]
           best == IF Fewer(c, o) THEN o ELSE call[c].server
       IN IF call[c].at = Len(call[c].snap) THEN Chosen(c, best)
          ELSE call' = [call EXCEPT ![c].at = @ + 1, ![c].server = best, ![c].min = IF Fewer(c, o) THEN servers[o].conn ELSE @]
    /\ UNCHANGED <<algorithm, servers, order, counter, weighted, steady, picks>>
(* and it is counted. *)
Count(c) ==
    /\ call[c].step = "chosen" /\ IncConn(c, call[c].server)
    /\ UNCHANGED <<algorithm, order, counter, weighted, steady>>

(* WeightedRoundRobin.Next: every healthy server gains its weight, the      *)
(* first with the most is picked and loses the total.                       *)
Total(s) == FoldLeft(LAMBDA t, o : t + servers[o].weight, 0, s)
Gained(s) == [o \in DOMAIN weighted |-> IF o \in ToSet(s) THEN weighted[o] + servers[o].weight ELSE weighted[o]]
BalancerBest(s, w) == s[CHOOSE i \in DOMAIN s : /\ \A j \in DOMAIN s : w[s[i]] >= w[s[j]]
                                        /\ \A j \in 1 .. i - 1 : w[s[i]] > w[s[j]]]
Weighted(c, s, w, o) ==
    /\ weighted' = [w EXCEPT ![o] = @ - Total(s)] /\ IncConn(c, o)
    /\ UNCHANGED <<algorithm, order, counter, steady>>
WeightedRoundRobin(c) ==
    /\ algorithm = "weighted_round_robin" /\ call[c].step = "idle" /\ Healthy # <<>>
    /\ Weighted(c, Healthy, Gained(Healthy), BalancerBest(Healthy, Gained(Healthy)))

(* ConsistentHash.Next: clockwise from the key to the first virtual node of *)
(* a healthy server.  Hashes do not collide.                                *)
Ring(o) == Points[servers[o].addr][servers[o].weight]
Distance(k, p) == IF p >= KeyHash[k] THEN p - KeyHash[k] ELSE p - KeyHash[k] + 100
Route(k) == CHOOSE o \in ToSet(Healthy) : \E p \in Ring(o) : \A q \in ToSet(Healthy) : \A r \in Ring(q) : Distance(k, p) <= Distance(k, r)
ConsistentHash(c, k) ==
    /\ algorithm = "consistent_hash" /\ call[c].step = "idle" /\ Healthy # <<>>
    /\ IncConn(c, Route(k))
    /\ UNCHANGED <<algorithm, order, counter, weighted, steady>>

(* ServeHTTP is done: DecConn *)
Release(c) ==
    /\ call[c].step = "serving"
    /\ servers' = [servers EXCEPT ![call[c].server].conn = @ - 1]
    /\ call' = [call EXCEPT ![c] = Idle]
    /\ StaysSteady(algorithm # "least_connections")
    /\ UNCHANGED <<algorithm, order, counter, weighted>>

BalancerNext ==
    \/ \E a \in Addr : (\E w \in Weights : AddServer(a, w)) \/ RemoveServer(a) \/ DrainServer(a) \/ RestoreServer(a) \/ MarkDown(a)
    \/ \E c \in Caller : \/ Snapshot(c) \/ RoundRobin(c) \/ LeastConnections(c) \/ Count(c) \/ WeightedRoundRobin(c) \/ Release(c)
                         \/ \E k \in Key : ConsistentHash(c, k)

BalancerTypeOK == /\ order \in Seq(DOMAIN servers) /\ counter \in Nat /\ \A o \in DOMAIN servers : servers[o].conn \in 0 .. Cardinality(Caller)

-----------------------------------------------------------------------------
(* While nothing changes, requests are shared as promised.  Weighted round  *)
(* robin is smooth: after any number of picks each server is less than one  *)
(* pick away from its exact share.  Round robin has counted no server more  *)
(* than once more than another, apart from the picks under way.  Least      *)
(* connections, one caller at a time and with no request done, likewise.    *)
FairShares ==
    steady => \A o \in ToSet(Healthy) :
        /\ algorithm = "weighted_round_robin" =>
             LET off == picks[o] * Total(Healthy) - Picks * servers[o].weight
             IN 0 - Total(Healthy) < off /\ off < Total(Healthy)
        /\ algorithm \in {"round_robin", "least_connections"} => \A p \in ToSet(Healthy) :
             picks[o] <= picks[p] + 1 + Cardinality({c \in Caller : call[c].step = "chosen" /\ call[c].server = p})

(* A server that was removed serves nobody, where the choice is made under  *)
(* the lock that RemoveServer takes; and always the connections counted are *)
(* those of the requests being served.  (Round robin and least connections  *)
(* may still send a request to a removed server.)                           *)
RemovedIsIdle ==
    /\ algorithm \in {"weighted_round_robin", "consistent_hash"} =>
        \A c \in Caller : call[c].step = "serving" => call[c].server \in ToSet(order)
    /\ \A o \in DOMAIN servers : servers[o].conn = Cardinality({c \in Caller : call[c].step = "serving" /\ call[c].server = o})

(* Consistent hashing moves only the keys it must: a key goes to another    *)
(* server only if its server is no longer healthy or the other one has just *)
(* become so.                                                               *)
KeysStayStep ==
    algorithm = "consistent_hash" /\ Healthy # <<>> /\ Healthy' # <<>> =>
        \A k \in Key : Route(k)' # Route(k) => Route(k) \notin ToSet(Healthy') \/ Route(k)' \notin ToSet(Healthy)
KeysStay == [][KeysStayStep]_balancerVars

-----------------------------------------------------------------------------
(***************************************************************************)
(* fallback.Chain: calls of Execute that walk down the strategies, the     *)
(* probe loop of the active mode and the recoveries of the passive mode    *)
(* that bring the chain back to the main strategy, 1.  What a handler      *)
(* returns is a choice.  Error rates and success counts are taken over     *)
(* windows of time: any value is possible once there was such an event.    *)
(***************************************************************************)

CONSTANTS
    N,              \* strategies, in the order of their priorities
    HasCond,        \* those with a TriggerCond
    Trig,           \* strategy -> the errors its TriggerCond matches
    Rated,          \* those with a TriggerCond on the error rate
    Err, Exec,
    Mode,           \* "active" or "passive"
    ProbeSuccess, ProbeFailure,   \* thresholds
    MaxRuns, MaxForced  \* bounds: calls of Execute; forced switches and starts

VARIABLES
    currentIndex, chain,    \* chain: the ChainState
    st,                     \* strategy -> StrategyState
    failedOnce,             \* strategies with a failure in their window
    consecutiveFail,        \* whether the latest run of the main strategy failed
    ex,                     \* per call of Execute [pc, i, err, tried, stale]
    rec,                    \* the recovery: [pc, ok, bad]
    running, runs, forced,
    outrun                  \* the index was forced, or set by a call that began before the last switch

chainVars == <<currentIndex, chain, st, failedOnce, consecutiveFail, ex, rec, running, runs, forced, outrun>>

Strategy == 1 .. N
NoErr == "none"
Away == [pc |-> "idle", i |-> 0, err |-> NoErr, tried |-> {}, stale |-> FALSE]
NoRec == [pc |-> "idle", ok |-> 0, bad |-> 0]

ChainTypeOK ==
    /\ currentIndex \in Strategy /\ chain \in {"healthy", "degraded", "recovering"}
    /\ st \in [Strategy -> {"active", "degraded", "recovering", "warming"}]
    /\ \A e \in Exec : ex[e].pc \in {"idle", "try", "run", "won", "mark"} /\ ex[e].i \in 0 .. N + 1
    /\ rec.pc \in {"idle", "probe", "init", "warm", "switch", "index"}

(***************************************************************************)
(* checkTriggerConditions: where the walk goes on after err, 0 if it does  *)
(* not jump                                                                *)
(***************************************************************************)
Later(i, err) == {j \in HasCond : j > i /\ err \in Trig[j]}
Jump(i, err) ==
    IF i \notin HasCond \/ err = NoErr THEN 0
    ELSE IF Later(i, err) # {} THEN CHOOSE j \in Later(i, err) : \A k \in Later(i, err) : j <= k
    ELSE IF err \in Trig[i] /\ i < N THEN i + 1 ELSE 0

Execute(e) ==
    /\ running /\ ex[e] = Away /\ runs < MaxRuns /\ runs' = runs + 1
    /\ ex' = [ex EXCEPT ![e] = [Away EXCEPT !.pc = "try", !.i = currentIndex]]
    /\ UNCHANGED <<currentIndex, chain, st, failedOnce, consecutiveFail, rec, running, forced, outrun>>

(* shouldSkipByErrorRate, then the jump for the error before, then the handler *)
Try(e) ==
    /\ ex[e].pc = "try" /\ ex[e].i <= N
    /\ LET i == ex[e].i
           jump == Jump(i, ex[e].err)
       IN ex' = [ex EXCEPT ![e].pc = IF jump = 0 THEN "run" ELSE "try", ![e].i = IF jump = 0 THEN i ELSE jump]
    /\ UNCHANGED <<currentIndex, chain, st, failedOnce, consecutiveFail, rec, running, runs, forced, outrun>>

SkipByErrorRate(e) ==
    /\ ex[e].pc = "try" /\ ex[e].i \in Rated \cap failedOnce
    /\ ex' = [ex EXCEPT ![e].i = @ + 1]
    /\ UNCHANGED <<currentIndex, chain, st, failedOnce, consecutiveFail, rec, running, runs, forced, outrun>>

(* every strategy has failed or was passed over *)
AllFailed(e) ==
    /\ ex[e].pc = "try" /\ ex[e].i > N
    /\ chain' = "degraded" /\ ex' = [ex EXCEPT ![e] = Away]
    /\ UNCHANGED <<currentIndex, st, failedOnce, consecutiveFail, rec, running, runs, forced, outrun>>

(* executeStrategy and updateStrategyStats *)
Runs(e, err) ==
    /\ ex[e].pc = "run"
    /\ LET i == ex[e].i
       IN /\ ex' = [ex EXCEPT ![e].pc = IF err = NoErr THEN "won" ELSE "mark", ![e].err = IF err = NoErr THEN @ ELSE err,
                              ![e].tried = @ \cup {i}]
          /\ failedOnce' = IF err = NoErr THEN failedOnce ELSE failedOnce \cup {i}
          /\ consecutiveFail' = IF i = 1 THEN err # NoErr ELSE consecutiveFail
    /\ UNCHANGED <<currentIndex, chain, st, rec, running, runs, forced, outrun>>

(* markStrategyDegraded, and the jump for this error *)
MarkDegraded(e) ==
    /\ ex[e].pc = "mark"
    /\ LET jump == Jump(ex[e].i, ex[e].err)
       IN /\ st' = [st EXCEPT ![ex[e].i] = "degraded"]
          /\ ex' = [ex EXCEPT ![e].pc = "try", ![e].i = IF jump = 0 THEN @ + 1 ELSE jump]
    /\ UNCHANGED <<currentIndex, chain, failedOnce, consecutiveFail, rec, running, runs, forced, outrun>>

(* updateActiveStrategy and checkPassiveRecovery *)
MayRecover == Mode = "passive" /\ ~ consecutiveFail /\ rec = NoRec
Won(e, recover) ==
    /\ ex[e].pc = "won" /\ ex' = [ex EXCEPT ![e] = Away]
    /\ currentIndex' = ex[e].i
    /\ outrun' = (outrun \/ ex[e].stale)
    /\ recover => ex[e].i # 1 /\ MayRecover
    /\ rec' = IF recover THEN [NoRec EXCEPT !.pc = "init"] ELSE rec
    /\ UNCHANGED <<chain, st, failedOnce, consecutiveFail, running, runs, forced>>

(***************************************************************************)
(* runProbeCycle                                                           *)
(***************************************************************************)
ProbeCycle ==
    /\ running /\ Mode = "active" /\ rec = NoRec /\ currentIndex # 1 /\ st[1] = "degraded"
    /\ st' = [st EXCEPT ![1] = "recovering"] /\ rec' = [NoRec EXCEPT !.pc = "probe"]
    /\ UNCHANGED <<currentIndex, chain, failedOnce, consecutiveFail, ex, running, runs, forced, outrun>>

Probe(good) ==
    /\ rec.pc = "probe" /\ running
    /\ LET ok == IF good THEN rec.ok + 1 ELSE 0
           bad == IF good THEN 0 ELSE rec.bad + 1
       IN IF ok >= ProbeSuccess THEN rec' = [NoRec EXCEPT !.pc = "init"] /\ UNCHANGED st
          ELSE IF bad >= ProbeFailure THEN rec' = NoRec /\ st' = [st EXCEPT ![1] = "degraded"]
          ELSE rec' = [rec EXCEPT !.ok = ok, !.bad = bad] /\ UNCHANGED st
    /\ UNCHANGED <<currentIndex, chain, failedOnce, consecutiveFail, ex, running, runs, forced, outrun>>

(* 2 * ProbeSuccess attempts without a streak *)
ProbesUsedUp ==
    /\ rec.pc = "probe" /\ running /\ rec.ok + rec.bad > 0
    /\ rec' = NoRec /\ st' = [st EXCEPT ![1] = "degraded"]
    /\ UNCHANGED <<currentIndex, chain, failedOnce, consecutiveFail, ex, running, runs, forced, outrun>>

(* stopCh is closed during the probes: the state stays *)
ProbeStops ==
    /\ rec.pc = "probe" /\ ~ running /\ rec' = NoRec
    /\ UNCHANGED <<currentIndex, chain, st, failedOnce, consecutiveFail, ex, running, runs, forced, outrun>>

(* initiateRecovery *)
WarmUp ==
    /\ rec.pc = "init" /\ rec' = [rec EXCEPT !.pc = "warm"]
    /\ st' = [st EXCEPT ![1] = "warming"] /\ chain' = "recovering"
    /\ UNCHANGED <<currentIndex, failedOnce, consecutiveFail, ex, running, runs, forced, outrun>>

WarmedUp(good) ==
    /\ rec.pc = "warm" /\ (good => running)
    /\ IF good THEN rec' = [rec EXCEPT !.pc = "switch"] /\ UNCHANGED <<st, chain>>
       ELSE rec' = NoRec /\ st' = [st EXCEPT ![1] = "degraded"] /\ chain' = "degraded"
    /\ UNCHANGED <<currentIndex, failedOnce, consecutiveFail, ex, running, runs, forced, outrun>>

(* switchToMainStrategy: first the state, then, under the lock of the chain, the index *)
Activate ==
    /\ rec.pc = "switch" /\ rec' = [rec EXCEPT !.pc = "index"]
    /\ st' = [st EXCEPT ![1] = "active"] /\ consecutiveFail' = FALSE
    /\ UNCHANGED <<currentIndex, chain, failedOnce, ex, running, runs, forced, outrun>>

(* the calls under way began before the switch *)
Overtaken == [e \in Exec |-> IF ex[e] = Away THEN Away ELSE [ex[e] EXCEPT !.stale = TRUE]]

SwitchToMain ==
    /\ rec.pc = "index" /\ rec' = NoRec
    /\ st' = [s \in Strategy |-> IF s = 1 THEN st[1] ELSE "active"]
    /\ currentIndex' = 1 /\ chain' = "healthy" /\ ex' = Overtaken /\ outrun' = FALSE
    /\ UNCHANGED <<failedOnce, consecutiveFail, running, runs, forced>>

ForceSwitchToStrategy(s) ==
    /\ forced < MaxForced /\ forced' = forced + 1
    /\ currentIndex' = s /\ st' = [st EXCEPT ![s] = "active"]
    /\ ex' = Overtaken /\ outrun' = (s # 1)
    /\ UNCHANGED <<chain, failedOnce, consecutiveFail, rec, running, runs>>

Stop ==
    /\ running /\ running' = FALSE
    /\ UNCHANGED <<currentIndex, chain, st, failedOnce, consecutiveFail, ex, rec, runs, forced, outrun>>

(* after Stop has waited for the probe loop *)
Start ==
    /\ ~ running /\ (Mode = "active" => rec = NoRec) /\ forced < MaxForced /\ forced' = forced + 1
    /\ running' = TRUE /\ chain' = "healthy" /\ currentIndex' = 1 /\ ex' = Overtaken /\ outrun' = FALSE
    /\ UNCHANGED <<st, failedOnce, consecutiveFail, rec, runs>>

ChainInit ==
    /\ currentIndex = 1 /\ chain = "healthy" /\ st = [s \in Strategy |-> "active"]
    /\ failedOnce = {} /\ consecutiveFail = FALSE
    /\ ex = [e \in Exec |-> Away] /\ rec = NoRec /\ running = TRUE /\ runs = 0 /\ forced = 0 /\ outrun = FALSE

ChainNext ==
    \/ \E e \in Exec : \/ Execute(e) \/ Try(e) \/ SkipByErrorRate(e) \/ AllFailed(e) \/ MarkDegraded(e)
                       \/ \E err \in Err \cup {NoErr} : Runs(e, err)
                       \/ \E r \in BOOLEAN : Won(e, r)
    \/ \E good \in BOOLEAN : Probe(good) \/ WarmedUp(good)
    \/ ProbeCycle \/ ProbesUsedUp \/ ProbeStops \/ WarmUp \/ Activate \/ SwitchToMain \/ Stop \/ Start
    \/ \E s \in Strategy : ForceSwitchToStrategy(s)

-----------------------------------------------------------------------------
(* docs/fallback.md: the active mode brings the chain back.  While no call  *)
(* and no recovery is under way, a chain that has left its main strategy    *)
(* has marked it degraded, which the probe loop looks for, unless it left   *)
(* for the error rate or a call from before the last switch came in late.   *)
NotStranded ==
    Mode = "active" /\ running /\ rec = NoRec /\ (\A e \in Exec : ex[e] = Away) /\ currentIndex # 1 =>
        st[1] = "degraded" \/ outrun \/ 1 \in Rated

(* A call reports that every strategy has failed only after the last one,   *)
(* the default of the chain, was run or passed over for its error rate: no  *)
(* jump of the trigger conditions leads past it.                            *)
LastResortTried ==
    \A e \in Exec : ex[e].pc = "try" /\ ex[e].i > N => N \in ex[e].tried \cup Rated
=============================================================================
