------------------------------ MODULE Sessions ------------------------------
(*****************************************************************************)
(* Who a request is from: the tokens of jwtmgr, the authorization server     *)
(* oauth2svc and the replicated sessions of distsess. The parts share no     *)
(* state; each has its own specification.                                    *)
(*****************************************************************************)
EXTENDS Integers, Sequences, FiniteSets

(***************************************************************************)
(* jwtmgr: signed access tokens with an expiry, a blacklist whose entries  *)
(* expire and are swept, renewal within a window after the expiry, and     *)
(* refresh tokens that rotate.  The manager has no lock of its own: each   *)
(* call of the blacklist and of the refresh store is a step.  Time counts  *)
(* half seconds, as a signed token keeps whole seconds only.  A token is   *)
(* its position in the sequence of those signed.                           *)
(***************************************************************************)

CONSTANTS
    JwtCaller, Ops,    \* Ops: the calls the callers make
    JwtAccessTokenTTL, JwtRefreshTokenTTL, RenewalWindow, BlacklistTTL,   \* Config
    AutoBlacklistOld, JwtRefreshTokenRotation,
    NotBefore,      \* how long after the issue a token becomes valid; 0: no NotBefore claim
    JwtMaxTime, JwtMaxTokens, MaxRefresh  \* bounds: the clock, tokens signed, refresh tokens saved

VARIABLES
    jwtNow,
    jwtTokens,     \* claims of the tokens signed: exp and nbf, 0 for none
    blacklist,  \* MemoryBlacklist.items: expiry of each entry
    closed,     \* MemoryBlacklist.closed
    jwtRefresh,    \* MemoryRefreshStore.tokens
    jwtCall,       \* what each caller is doing
    retired,    \* tokens whose RevokeToken or RenewToken has answered
    spent       \* refresh tokens whose rotation has answered

jwtVars == <<jwtNow, jwtTokens, blacklist, closed, jwtRefresh, jwtCall, retired, spent>>

JwtIdle == [op |-> "idle", id |-> 0, step |-> "", late |-> FALSE, at |-> 0]
Call(op, id, step, late) == [op |-> op, id |-> id, step |-> step, late |-> late, at |-> 0]

JwtInit ==
    /\ jwtNow = 1 /\ jwtTokens = <<>> /\ blacklist = [i \in {} |-> 0] /\ closed = FALSE /\ jwtRefresh = <<>>
    /\ jwtCall = [c \in JwtCaller |-> JwtIdle] /\ retired = {} /\ spent = {}

JwtTick == jwtNow < JwtMaxTime /\ jwtNow' = jwtNow + 1 /\ UNCHANGED <<jwtTokens, blacklist, closed, jwtRefresh, jwtCall, retired, spent>>

(* Claims.MarshalJSON and UnmarshalJSON: whole seconds *)
Unix(t) == t - (t % 2)
signToken(exp, nbf) == Len(jwtTokens) < JwtMaxTokens /\ jwtTokens' = Append(jwtTokens, [exp |-> Unix(exp), nbf |-> Unix(nbf)])
Save(nbf) == Len(jwtRefresh) < MaxRefresh /\ jwtRefresh' = Append(jwtRefresh, [expires |-> jwtNow + JwtRefreshTokenTTL, revoked |-> FALSE, nbf |-> nbf])

IssueToken(nbf) ==
    /\ signToken(jwtNow + JwtAccessTokenTTL, nbf)
    /\ UNCHANGED <<jwtNow, blacklist, closed, jwtRefresh, jwtCall, retired, spent>>

IssueTokenPair(nbf) ==
    /\ signToken(jwtNow + JwtAccessTokenTTL, nbf) /\ Save(nbf)
    /\ UNCHANGED <<jwtNow, blacklist, closed, jwtCall, retired, spent>>

-----------------------------------------------------------------------------
(* The blacklist *)
Listed(id) == id \in DOMAIN blacklist /\ ~ jwtNow > blacklist[id]
Add(id) == ~ closed /\ blacklist' = [i \in DOMAIN blacklist \cup {id} |-> IF i = id THEN jwtNow + BlacklistTTL ELSE blacklist[i]]

cleanup == blacklist' = [i \in {j \in DOMAIN blacklist : ~ jwtNow > blacklist[j]} |-> blacklist[i]]
CleanupTick ==
    /\ ~ closed /\ cleanup
    /\ UNCHANGED <<jwtNow, jwtTokens, closed, jwtRefresh, jwtCall, retired, spent>>

RevokeToken(id) ==
    /\ "revoke" \in Ops /\ Add(id) /\ retired' = retired \cup {id}
    /\ UNCHANGED <<jwtNow, jwtTokens, closed, jwtRefresh, jwtCall, spent>>

(* Blacklist.Remove takes a revocation back. *)
Remove(id) ==
    /\ id \in DOMAIN blacklist
    /\ blacklist' = [i \in DOMAIN blacklist \ {id} |-> blacklist[i]]
    /\ retired' = retired \ {id}
    /\ jwtCall' = [c \in JwtCaller |-> [jwtCall[c] EXCEPT !.late = @ /\ (jwtCall[c].id # id \/ jwtCall[c].op = "refresh")]]
    /\ UNCHANGED <<jwtNow, jwtTokens, closed, jwtRefresh, spent>>

Close == ~ closed /\ closed' = TRUE /\ UNCHANGED <<jwtNow, jwtTokens, blacklist, jwtRefresh, jwtCall, retired, spent>>

-----------------------------------------------------------------------------
(* ValidateToken: the claims, then the blacklist.  RenewToken does the same *)
(* without the expiry.                                                      *)
JwtBegin(c, op, id) ==
    /\ op \in Ops /\ jwtCall[c].op = "idle"
    /\ jwtCall' = [jwtCall EXCEPT ![c] = Call(op, id, "claims", id \in retired)]
    /\ UNCHANGED <<jwtNow, jwtTokens, blacklist, closed, jwtRefresh, retired, spent>>

Answer(c, how) == jwtCall' = [jwtCall EXCEPT ![c].step = how]
validateClaims(t, op) == /\ op = "validate" => ~ jwtNow > t.exp
                         /\ t.nbf # 0 => ~ jwtNow < t.nbf
CheckClaims(c) ==
    /\ jwtCall[c].op \in {"validate", "renew"} /\ jwtCall[c].step = "claims"
    /\ Answer(c, IF validateClaims(jwtTokens[jwtCall[c].id], jwtCall[c].op) THEN "blacklist" ELSE "refused")
    /\ UNCHANGED <<jwtNow, jwtTokens, blacklist, closed, jwtRefresh, retired, spent>>
CheckBlacklist(c) ==
    /\ jwtCall[c].step = "blacklist"
    /\ Answer(c, IF Listed(jwtCall[c].id) THEN "refused" ELSE IF jwtCall[c].op = "validate" THEN "ok" ELSE "window")
    /\ UNCHANGED <<jwtNow, jwtTokens, blacklist, closed, jwtRefresh, retired, spent>>

(* RenewToken reads the clock, *)
RenewWindow(c) ==
    /\ jwtCall[c].step = "window"
    /\ jwtCall' = [jwtCall EXCEPT ![c].step = IF jwtNow > jwtTokens[jwtCall[c].id].exp + RenewalWindow THEN "refused" ELSE "revoke", ![c].at = jwtNow]
    /\ UNCHANGED <<jwtNow, jwtTokens, blacklist, closed, jwtRefresh, retired, spent>>
(* revokes the old token and signs the new one. *)
RenewSign(c) ==
    /\ jwtCall[c].step = "revoke"
    /\ IF AutoBlacklistOld /\ closed THEN Answer(c, "refused") /\ UNCHANGED <<jwtTokens, blacklist, retired>>
       ELSE /\ IF AutoBlacklistOld THEN Add(jwtCall[c].id) /\ retired' = retired \cup {jwtCall[c].id} ELSE UNCHANGED <<blacklist, retired>>
            /\ signToken(jwtCall[c].at + JwtAccessTokenTTL, jwtTokens[jwtCall[c].id].nbf)
            /\ Answer(c, "ok")
    /\ UNCHANGED <<jwtNow, closed, jwtRefresh, spent>>

-----------------------------------------------------------------------------
(* RefreshAccessToken: Get, then Revoke and Save *)
JwtRefreshGet(c, r) ==
    /\ "refresh" \in Ops /\ jwtCall[c].op = "idle"
    /\ jwtCall' = [jwtCall EXCEPT ![c] = Call("refresh", r, IF jwtRefresh[r].revoked \/ jwtNow > jwtRefresh[r].expires THEN "refused" ELSE "rotate", r \in spent)]
    /\ UNCHANGED <<jwtNow, jwtTokens, blacklist, closed, jwtRefresh, retired, spent>>
JwtRefreshRevoke(c) ==
    /\ jwtCall[c].step = "rotate"
    /\ signToken(jwtNow + JwtAccessTokenTTL, jwtRefresh[jwtCall[c].id].nbf)
    /\ jwtRefresh' = IF JwtRefreshTokenRotation THEN [jwtRefresh EXCEPT ![jwtCall[c].id].revoked = TRUE] ELSE jwtRefresh
    /\ Answer(c, IF JwtRefreshTokenRotation THEN "save" ELSE "ok")
    /\ UNCHANGED <<jwtNow, blacklist, closed, retired, spent>>
RefreshSave(c) ==
    /\ jwtCall[c].step = "save" /\ Save(jwtRefresh[jwtCall[c].id].nbf)
    /\ spent' = spent \cup {jwtCall[c].id} /\ Answer(c, "ok")
    /\ UNCHANGED <<jwtNow, jwtTokens, blacklist, closed, retired>>

Return(c) ==
    /\ jwtCall[c].step \in {"ok", "refused"} /\ jwtCall' = [jwtCall EXCEPT ![c] = JwtIdle]
    /\ UNCHANGED <<jwtNow, jwtTokens, blacklist, closed, jwtRefresh, retired, spent>>

JwtNext ==
    \/ JwtTick \/ CleanupTick \/ Close
    \/ \E nbf \in {IF d = 0 THEN 0 ELSE jwtNow + d : d \in NotBefore} : IssueToken(nbf) \/ IssueTokenPair(nbf)
    \/ \E id \in DOMAIN jwtTokens : RevokeToken(id) \/ Remove(id) \/ \E c \in JwtCaller, op \in {"validate", "renew"} : JwtBegin(c, op, id)
    \/ \E c \in JwtCaller :
        \/ CheckClaims(c) \/ CheckBlacklist(c) \/ RenewWindow(c) \/ RenewSign(c)
        \/ (\E r \in DOMAIN jwtRefresh : JwtRefreshGet(c, r)) \/ JwtRefreshRevoke(c) \/ RefreshSave(c) \/ Return(c)

JwtTypeOK ==
    /\ jwtNow \in 1 .. JwtMaxTime /\ closed \in BOOLEAN
    /\ DOMAIN blacklist \subseteq DOMAIN jwtTokens /\ retired \subseteq DOMAIN jwtTokens /\ spent \subseteq DOMAIN jwtRefresh

-----------------------------------------------------------------------------
(* A token that was revoked or renewed before a call began is not accepted  *)
(* by it, unless its lifetime and renewal window are over by the time the   *)
(* call answers: blacklist entries that expire or are swept, and a call     *)
(* that checks the claims first and the blacklist later, do not revive it.  *)
(* It needs BlacklistTTL >= AccessTokenTTL + RenewalWindow.                 *)
RevokedStaysOut ==
    \A c \in JwtCaller : jwtCall[c].step = "ok" /\ jwtCall[c].late /\ jwtCall[c].op # "refresh" =>
        jwtCall[c].op = "validate" /\ jwtNow > jwtTokens[jwtCall[c].id].exp + RenewalWindow

(* A refresh token whose rotation has answered is refused to later calls,   *)
(* and a rotation leaves the holder with a refresh token: each one revoked  *)
(* is matched by one saved, or by a call that is about to save it.          *)
RotationKeepsSession ==
    /\ \A c \in JwtCaller : jwtCall[c].op = "refresh" /\ jwtCall[c].late => jwtCall[c].step = "refused"
    /\ (\E r \in DOMAIN jwtRefresh : jwtRefresh[r].revoked) => (\E r \in DOMAIN jwtRefresh : ~ jwtRefresh[r].revoked) \/ \E c \in JwtCaller : jwtCall[c].step = "save"

-----------------------------------------------------------------------------
(***************************************************************************)
(* oauth2svc: authorization codes, client credentials and refresh tokens.  *)
(* Each call of a store is a step, as the server has no lock of its own.   *)
(* A scope string is the set of its words; the empty request stands for    *)
(* "no scope given".  Codes, refresh tokens and access tokens are their    *)
(* positions in the sequences of those made.                               *)
(***************************************************************************)

CONSTANTS
    OAuthCaller, Client, Scope,
    AuthorizationCodeTTL, OAuthAccessTokenTTL, OAuthRefreshTokenTTL, OAuthRefreshTokenRotation, \* Config
    OAuthMaxTime, MaxCodes, OAuthMaxTokens    \* bounds: the clock, codes and access tokens made

VARIABLES
    oAuthNow,
    clients,    \* MemoryClientStore: the scopes of each client
    codes,      \* MemoryAuthorizationCodeStore
    oAuthRefresh,    \* MemoryRefreshTokenStore
    oAuthTokens,     \* access tokens signed, with what they were made from
    oAuthCall

oAuthVars == <<oAuthNow, clients, codes, oAuthRefresh, oAuthTokens, oAuthCall>>

OAuthIdle == [step |-> "idle", client |-> CHOOSE c \in Client : TRUE, id |-> 0, ask |-> {}, scope |-> {}, code |-> 0, more |-> FALSE]

OAuthInit ==
    /\ oAuthNow = 0 /\ clients \in [Client -> {Scope}] /\ codes = <<>> /\ oAuthRefresh = <<>> /\ oAuthTokens = <<>>
    /\ oAuthCall = [c \in OAuthCaller |-> OAuthIdle]

OAuthTick == oAuthNow < OAuthMaxTime /\ oAuthNow' = oAuthNow + 1 /\ UNCHANGED <<clients, codes, oAuthRefresh, oAuthTokens, oAuthCall>>

(* SaveClient replaces a client; here its scopes shrink or grow. *)
SaveClient(cl, scopes) ==
    /\ clients' = [clients EXCEPT ![cl] = scopes]
    /\ UNCHANGED <<oAuthNow, codes, oAuthRefresh, oAuthTokens, oAuthCall>>

validateScope(cl, ask) == ask \subseteq clients[cl]
Asked(ask, otherwise) == IF ask = {} THEN otherwise ELSE ask

Authorize(cl, ask) ==
    /\ Len(codes) < MaxCodes /\ validateScope(cl, ask)
    /\ codes' = Append(codes, [client |-> cl, scope |-> Asked(ask, clients[cl]), expires |-> oAuthNow + AuthorizationCodeTTL, used |-> FALSE])
    /\ UNCHANGED <<oAuthNow, clients, oAuthRefresh, oAuthTokens, oAuthCall>>

-----------------------------------------------------------------------------
(* createTokenResponse: an access token, and with it a refresh token.  code *)
(* is the authorization it goes back to, 0 for client credentials.          *)
createTokenResponse(c, cl, scope, code, includeRefresh) ==
    /\ Len(oAuthTokens) < OAuthMaxTokens
    /\ oAuthTokens' = Append(oAuthTokens, [client |-> cl, scope |-> scope, code |-> code, exp |-> oAuthNow + OAuthAccessTokenTTL])
    /\ oAuthRefresh' = IF ~ includeRefresh THEN oAuthRefresh
                  ELSE Append(oAuthRefresh, [client |-> cl, scope |-> scope, code |-> code, expires |-> oAuthNow + OAuthRefreshTokenTTL, revoked |-> FALSE])
    /\ oAuthCall' = [oAuthCall EXCEPT ![c] = OAuthIdle]

Fail(c) == oAuthCall' = [oAuthCall EXCEPT ![c] = OAuthIdle] /\ UNCHANGED <<codes, oAuthRefresh, oAuthTokens>>

(* handleAuthorizationCode: GetCode and the client's check, *)
CodeGet(c, cl, id, ask) ==
    /\ oAuthCall[c].step = "idle"
    /\ ~ oAuthNow > codes[id].expires /\ codes[id].client = cl
    /\ oAuthCall' = [oAuthCall EXCEPT ![c] = [OAuthIdle EXCEPT !.step = "mark", !.client = cl, !.id = id, !.ask = ask]]
    /\ UNCHANGED <<oAuthNow, clients, codes, oAuthRefresh, oAuthTokens>>
(* MarkCodeUsed, *)
CodeMark(c) ==
    /\ oAuthCall[c].step = "mark"
    /\ IF codes[oAuthCall[c].id].used THEN Fail(c)
       ELSE codes' = [codes EXCEPT ![oAuthCall[c].id].used = TRUE] /\ oAuthCall' = [oAuthCall EXCEPT ![c].step = "redeem"] /\ UNCHANGED <<oAuthRefresh, oAuthTokens>>
    /\ UNCHANGED <<oAuthNow, clients>>
(* then the scope, within that of the code, and the tokens *)
CodeRedeem(c) ==
    /\ oAuthCall[c].step = "redeem"
    /\ LET code == codes[oAuthCall[c].id]
       IN IF ~ oAuthCall[c].ask \subseteq code.scope THEN Fail(c)
          ELSE createTokenResponse(c, oAuthCall[c].client, Asked(oAuthCall[c].ask, code.scope), oAuthCall[c].id, TRUE) /\ UNCHANGED codes
    /\ UNCHANGED <<oAuthNow, clients>>

handleClientCredentials(c, cl, ask) ==
    /\ oAuthCall[c].step = "idle" /\ validateScope(cl, ask)
    /\ createTokenResponse(c, cl, Asked(ask, clients[cl]), 0, FALSE)
    /\ UNCHANGED <<oAuthNow, clients, codes>>

(* handleRefreshToken: GetToken and the scope, *)
RefreshAllowed(cl, rt, ask) == ask # {} => validateScope(cl, ask) /\ ask \subseteq rt.scope
OAuthRefreshGet(c, cl, id, ask) ==
    /\ oAuthCall[c].step = "idle"
    /\ ~ oAuthRefresh[id].revoked /\ ~ oAuthNow > oAuthRefresh[id].expires /\ oAuthRefresh[id].client = cl
    /\ RefreshAllowed(cl, oAuthRefresh[id], ask)
    /\ oAuthCall' = [oAuthCall EXCEPT ![c] = [step |-> IF OAuthRefreshTokenRotation THEN "revoke" ELSE "create", client |-> cl, id |-> id, ask |-> ask,
                                    scope |-> Asked(ask, oAuthRefresh[id].scope), code |-> oAuthRefresh[id].code, more |-> OAuthRefreshTokenRotation]]
    /\ UNCHANGED <<oAuthNow, clients, codes, oAuthRefresh, oAuthTokens>>
(* RevokeToken, *)
OAuthRefreshRevoke(c) ==
    /\ oAuthCall[c].step = "revoke"
    /\ oAuthRefresh' = [oAuthRefresh EXCEPT ![oAuthCall[c].id].revoked = TRUE]
    /\ oAuthCall' = [oAuthCall EXCEPT ![c].step = "create"]
    /\ UNCHANGED <<oAuthNow, clients, codes, oAuthTokens>>
(* and the tokens *)
RefreshCreate(c) ==
    /\ oAuthCall[c].step = "create"
    /\ createTokenResponse(c, oAuthCall[c].client, oAuthCall[c].scope, oAuthCall[c].code, oAuthCall[c].more)
    /\ UNCHANGED <<oAuthNow, clients, codes>>

OAuthNext ==
    \/ OAuthTick
    \/ \E cl \in Client, s \in SUBSET Scope :
        \/ s # {} /\ SaveClient(cl, s)
        \/ Authorize(cl, s)
        \/ \E c \in OAuthCaller : \/ \E id \in DOMAIN codes : CodeGet(c, cl, id, s)
                             \/ handleClientCredentials(c, cl, s)
                             \/ \E id \in DOMAIN oAuthRefresh : OAuthRefreshGet(c, cl, id, s)
    \/ \E c \in OAuthCaller : CodeMark(c) \/ CodeRedeem(c) \/ OAuthRefreshRevoke(c) \/ RefreshCreate(c)

OAuthTypeOK ==
    /\ oAuthNow \in 0 .. OAuthMaxTime /\ clients \in [Client -> SUBSET Scope]
    /\ \A i \in DOMAIN oAuthTokens : oAuthTokens[i].scope \subseteq Scope
    /\ \A c \in OAuthCaller : oAuthCall[c].step \in {"idle", "mark", "redeem", "revoke", "create"}

-----------------------------------------------------------------------------
(* The refresh tokens that go back to a code *)
Line(code) == {i \in DOMAIN oAuthRefresh : oAuthRefresh[i].code = code}

(* An authorization code is redeemed once, whoever races for it: one        *)
(* refresh token or one failed attempt, then rotations of that one, each    *)
(* only after the one before was revoked.                                   *)
CodeOnce ==
    \A id \in DOMAIN codes :
        /\ ~ codes[id].used => Line(id) = {}
        /\ Cardinality({c \in OAuthCaller : oAuthCall[c].step = "redeem" /\ oAuthCall[c].id = id}) + (IF Line(id) = {} THEN 0 ELSE 1) <= 1

(* No token carries more than was authorized, nor more than the refresh     *)
(* token it was made from: along rotations the scope only shrinks, whatever *)
(* happens to the client's scopes.                                          *)
ScopeOnlyShrinks ==
    /\ \A i \in DOMAIN oAuthTokens : oAuthTokens[i].code # 0 => oAuthTokens[i].scope \subseteq codes[oAuthTokens[i].code].scope
    /\ \A i, j \in DOMAIN oAuthRefresh : i < j /\ oAuthRefresh[i].code = oAuthRefresh[j].code =>
           oAuthRefresh[j].scope \subseteq oAuthRefresh[CHOOSE k \in Line(oAuthRefresh[j].code) : \A l \in Line(oAuthRefresh[j].code) : k <= l].scope

(* A session that was opened is kept: a code that was redeemed has a        *)
(* refresh token that is not revoked, or a call about to make one.          *)
SessionKept ==
    \A id \in DOMAIN codes : Line(id) # {} =>
        (\E i \in Line(id) : ~ oAuthRefresh[i].revoked) \/ \E c \in OAuthCaller : oAuthCall[c].step = "create" /\ oAuthCall[c].code = id

-----------------------------------------------------------------------------
(***************************************************************************)
(* The session cluster of internal/distsess, seen by one session: on every *)
(* node a memory tier, a persisted copy, a client goroutine, the message   *)
(* loop and the cleanup loop.  The locks are held within a step only.  A   *)
(* session is its version, its data (the number of the Set call that wrote *)
(* it) and its expiry time.                                                *)
(***************************************************************************)

CONSTANTS
    Node,
    Clients,        \* nodes with a calling client
    AutoRenew, EnableSync, TTL, SyncBuffer,
    SessionMaxTime, MaxCalls, MaxFaults, MaxSyncs, MaxRestarts     \* bounds

VARIABLES
    sessionNow, mem, disk, inbox,
    sessionCall,           \* [op, pc, s: session at hand, base: version seen before, old: session replaced]
    loop,           \* message loop: [pc, s, to]
    clean,          \* cleanup loop: "idle", "mem" or "file" are to be removed
    calls, faults, syncs, restarts,
    raced,          \* [Node -> BOOLEAN]: goroutines of the node overlapped, or a failed write was ignored
    lost            \* a message was dropped, or a sync response was out of date

sessionVars == <<sessionNow, mem, disk, inbox, sessionCall, loop, clean, calls, faults, syncs, restarts, raced, lost>>

None == [ver |-> 0, val |-> 0, exp |-> 0]
Session == [ver : 1..2 * MaxCalls, val : 1..MaxCalls, exp : 0..SessionMaxTime + TTL]
NoCall == [op |-> "none", pc |-> "none", s |-> None, base |-> 0, old |-> None]
SessionIdle == [pc |-> "idle", s |-> None, to |-> CHOOSE n \in Node : TRUE]

SessionTypeOK ==
    /\ sessionNow \in 0..SessionMaxTime
    /\ \A n \in Node :
        /\ mem[n] \in Session \cup {None} /\ disk[n] \in Session \cup {None} /\ Len(inbox[n]) <= SyncBuffer
        /\ (sessionCall[n].pc = "none") = (sessionCall[n].op = "none")
        /\ loop[n].pc \in {"idle", "file", "merge", "reply"} /\ clean[n] \in {"idle", "mem", "file"}

IsExpired(s) == s # None /\ sessionNow > s.exp
Renewed(s) == [s EXCEPT !.exp = sessionNow + TTL, !.ver = @ + 1]
Live(s) == IF IsExpired(s) THEN None ELSE s

Quiet(n) == sessionCall[n].op = "none" /\ loop[n].pc = "idle" /\ clean[n] = "idle"
(* a step of one goroutine of n while another is in the middle of something *)
Raced(n, busy) == raced' = [raced EXCEPT ![n] = @ \/ busy]
ClientRaces(n) == Raced(n, loop[n].pc # "idle" \/ clean[n] # "idle")
LoopRaces(n) == Raced(n, sessionCall[n].op # "none" \/ clean[n] # "idle")

Go(n, pc) == sessionCall' = [sessionCall EXCEPT ![n].pc = pc]
Done(n) == sessionCall' = [sessionCall EXCEPT ![n] = NoCall]

(***************************************************************************)
(* broadcast: a full inbox drops the message, and so may the network.      *)
(***************************************************************************)
Broadcast(n, m) ==
    \E D \in SUBSET (Node \ {n}) :
        LET to == {k \in D : Len(inbox[k]) < SyncBuffer}
        IN /\ inbox' = [k \in Node |-> IF k \in to THEN Append(inbox[k], m) ELSE inbox[k]]
           /\ lost' = (lost \/ to # Node \ {n})

Notify(s) == [type |-> "notify", s |-> s, ver |-> s.ver]
Invalidate(v) == [type |-> "invalidate", s |-> None, ver |-> v]

(***************************************************************************)
(* Client calls: Get (with renewal), Set, Delete and Renew of a Node.      *)
(***************************************************************************)
FirstStep(op) == CASE op = "set" -> "mem" [] op = "renew" -> "read"
                   [] op = "delete" -> "peek" [] op = "get" -> IF AutoRenew /\ EnableSync THEN "peek" ELSE "read"
AfterPeek(op) == IF op = "get" THEN "read" ELSE "mem"

SessionBegin(n, op) ==
    /\ n \in Clients /\ sessionCall[n].op = "none" /\ calls < MaxCalls
    /\ calls' = calls + 1
    /\ sessionCall' = [sessionCall EXCEPT ![n] = [NoCall EXCEPT !.op = op, !.pc = FirstStep(op)]]
    /\ UNCHANGED <<sessionNow, mem, disk, inbox, loop, clean, faults, syncs, restarts, raced, lost>>

(* GetWithoutRenew, for the version before the call *)
Peek(n) ==
    /\ sessionCall[n].pc = "peek"
    /\ sessionCall' = IF IsExpired(mem[n]) THEN [sessionCall EXCEPT ![n].pc = "peekdrop"]
               ELSE IF mem[n] # None THEN [sessionCall EXCEPT ![n].pc = AfterPeek(sessionCall[n].op), ![n].base = mem[n].ver]
               ELSE IF IsExpired(disk[n]) THEN [sessionCall EXCEPT ![n].pc = "peekfile"]
               ELSE IF disk[n] # None THEN [sessionCall EXCEPT ![n].pc = "peekfill", ![n].s = disk[n], ![n].base = disk[n].ver]
               ELSE [sessionCall EXCEPT ![n].pc = AfterPeek(sessionCall[n].op)]
    /\ ClientRaces(n)
    /\ UNCHANGED <<sessionNow, mem, disk, inbox, loop, clean, calls, faults, syncs, restarts, lost>>

PeekDrop(n) ==
    /\ sessionCall[n].pc = "peekdrop"
    /\ mem' = [mem EXCEPT ![n] = None]
    /\ Go(n, "peekfile") /\ ClientRaces(n)
    /\ UNCHANGED <<sessionNow, disk, inbox, loop, clean, calls, faults, syncs, restarts, lost>>

PeekFile(n) ==
    /\ sessionCall[n].pc = "peekfile"
    /\ disk' = [disk EXCEPT ![n] = None]
    /\ Go(n, AfterPeek(sessionCall[n].op)) /\ ClientRaces(n)
    /\ UNCHANGED <<sessionNow, mem, inbox, loop, clean, calls, faults, syncs, restarts, lost>>

PeekFill(n) ==
    /\ sessionCall[n].pc = "peekfill"
    /\ mem' = [mem EXCEPT ![n] = sessionCall[n].s]
    /\ Go(n, AfterPeek(sessionCall[n].op)) /\ ClientRaces(n)
    /\ UNCHANGED <<sessionNow, disk, inbox, loop, clean, calls, faults, syncs, restarts, lost>>

(* the beginning of TieredStore.Get and Renew *)
Read(n) ==
    /\ sessionCall[n].pc = "read"
    /\ LET s == IF mem[n] # None THEN mem[n] ELSE disk[n]
           hit == mem[n] # None
           get == sessionCall[n].op = "get"
       IN sessionCall' = IF s = None THEN [sessionCall EXCEPT ![n] = NoCall]
                  ELSE IF IsExpired(s) THEN [sessionCall EXCEPT ![n].pc = IF get /\ ~hit THEN "dropfile" ELSE "drop"]
                  ELSE IF get /\ hit /\ ~AutoRenew THEN [sessionCall EXCEPT ![n] = NoCall]
                  ELSE IF get /\ ~hit /\ ~AutoRenew THEN [sessionCall EXCEPT ![n].pc = "fill", ![n].s = s]
                  ELSE IF get /\ ~hit THEN [sessionCall EXCEPT ![n].pc = "refile", ![n].s = Renewed(s)]
                  ELSE [sessionCall EXCEPT ![n].pc = "mem", ![n].s = Renewed(s)]
    /\ ClientRaces(n)
    /\ UNCHANGED <<sessionNow, mem, disk, inbox, loop, clean, calls, faults, syncs, restarts, lost>>

Drop(n) ==
    /\ sessionCall[n].pc = "drop"
    /\ mem' = [mem EXCEPT ![n] = None]
    /\ Go(n, "dropfile") /\ ClientRaces(n)
    /\ UNCHANGED <<sessionNow, disk, inbox, loop, clean, calls, faults, syncs, restarts, lost>>

DropFile(n) ==
    /\ sessionCall[n].pc = "dropfile"
    /\ disk' = [disk EXCEPT ![n] = None]
    /\ Done(n) /\ ClientRaces(n)
    /\ UNCHANGED <<sessionNow, mem, inbox, loop, clean, calls, faults, syncs, restarts, lost>>

(* Get of a session that is only persisted saves it before it is in memory *)
Refile(n) ==
    /\ sessionCall[n].pc = "refile"
    /\ disk' = [disk EXCEPT ![n] = sessionCall[n].s]
    /\ Go(n, "fill") /\ ClientRaces(n)
    /\ UNCHANGED <<sessionNow, mem, inbox, loop, clean, calls, faults, syncs, restarts, lost>>

Fill(n) ==
    /\ sessionCall[n].pc = "fill"
    /\ mem' = [mem EXCEPT ![n] = sessionCall[n].s]
    /\ IF sessionCall[n].s.ver > sessionCall[n].base /\ AutoRenew /\ EnableSync THEN Go(n, "send") ELSE Done(n)
    /\ ClientRaces(n)
    /\ UNCHANGED <<sessionNow, disk, inbox, loop, clean, calls, faults, syncs, restarts, lost>>

(* SetWithTTL in memory: the version follows the one in memory *)
SetSession(n) == [ver |-> mem[n].ver + 1, val |-> calls, exp |-> sessionNow + TTL]

WriteMem(n) ==
    /\ sessionCall[n].pc = "mem"
    /\ CASE sessionCall[n].op = "set" ->
              /\ mem' = [mem EXCEPT ![n] = SetSession(n)]
              /\ sessionCall' = [sessionCall EXCEPT ![n].pc = "file", ![n].s = SetSession(n), ![n].old = mem[n]]
         [] sessionCall[n].op = "delete" ->
              /\ mem' = [mem EXCEPT ![n] = None]
              /\ sessionCall' = [sessionCall EXCEPT ![n].pc = "file", ![n].s = None, ![n].old = mem[n]]
         [] OTHER ->
              /\ mem' = [mem EXCEPT ![n] = sessionCall[n].s]
              /\ Go(n, "file")
    /\ ClientRaces(n)
    /\ UNCHANGED <<sessionNow, disk, inbox, loop, clean, calls, faults, syncs, restarts, lost>>

(* a deletion is announced if memory had the session, a Get if it renewed it *)
WriteFile(n) ==
    /\ sessionCall[n].pc = "file"
    /\ disk' = [disk EXCEPT ![n] = sessionCall[n].s]
    /\ IF ~EnableSync \/ (sessionCall[n].op = "delete" /\ sessionCall[n].old = None) THEN Done(n)
       ELSE IF sessionCall[n].op = "get" /\ sessionCall[n].s.ver <= sessionCall[n].base THEN Done(n)
       ELSE Go(n, "send")
    /\ ClientRaces(n)
    /\ UNCHANGED <<sessionNow, mem, inbox, loop, clean, calls, faults, syncs, restarts, lost>>

RolledBack(n) == [mem EXCEPT ![n] = sessionCall[n].old]

WriteFileFails(n) ==
    /\ sessionCall[n].pc = "file" /\ faults < MaxFaults
    /\ faults' = faults + 1
    /\ mem' = IF sessionCall[n].op = "set" THEN RolledBack(n) ELSE mem
    /\ IF EnableSync /\ sessionCall[n].op = "get" /\ sessionCall[n].s.ver > sessionCall[n].base THEN Go(n, "send") ELSE Done(n)
    /\ Raced(n, sessionCall[n].op # "set" \/ loop[n].pc # "idle" \/ clean[n] # "idle")
    /\ UNCHANGED <<sessionNow, disk, inbox, loop, clean, calls, syncs, restarts, lost>>

InvalidateVersion(n) == IF sessionCall[n].base = 0 THEN 0 ELSE sessionCall[n].base + 1

Send(n) ==
    /\ sessionCall[n].pc = "send"
    /\ Broadcast(n, IF sessionCall[n].op = "delete" THEN Invalidate(InvalidateVersion(n)) ELSE Notify(sessionCall[n].s))
    /\ Done(n)
    /\ UNCHANGED <<sessionNow, mem, disk, loop, clean, calls, faults, syncs, restarts, raced>>

(***************************************************************************)
(* The message loop.                                                       *)
(***************************************************************************)
Pop(n) == inbox' = [inbox EXCEPT ![n] = Tail(@)]
Receives(n, type) == loop[n].pc = "idle" /\ inbox[n] # <<>> /\ Head(inbox[n]).type = type
Merged(n, s) == IF mem[n] = None \/ s.ver > mem[n].ver THEN s ELSE mem[n]

(* handleChangeNotify: GetWithoutRenew, the version check, then the merge *)
HandleNotify(n) ==
    /\ Receives(n, "notify")
    /\ Pop(n)
    /\ LET s == Head(inbox[n]).s
           local == IF mem[n] # None THEN mem[n] ELSE disk[n]
       IN \/ /\ IsExpired(local)
             /\ mem' = [mem EXCEPT ![n] = None]
             /\ loop' = [loop EXCEPT ![n] = [SessionIdle EXCEPT !.pc = "file", !.s = s]]
          \/ /\ ~IsExpired(local)
             /\ mem' = [mem EXCEPT ![n] = local]
             /\ loop' = IF local # None /\ s.ver <= local.ver THEN loop
                        ELSE [loop EXCEPT ![n] = [SessionIdle EXCEPT !.pc = "merge", !.s = s]]
    /\ LoopRaces(n)
    /\ UNCHANGED <<sessionNow, disk, sessionCall, clean, calls, faults, syncs, restarts, lost>>

NotifyFile(n) ==
    /\ loop[n].pc = "file"
    /\ disk' = [disk EXCEPT ![n] = None]
    /\ loop' = [loop EXCEPT ![n].pc = "merge"]
    /\ LoopRaces(n)
    /\ UNCHANGED <<sessionNow, mem, inbox, sessionCall, clean, calls, faults, syncs, restarts, lost>>

NotifyMerge(n) ==
    /\ loop[n].pc = "merge"
    /\ mem' = [mem EXCEPT ![n] = Merged(n, loop[n].s)]
    /\ disk' = IF Merged(n, loop[n].s) = loop[n].s THEN [disk EXCEPT ![n] = loop[n].s] ELSE disk
    /\ loop' = [loop EXCEPT ![n] = SessionIdle]
    /\ LoopRaces(n)
    /\ UNCHANGED <<sessionNow, inbox, sessionCall, clean, calls, faults, syncs, restarts, lost>>

(* handleInvalidate *)
HandleInvalidate(n) ==
    /\ Receives(n, "invalidate")
    /\ Pop(n)
    /\ IF mem[n] # None /\ Head(inbox[n]).ver >= mem[n].ver
       THEN mem' = [mem EXCEPT ![n] = None] /\ disk' = [disk EXCEPT ![n] = None]
       ELSE UNCHANGED <<mem, disk>>
    /\ LoopRaces(n)
    /\ UNCHANGED <<sessionNow, sessionCall, loop, clean, calls, faults, syncs, restarts, lost>>

(* SyncWith asks m for all its sessions *)
SyncWith(n, m) ==
    /\ n # m /\ syncs < MaxSyncs
    /\ syncs' = syncs + 1
    /\ IF Len(inbox[m]) < SyncBuffer
       THEN inbox' = [inbox EXCEPT ![m] = Append(@, [type |-> "syncreq", s |-> None, ver |-> 0, from |-> n])]
       ELSE inbox' = inbox
    /\ UNCHANGED <<sessionNow, mem, disk, sessionCall, loop, clean, calls, faults, restarts, raced, lost>>

HandleSyncRequest(n) ==
    /\ Receives(n, "syncreq")
    /\ loop' = [loop EXCEPT ![n] = [pc |-> "reply", s |-> mem[n], to |-> Head(inbox[n]).from]]
    /\ Pop(n)
    /\ UNCHANGED <<sessionNow, mem, disk, sessionCall, clean, calls, faults, syncs, restarts, raced, lost>>

SyncReply(n) ==
    /\ loop[n].pc = "reply"
    /\ LET to == loop[n].to IN
         inbox' = IF Len(inbox[to]) < SyncBuffer
                  THEN [inbox EXCEPT ![to] = Append(@, [type |-> "syncresp", s |-> loop[n].s, ver |-> 0])] ELSE inbox
    /\ lost' = (lost \/ \E k \in Clients : loop[n].s # mem[k] \/ sessionCall[k].op # "none")
    /\ loop' = [loop EXCEPT ![n] = SessionIdle]
    /\ UNCHANGED <<sessionNow, mem, disk, sessionCall, clean, calls, faults, syncs, restarts, raced>>

HandleSyncResponse(n) ==
    /\ Receives(n, "syncresp")
    /\ Pop(n)
    /\ LET s == Head(inbox[n]).s
           take == s # None /\ Merged(n, s) = s
       IN /\ mem' = IF take THEN [mem EXCEPT ![n] = s] ELSE mem
          /\ disk' = IF take THEN [disk EXCEPT ![n] = s] ELSE disk
          /\ lost' = (lost \/ (take /\ n \in Clients))
    /\ LoopRaces(n)
    /\ UNCHANGED <<sessionNow, sessionCall, loop, clean, calls, faults, syncs, restarts>>

(***************************************************************************)
(* CleanupExpired collects, then removes without looking again.            *)
(***************************************************************************)
Collect(n) ==
    /\ clean[n] = "idle" /\ IsExpired(mem[n])
    /\ clean' = [clean EXCEPT ![n] = "mem"]
    /\ UNCHANGED <<sessionNow, mem, disk, inbox, sessionCall, loop, calls, faults, syncs, restarts, raced, lost>>

CleanMem(n) ==
    /\ clean[n] = "mem"
    /\ mem' = [mem EXCEPT ![n] = None]
    /\ clean' = [clean EXCEPT ![n] = "file"]
    /\ Raced(n, sessionCall[n].op # "none" \/ loop[n].pc # "idle")
    /\ UNCHANGED <<sessionNow, disk, inbox, sessionCall, loop, calls, faults, syncs, restarts, lost>>

CleanFile(n) ==
    /\ clean[n] = "file"
    /\ disk' = [disk EXCEPT ![n] = None]
    /\ clean' = [clean EXCEPT ![n] = "idle"]
    /\ Raced(n, sessionCall[n].op # "none" \/ loop[n].pc # "idle")
    /\ UNCHANGED <<sessionNow, mem, inbox, sessionCall, loop, calls, faults, syncs, restarts, lost>>

(* RemoveNode waits for the message loop; AddNode loads what is not expired *)
Restart(n) ==
    /\ restarts < MaxRestarts /\ loop[n].pc = "idle" /\ sessionCall[n].op = "none"
    /\ restarts' = restarts + 1
    /\ mem' = [mem EXCEPT ![n] = Live(disk[n])]
    /\ disk' = [disk EXCEPT ![n] = Live(disk[n])]
    /\ inbox' = [inbox EXCEPT ![n] = <<>>]
    /\ lost' = (lost \/ inbox[n] # <<>>)
    /\ clean' = [clean EXCEPT ![n] = IF @ = "mem" THEN "file" ELSE @]
    /\ Raced(n, clean[n] # "idle")
    /\ UNCHANGED <<sessionNow, sessionCall, loop, calls, faults, syncs>>

SessionTick ==
    /\ sessionNow < SessionMaxTime
    /\ sessionNow' = sessionNow + 1
    /\ UNCHANGED <<mem, disk, inbox, sessionCall, loop, clean, calls, faults, syncs, restarts, raced, lost>>

SessionInit ==
    /\ sessionNow = 0 /\ mem = [n \in Node |-> None] /\ disk = [n \in Node |-> None]
    /\ inbox = [n \in Node |-> <<>>] /\ sessionCall = [n \in Node |-> NoCall] /\ loop = [n \in Node |-> SessionIdle]
    /\ clean = [n \in Node |-> "idle"] /\ calls = 0 /\ faults = 0 /\ syncs = 0 /\ restarts = 0
    /\ raced = [n \in Node |-> FALSE] /\ lost = FALSE

SessionNext ==
    \/ SessionTick
    \/ \E n \in Node :
        \/ \E op \in {"get", "set", "delete", "renew"} : SessionBegin(n, op)
        \/ Peek(n) \/ PeekDrop(n) \/ PeekFile(n) \/ PeekFill(n) \/ Read(n) \/ Drop(n) \/ DropFile(n)
        \/ Refile(n) \/ Fill(n) \/ WriteMem(n) \/ WriteFile(n) \/ WriteFileFails(n) \/ Send(n)
        \/ HandleNotify(n) \/ NotifyFile(n) \/ NotifyMerge(n) \/ HandleInvalidate(n)
        \/ HandleSyncRequest(n) \/ SyncReply(n) \/ HandleSyncResponse(n)
        \/ (\E m \in Node : SyncWith(n, m))
        \/ Collect(n) \/ CleanMem(n) \/ CleanFile(n) \/ Restart(n)

SessionSpec == SessionInit /\ [][SessionNext]_sessionVars

-----------------------------------------------------------------------------
(* A node that is at rest holds in memory exactly the session it has        *)
(* persisted, whatever expired, was merged, was restarted or failed to be   *)
(* written by a Set before: a restart loses nothing and resurrects nothing. *)
(* It is claimed of nodes whose goroutines never overlapped and for which   *)
(* no failed write was ignored; the code keeps the lock over neither.       *)
SessionPersisted == \A n \in Node : Quiet(n) /\ ~raced[n] => mem[n] = disk[n]

(* When one node writes and no message was lost, a replica that has handled *)
(* its inbox holds the writer's session, or none if that has expired.       *)
SessionsConverge ==
    \A w \in Clients, r \in Node \ Clients :
        /\ Cardinality(Clients) = 1 /\ ~lost /\ ~raced[w] /\ ~raced[r]
        /\ Quiet(w) /\ Quiet(r) /\ inbox[r] = <<>>
        => Live(mem[r]) = Live(mem[w])
=============================================================================
