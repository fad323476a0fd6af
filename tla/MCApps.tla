------------------------------- MODULE MCApps -------------------------------
(*****************************************************************************)
(* The token, session, cache, configuration and query packages. A            *)
(* behaviour is about one of the components, the one named by which; its     *)
(* variables are in the slots.                                               *)
(*****************************************************************************)
EXTENDS Integers, Sequences, FiniteSets, TLC

CONSTANTS n1, n2, n3, sa1, sa2, sa3, sb1, sb2, sc1, sc2, u1

VARIABLES
    which,   \* the component this behaviour is about
    x1, x2, x3, x4, x5, x6, x7, x8, x9, x10, x11, x12, x13   \* its variables

slots == <<x1, x2, x3, x4, x5, x6, x7, x8, x9, x10, x11, x12, x13>>
all == <<which, slots>>

Cl == INSTANCE Caches WITH
    Callers <- {sb1,sb2}, Others <- {n3}, TTL <- 1, MaxAttempts <- 1, MaxTime <- 1,
    MaxDrops <- 0, now <- x1, locks <- x2, att <- x3, wait <- x4, pc <- x5, pend <- x6,
    lockInbox <- x7, stamp <- x8, marks <- x9, drops <- x10, Key <- 0, Cap1 <- 0,
    Cap2 <- 0, WriteBack <- 0, MaxWriteBackRetries <- 0, MaxPuts <- 0, MaxFaults <- 0,
    MaxRestarts <- 0, MaxQueue <- 0, VersionNode <- 0, MessageBuffer <- 0, MaxSets <- 0,
    MaxRounds <- 0, l1 <- 0, l2 <- 0, disk <- 0, q1 <- 0, q2 <- 0, phase <- 0, puts <- 0,
    faults <- 0, restarts <- 0, latest <- 0, excused <- 0, cache <- 0, send <- 0,
    versionInbox <- 0, rec <- 0, sets <- 0, rounds <- 0, made <- 0, conflict <- 0,
    touched <- 0

Cv == INSTANCE Caches WITH
    VersionNode <- {sa1,sa2,sa3}, MessageBuffer <- 1, MaxSets <- 3, MaxRounds <- 1,
    cache <- x1, send <- x2, versionInbox <- x3, rec <- x4, sets <- x5, rounds <- x6,
    made <- x7, conflict <- x8, touched <- x9, Key <- 0, Cap1 <- 0, Cap2 <- 0,
    WriteBack <- 0, MaxWriteBackRetries <- 0, MaxPuts <- 0, MaxFaults <- 0,
    MaxRestarts <- 0, MaxQueue <- 0, Callers <- 0, Others <- 0, TTL <- 0,
    MaxAttempts <- 0, MaxTime <- 0, MaxDrops <- 0, l1 <- 0, l2 <- 0, disk <- 0, q1 <- 0,
    q2 <- 0, phase <- 0, puts <- 0, faults <- 0, restarts <- 0, latest <- 0,
    excused <- 0, now <- 0, locks <- 0, att <- 0, wait <- 0, pc <- 0, pend <- 0,
    lockInbox <- 0, stamp <- 0, marks <- 0, drops <- 0

Ds == INSTANCE Sessions WITH
    Node <- {n1,n2}, Clients <- {n1}, AutoRenew <- TRUE, EnableSync <- TRUE, TTL <- 1,
    SyncBuffer <- 2, SessionMaxTime <- 2, MaxCalls <- 2, MaxFaults <- 1, MaxSyncs <- 1,
    MaxRestarts <- 0, sessionNow <- x1, mem <- x2, disk <- x3, inbox <- x4,
    sessionCall <- x5, loop <- x6, clean <- x7, calls <- x8, faults <- x9, syncs <- x10,
    restarts <- x11, raced <- x12, lost <- x13, JwtCaller <- 0, Ops <- 0,
    JwtAccessTokenTTL <- 0, JwtRefreshTokenTTL <- 0, RenewalWindow <- 0,
    BlacklistTTL <- 0, AutoBlacklistOld <- 0, JwtRefreshTokenRotation <- 0,
    NotBefore <- 0, JwtMaxTime <- 0, JwtMaxTokens <- 0, MaxRefresh <- 0,
    OAuthCaller <- 0, Client <- 0, Scope <- 0, AuthorizationCodeTTL <- 0,
    OAuthAccessTokenTTL <- 0, OAuthRefreshTokenTTL <- 0, OAuthRefreshTokenRotation <- 0,
    OAuthMaxTime <- 0, MaxCodes <- 0, OAuthMaxTokens <- 0, jwtNow <- 0, jwtTokens <- 0,
    blacklist <- 0, closed <- 0, jwtRefresh <- 0, jwtCall <- 0, retired <- 0, spent <- 0,
    oAuthNow <- 0, clients <- 0, codes <- 0, oAuthRefresh <- 0, oAuthTokens <- 0,
    oAuthCall <- 0

DsAlone == INSTANCE Sessions WITH
    Node <- {n1,n2}, Clients <- {n1}, AutoRenew <- TRUE, EnableSync <- FALSE, TTL <- 1,
    SyncBuffer <- 2, SessionMaxTime <- 2, MaxCalls <- 3, MaxFaults <- 1, MaxSyncs <- 0,
    MaxRestarts <- 1, sessionNow <- x1, mem <- x2, disk <- x3, inbox <- x4,
    sessionCall <- x5, loop <- x6, clean <- x7, calls <- x8, faults <- x9, syncs <- x10,
    restarts <- x11, raced <- x12, lost <- x13, JwtCaller <- 0, Ops <- 0,
    JwtAccessTokenTTL <- 0, JwtRefreshTokenTTL <- 0, RenewalWindow <- 0,
    BlacklistTTL <- 0, AutoBlacklistOld <- 0, JwtRefreshTokenRotation <- 0,
    NotBefore <- 0, JwtMaxTime <- 0, JwtMaxTokens <- 0, MaxRefresh <- 0,
    OAuthCaller <- 0, Client <- 0, Scope <- 0, AuthorizationCodeTTL <- 0,
    OAuthAccessTokenTTL <- 0, OAuthRefreshTokenTTL <- 0, OAuthRefreshTokenRotation <- 0,
    OAuthMaxTime <- 0, MaxCodes <- 0, OAuthMaxTokens <- 0, jwtNow <- 0, jwtTokens <- 0,
    blacklist <- 0, closed <- 0, jwtRefresh <- 0, jwtCall <- 0, retired <- 0, spent <- 0,
    oAuthNow <- 0, clients <- 0, codes <- 0, oAuthRefresh <- 0, oAuthTokens <- 0,
    oAuthCall <- 0

DsRead == INSTANCE Sessions WITH
    Node <- {n1,n2}, Clients <- {n1,n2}, AutoRenew <- FALSE, EnableSync <- TRUE,
    TTL <- 1, SyncBuffer <- 2, SessionMaxTime <- 1, MaxCalls <- 3, MaxFaults <- 1,
    MaxSyncs <- 0, MaxRestarts <- 0, sessionNow <- x1, mem <- x2, disk <- x3,
    inbox <- x4, sessionCall <- x5, loop <- x6, clean <- x7, calls <- x8, faults <- x9,
    syncs <- x10, restarts <- x11, raced <- x12, lost <- x13, JwtCaller <- 0, Ops <- 0,
    JwtAccessTokenTTL <- 0, JwtRefreshTokenTTL <- 0, RenewalWindow <- 0,
    BlacklistTTL <- 0, AutoBlacklistOld <- 0, JwtRefreshTokenRotation <- 0,
    NotBefore <- 0, JwtMaxTime <- 0, JwtMaxTokens <- 0, MaxRefresh <- 0,
    OAuthCaller <- 0, Client <- 0, Scope <- 0, AuthorizationCodeTTL <- 0,
    OAuthAccessTokenTTL <- 0, OAuthRefreshTokenTTL <- 0, OAuthRefreshTokenRotation <- 0,
    OAuthMaxTime <- 0, MaxCodes <- 0, OAuthMaxTokens <- 0, jwtNow <- 0, jwtTokens <- 0,
    blacklist <- 0, closed <- 0, jwtRefresh <- 0, jwtCall <- 0, retired <- 0, spent <- 0,
    oAuthNow <- 0, clients <- 0, codes <- 0, oAuthRefresh <- 0, oAuthTokens <- 0,
    oAuthCall <- 0

Gl == INSTANCE GraphQL WITH
    Lv <- {1,2,3}, Par <- [l \in {1,2,3} |-> IF l = 1 THEN 0 ELSE 1], Req <- {1,2,3},
    Own <- [r \in {1,2,3} |-> r], Key <- [r \in {1,2,3} |-> IF r = 1 THEN 1 ELSE 2],
    Window <- 0, MaxClears <- 1, window <- x1, timer <- x2, late <- x3, pending <- x4,
    batches <- x5, answer <- x6, lv <- x7, saved <- x8, mine <- x9, clears <- x10,
    NameTok <- 0, MaxDepth <- 0, Inner <- 0, Failing <- 0, sdl <- 0, schema <- 0,
    op <- 0, given <- 0, failing <- 0, doc <- 0, result <- 0, phase <- 0

GlShared == INSTANCE GraphQL WITH
    Lv <- {1,2,3}, Par <- [l \in {1,2,3} |-> IF l = 3 THEN 2 ELSE 0], Req <- {1,2,3},
    Own <- [r \in {1,2,3} |-> r], Key <- [r \in {1,2,3} |-> IF r = 1 THEN 1 ELSE 2],
    Window <- 1, MaxClears <- 1, window <- x1, timer <- x2, late <- x3, pending <- x4,
    batches <- x5, answer <- x6, lv <- x7, saved <- x8, mine <- x9, clears <- x10,
    NameTok <- 0, MaxDepth <- 0, Inner <- 0, Failing <- 0, sdl <- 0, schema <- 0,
    op <- 0, given <- 0, failing <- 0, doc <- 0, result <- 0, phase <- 0

Gq == INSTANCE GraphQL WITH
    
    NameTok <- {"a","b","c","d","e","x","y","v","on","query","mutation","Int","T","__typename"},
    MaxDepth <- 2, Inner <- {"d","__typename"}, Failing <- {{},{<<"T","d">>}}, sdl <- x1,
    schema <- x2, op <- x3, given <- x4, failing <- x5, doc <- x6, result <- x7,
    phase <- x8, Lv <- 0, Par <- 0, Req <- 0, Own <- 0, Key <- 0, Window <- 0,
    MaxClears <- 0, window <- 0, timer <- 0, late <- 0, pending <- 0, batches <- 0,
    answer <- 0, lv <- 0, saved <- 0, mine <- 0, clears <- 0

Hc == INSTANCE HotConfig WITH
    Contents <- {"a","b","bad"}, Alike <- {"a","c"}, Unparsable <- {"bad"},
    FailOnError <- FALSE, DebounceTicks <- 1, Timers <- {"t"}, MaxWrites <- 4,
    MaxCalls <- 2, MaxCallbacks <- 1, file <- x1, snapshot <- x2, lastModTime <- x3,
    running <- x4, events <- x5, timer <- x6, act <- x7, callbacks <- x8,
    callbackIDs <- x9, nextCBID <- x10, calls <- x11, outrun <- x12

HcIds == INSTANCE HotConfig WITH
    Contents <- {"a","b","bad"}, Alike <- {"a","c"}, Unparsable <- {"bad"},
    FailOnError <- FALSE, DebounceTicks <- 1, Timers <- {"t"}, MaxWrites <- 2,
    MaxCalls <- 1, MaxCallbacks <- 3, file <- x1, snapshot <- x2, lastModTime <- x3,
    running <- x4, events <- x5, timer <- x6, act <- x7, callbacks <- x8,
    callbackIDs <- x9, nextCBID <- x10, calls <- x11, outrun <- x12

Jw == INSTANCE Sessions WITH
    JwtCaller <- {sb1,sb2}, Ops <- {"validate","renew","revoke"}, JwtAccessTokenTTL <- 1,
    JwtRefreshTokenTTL <- 2, RenewalWindow <- 1, BlacklistTTL <- 2, NotBefore <- {0},
    AutoBlacklistOld <- TRUE, JwtRefreshTokenRotation <- TRUE, JwtMaxTime <- 4,
    JwtMaxTokens <- 2, MaxRefresh <- 0, jwtNow <- x1, jwtTokens <- x2, blacklist <- x3,
    closed <- x4, jwtRefresh <- x5, jwtCall <- x6, retired <- x7, spent <- x8,
    OAuthCaller <- 0, Client <- 0, Scope <- 0, AuthorizationCodeTTL <- 0,
    OAuthAccessTokenTTL <- 0, OAuthRefreshTokenTTL <- 0, OAuthRefreshTokenRotation <- 0,
    OAuthMaxTime <- 0, MaxCodes <- 0, OAuthMaxTokens <- 0, Node <- 0, Clients <- 0,
    AutoRenew <- 0, EnableSync <- 0, TTL <- 0, SyncBuffer <- 0, SessionMaxTime <- 0,
    MaxCalls <- 0, MaxFaults <- 0, MaxSyncs <- 0, MaxRestarts <- 0, oAuthNow <- 0,
    clients <- 0, codes <- 0, oAuthRefresh <- 0, oAuthTokens <- 0, oAuthCall <- 0,
    sessionNow <- 0, mem <- 0, disk <- 0, inbox <- 0, sessionCall <- 0, loop <- 0,
    clean <- 0, calls <- 0, faults <- 0, syncs <- 0, restarts <- 0, raced <- 0,
    lost <- 0

JwRefresh == INSTANCE Sessions WITH
    JwtCaller <- {sb1,sb2}, Ops <- {"refresh","validate"}, JwtAccessTokenTTL <- 1,
    JwtRefreshTokenTTL <- 1, RenewalWindow <- 1, BlacklistTTL <- 2, NotBefore <- {0,2},
    AutoBlacklistOld <- TRUE, JwtRefreshTokenRotation <- TRUE, JwtMaxTime <- 3,
    JwtMaxTokens <- 3, MaxRefresh <- 3, jwtNow <- x1, jwtTokens <- x2, blacklist <- x3,
    closed <- x4, jwtRefresh <- x5, jwtCall <- x6, retired <- x7, spent <- x8,
    OAuthCaller <- 0, Client <- 0, Scope <- 0, AuthorizationCodeTTL <- 0,
    OAuthAccessTokenTTL <- 0, OAuthRefreshTokenTTL <- 0, OAuthRefreshTokenRotation <- 0,
    OAuthMaxTime <- 0, MaxCodes <- 0, OAuthMaxTokens <- 0, Node <- 0, Clients <- 0,
    AutoRenew <- 0, EnableSync <- 0, TTL <- 0, SyncBuffer <- 0, SessionMaxTime <- 0,
    MaxCalls <- 0, MaxFaults <- 0, MaxSyncs <- 0, MaxRestarts <- 0, oAuthNow <- 0,
    clients <- 0, codes <- 0, oAuthRefresh <- 0, oAuthTokens <- 0, oAuthCall <- 0,
    sessionNow <- 0, mem <- 0, disk <- 0, inbox <- 0, sessionCall <- 0, loop <- 0,
    clean <- 0, calls <- 0, faults <- 0, syncs <- 0, restarts <- 0, raced <- 0,
    lost <- 0

Oa == INSTANCE Sessions WITH
    OAuthCaller <- {sb1,sb2}, Client <- {u1}, Scope <- {sc1,sc2},
    AuthorizationCodeTTL <- 0, OAuthAccessTokenTTL <- 1, OAuthRefreshTokenTTL <- 0,
    OAuthRefreshTokenRotation <- TRUE, OAuthMaxTime <- 1, MaxCodes <- 1,
    OAuthMaxTokens <- 3, oAuthNow <- x1, clients <- x2, codes <- x3, oAuthRefresh <- x4,
    oAuthTokens <- x5, oAuthCall <- x6, JwtCaller <- 0, Ops <- 0, JwtAccessTokenTTL <- 0,
    JwtRefreshTokenTTL <- 0, RenewalWindow <- 0, BlacklistTTL <- 0,
    AutoBlacklistOld <- 0, JwtRefreshTokenRotation <- 0, NotBefore <- 0, JwtMaxTime <- 0,
    JwtMaxTokens <- 0, MaxRefresh <- 0, Node <- 0, Clients <- 0, AutoRenew <- 0,
    EnableSync <- 0, TTL <- 0, SyncBuffer <- 0, SessionMaxTime <- 0, MaxCalls <- 0,
    MaxFaults <- 0, MaxSyncs <- 0, MaxRestarts <- 0, jwtNow <- 0, jwtTokens <- 0,
    blacklist <- 0, closed <- 0, jwtRefresh <- 0, jwtCall <- 0, retired <- 0, spent <- 0,
    sessionNow <- 0, mem <- 0, disk <- 0, inbox <- 0, sessionCall <- 0, loop <- 0,
    clean <- 0, calls <- 0, faults <- 0, syncs <- 0, restarts <- 0, raced <- 0,
    lost <- 0

TcBack == INSTANCE Caches WITH
    Key <- {sa1,sa2,sa3}, Cap1 <- 1, Cap2 <- 2, WriteBack <- TRUE,
    MaxWriteBackRetries <- 1, MaxPuts <- 3, MaxFaults <- 1, MaxRestarts <- 1,
    MaxQueue <- 2, l1 <- x1, l2 <- x2, disk <- x3, q1 <- x4, q2 <- x5, phase <- x6,
    puts <- x7, faults <- x8, restarts <- x9, latest <- x10, excused <- x11,
    Callers <- 0, Others <- 0, TTL <- 0, MaxAttempts <- 0, MaxTime <- 0, MaxDrops <- 0,
    VersionNode <- 0, MessageBuffer <- 0, MaxSets <- 0, MaxRounds <- 0, now <- 0,
    locks <- 0, att <- 0, wait <- 0, pc <- 0, pend <- 0, lockInbox <- 0, stamp <- 0,
    marks <- 0, drops <- 0, cache <- 0, send <- 0, versionInbox <- 0, rec <- 0,
    sets <- 0, rounds <- 0, made <- 0, conflict <- 0, touched <- 0

TcThrough == INSTANCE Caches WITH
    Key <- {sa1,sa2,sa3}, Cap1 <- 1, Cap2 <- 2, WriteBack <- FALSE,
    MaxWriteBackRetries <- 1, MaxPuts <- 3, MaxFaults <- 1, MaxRestarts <- 1,
    MaxQueue <- 2, l1 <- x1, l2 <- x2, disk <- x3, q1 <- x4, q2 <- x5, phase <- x6,
    puts <- x7, faults <- x8, restarts <- x9, latest <- x10, excused <- x11,
    Callers <- 0, Others <- 0, TTL <- 0, MaxAttempts <- 0, MaxTime <- 0, MaxDrops <- 0,
    VersionNode <- 0, MessageBuffer <- 0, MaxSets <- 0, MaxRounds <- 0, now <- 0,
    locks <- 0, att <- 0, wait <- 0, pc <- 0, pend <- 0, lockInbox <- 0, stamp <- 0,
    marks <- 0, drops <- 0, cache <- 0, send <- 0, versionInbox <- 0, rec <- 0,
    sets <- 0, rounds <- 0, made <- 0, conflict <- 0, touched <- 0

-----------------------------------------------------------------------------
SuiteInit ==
    \/ /\ which = "Cl" /\ Cl!LockInit /\ x11 = 0 /\ x12 = 0 /\ x13 = 0
    \/ /\ which = "Cv" /\ Cv!VersionInit /\ x10 = 0 /\ x11 = 0 /\ x12 = 0 /\ x13 = 0
    \/ /\ which = "Ds" /\ Ds!SessionInit
    \/ /\ which = "DsAlone" /\ DsAlone!SessionInit
    \/ /\ which = "DsRead" /\ DsRead!SessionInit
    \/ /\ which = "Gl" /\ Gl!LoaderInit /\ x11 = 0 /\ x12 = 0 /\ x13 = 0
    \/ /\ which = "GlShared" /\ GlShared!LoaderInit /\ x11 = 0 /\ x12 = 0 /\ x13 = 0
    \/ /\ which = "Gq" /\ Gq!QueryInit /\ x9 = 0 /\ x10 = 0 /\ x11 = 0 /\ x12 = 0 /\ x13 = 0
    \/ /\ which = "Hc" /\ Hc!Init /\ x13 = 0
    \/ /\ which = "HcIds" /\ HcIds!Init /\ x13 = 0
    \/ /\ which = "Jw" /\ Jw!JwtInit /\ x9 = 0 /\ x10 = 0 /\ x11 = 0 /\ x12 = 0 /\ x13 = 0
    \/ /\ which = "JwRefresh" /\ JwRefresh!JwtInit /\ x9 = 0 /\ x10 = 0 /\ x11 = 0 /\ x12 = 0 /\ x13 = 0
    \/ /\ which = "Oa" /\ Oa!OAuthInit /\ x7 = 0 /\ x8 = 0 /\ x9 = 0 /\ x10 = 0 /\ x11 = 0 /\ x12 = 0 /\ x13 = 0
    \/ /\ which = "TcBack" /\ TcBack!TierInit /\ x12 = 0 /\ x13 = 0
    \/ /\ which = "TcThrough" /\ TcThrough!TierInit /\ x12 = 0 /\ x13 = 0

SuiteNext ==
    /\ UNCHANGED which
    /\ \/ /\ which = "Cl" /\ Cl!LockNext /\ UNCHANGED <<x11, x12, x13>>
       \/ /\ which = "Cv" /\ Cv!VersionNext /\ UNCHANGED <<x10, x11, x12, x13>>
       \/ /\ which = "Ds" /\ Ds!SessionNext
       \/ /\ which = "DsAlone" /\ DsAlone!SessionNext
       \/ /\ which = "DsRead" /\ DsRead!SessionNext
       \/ /\ which = "Gl" /\ Gl!LoaderNext /\ UNCHANGED <<x11, x12, x13>>
       \/ /\ which = "GlShared" /\ GlShared!LoaderNext /\ UNCHANGED <<x11, x12, x13>>
       \/ /\ which = "Gq" /\ Gq!QueryNext /\ UNCHANGED <<x9, x10, x11, x12, x13>>
       \/ /\ which = "Hc" /\ Hc!Next /\ UNCHANGED <<x13>>
       \/ /\ which = "HcIds" /\ HcIds!Next /\ UNCHANGED <<x13>>
       \/ /\ which = "Jw" /\ Jw!JwtNext /\ UNCHANGED <<x9, x10, x11, x12, x13>>
       \/ /\ which = "JwRefresh" /\ JwRefresh!JwtNext /\ UNCHANGED <<x9, x10, x11, x12, x13>>
       \/ /\ which = "Oa" /\ Oa!OAuthNext /\ UNCHANGED <<x7, x8, x9, x10, x11, x12, x13>>
       \/ /\ which = "TcBack" /\ TcBack!TierNext /\ UNCHANGED <<x12, x13>>
       \/ /\ which = "TcThrough" /\ TcThrough!TierNext /\ UNCHANGED <<x12, x13>>

Symmetric == Permutations({sb1, sb2}) \cup Permutations({sa1, sa2, sa3}) \cup Permutations({sc1, sc2})

-----------------------------------------------------------------------------
(* Each component keeps its variables in their types. *)
TypesOK ==
    /\ which = "Cl" => Cl!LockTypeOK
    /\ which = "Cv" => Cv!VersionTypeOK
    /\ which = "Ds" => Ds!SessionTypeOK
    /\ which = "DsAlone" => DsAlone!SessionTypeOK
    /\ which = "DsRead" => DsRead!SessionTypeOK
    /\ which = "Gl" => Gl!LoaderTypeOK
    /\ which = "GlShared" => GlShared!LoaderTypeOK
    /\ which = "Gq" => Gq!QueryTypeOK
    /\ which = "Hc" => Hc!TypeOK
    /\ which = "HcIds" => HcIds!TypeOK
    /\ which = "Jw" => Jw!JwtTypeOK
    /\ which = "JwRefresh" => JwRefresh!JwtTypeOK
    /\ which = "Oa" => Oa!OAuthTypeOK
    /\ which = "TcBack" => TcBack!TierTypeOK
    /\ which = "TcThrough" => TcThrough!TierTypeOK



=============================================================================
