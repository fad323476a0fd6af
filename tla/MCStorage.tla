----------------------------- MODULE MCStorage ------------------------------
(*****************************************************************************)
(* Raft election, the raft log, the storage packages, the B+ tree and the    *)
(* patches of texts. A behaviour is about one of the components, the one     *)
(* named by which; its variables are in the slots.                           *)
(*****************************************************************************)
EXTENDS Integers, Sequences, FiniteSets, TLC

CONSTANTS a1, s1, s2, s3, s4, sa1, sa2, sa3, sb1, sb2, x0

VARIABLES
    which,   \* the component this behaviour is about
    x1, x2, x3, x4, x5, x6, x7, x8, x9, x10, x11, x12, x13, x14   \* its variables

slots == <<x1, x2, x3, x4, x5, x6, x7, x8, x9, x10, x11, x12, x13, x14>>
all == <<which, slots>>

Bt == INSTANCE KeyStores WITH
    Key <- 1 .. 6, Values <- [k \in 1 .. 6 |-> IF k = 1 THEN {1,2} ELSE {1}],
    MaxKeys <- 2, MaxNodes <- 11, h <- x1, it <- x2, content <- x3, Order <- 0,
    First <- 0, ReplicaCount <- 0, WriteQuorum <- 0, Overlap <- 0, MaxPuts <- 0,
    MaxAdmin <- 0, ring <- 0, shards <- 0, status <- 0, downShards <- 0, data <- 0,
    call <- 0, adm <- 0, puts <- 0, admins <- 0, live <- 0, overload <- 0

Ck == INSTANCE Contents WITH
    Bytes <- 0..2, MaxLen <- 7, ChunkSize <- 3, minChunkSize <- 3, maxChunkSize <- 5,
    boundary <- 0, WindowSize <- 2, Base <- 3, Mod <- 7, Target <- 3, data <- x1,
    rh <- x2, chunkStart <- x3, readTo <- x4, chunks <- x5, Mode <- 0, Items <- 0,
    EnginePrints <- 0, Similar <- 0, SharedHash <- 0, Callers <- 0, AutoPersist <- 0,
    AutoPersistCount <- 0, MaxOps <- 0, EngineMaxFaults <- 0, FileFPs <- 0, FpLens <- 0,
    EdLen <- 0, CsLen <- 0, FileMaxFaults <- 0, Line <- 0, contextSize <- 0, MaxOld <- 0,
    MaxNew <- 0, MaxMerge <- 0, open <- 0, index <- 0, simHashList <- 0, opCount <- 0,
    file <- 0, chk <- 0, answer <- 0, known <- 0, unsaved <- 0, silent <- 0, ops <- 0,
    engineFaults <- 0, fpLen <- 0, exists <- 0, count <- 0, body <- 0, todo <- 0,
    adding <- 0, saved <- 0, torn <- 0, fileFaults <- 0, texts <- 0, trace <- 0, at <- 0,
    script <- 0, hunks <- 0, changes <- 0, patch <- 0, out <- 0, phase <- 0

Re == INSTANCE RaftElection WITH
    Node <- {sa1,sa2,sa3}, NoNode <- x0, MaxTerm <- 2, MaxCalls <- 2, MaxStops <- 1,
    state <- x1, currentTerm <- x2, votedFor <- x3, votesReceived <- x4,
    nodeRunning <- x5, deaf <- x6, heartbeat <- x7, calls <- x8, stops <- x9,
    granted <- x10
ASSUME Re!RaftElectionAssumption

DdExact == INSTANCE Contents WITH
    Mode <- "exact", Items <- {"a","b"}, EnginePrints <- [a |-> {"p"}, b |-> {"q"}],
    Similar <- {}, SharedHash <- FALSE, Callers <- {"c"}, AutoPersist <- TRUE,
    AutoPersistCount <- 2, MaxOps <- 5, EngineMaxFaults <- 1, open <- x1, index <- x2,
    simHashList <- x3, opCount <- x4, file <- x5, chk <- x6, answer <- x7, known <- x8,
    unsaved <- x9, silent <- x10, ops <- x11, engineFaults <- x12, Bytes <- 0,
    MaxLen <- 0, ChunkSize <- 0, minChunkSize <- 0, maxChunkSize <- 0, boundary <- 0,
    WindowSize <- 0, Base <- 0, Mod <- 0, Target <- 0, FileFPs <- 0, FpLens <- 0,
    EdLen <- 0, CsLen <- 0, FileMaxFaults <- 0, Line <- 0, contextSize <- 0, MaxOld <- 0,
    MaxNew <- 0, MaxMerge <- 0, data <- 0, rh <- 0, chunkStart <- 0, readTo <- 0,
    chunks <- 0, fpLen <- 0, exists <- 0, count <- 0, body <- 0, todo <- 0, adding <- 0,
    saved <- 0, torn <- 0, fileFaults <- 0, texts <- 0, trace <- 0, at <- 0, script <- 0,
    hunks <- 0, changes <- 0, patch <- 0, out <- 0, phase <- 0

DdFuzzy == INSTANCE Contents WITH
    Mode <- "fuzzy", Items <- {"a","b","c"},
    EnginePrints <- [a |-> {"p"}, b |-> {"q"}, c |-> {"r"}],
    Similar <- {<<"p","p">>,<<"q","q">>,<<"r","r">>,<<"p","q">>,<<"q","p">>},
    SharedHash <- FALSE, Callers <- {"c"}, AutoPersist <- TRUE, AutoPersistCount <- 2,
    MaxOps <- 4, EngineMaxFaults <- 1, open <- x1, index <- x2, simHashList <- x3,
    opCount <- x4, file <- x5, chk <- x6, answer <- x7, known <- x8, unsaved <- x9,
    silent <- x10, ops <- x11, engineFaults <- x12, Bytes <- 0, MaxLen <- 0,
    ChunkSize <- 0, minChunkSize <- 0, maxChunkSize <- 0, boundary <- 0, WindowSize <- 0,
    Base <- 0, Mod <- 0, Target <- 0, FileFPs <- 0, FpLens <- 0, EdLen <- 0, CsLen <- 0,
    FileMaxFaults <- 0, Line <- 0, contextSize <- 0, MaxOld <- 0, MaxNew <- 0,
    MaxMerge <- 0, data <- 0, rh <- 0, chunkStart <- 0, readTo <- 0, chunks <- 0,
    fpLen <- 0, exists <- 0, count <- 0, body <- 0, todo <- 0, adding <- 0, saved <- 0,
    torn <- 0, fileFaults <- 0, texts <- 0, trace <- 0, at <- 0, script <- 0, hunks <- 0,
    changes <- 0, patch <- 0, out <- 0, phase <- 0

DdChunk == INSTANCE Contents WITH
    Mode <- "chunked", Items <- {"a","b"},
    EnginePrints <- [a |-> {"p","q"}, b |-> {"q","r"}], Similar <- {},
    SharedHash <- TRUE, Callers <- {"c","d"}, AutoPersist <- TRUE, AutoPersistCount <- 2,
    MaxOps <- 3, EngineMaxFaults <- 1, open <- x1, index <- x2, simHashList <- x3,
    opCount <- x4, file <- x5, chk <- x6, answer <- x7, known <- x8, unsaved <- x9,
    silent <- x10, ops <- x11, engineFaults <- x12, Bytes <- 0, MaxLen <- 0,
    ChunkSize <- 0, minChunkSize <- 0, maxChunkSize <- 0, boundary <- 0, WindowSize <- 0,
    Base <- 0, Mod <- 0, Target <- 0, FileFPs <- 0, FpLens <- 0, EdLen <- 0, CsLen <- 0,
    FileMaxFaults <- 0, Line <- 0, contextSize <- 0, MaxOld <- 0, MaxNew <- 0,
    MaxMerge <- 0, data <- 0, rh <- 0, chunkStart <- 0, readTo <- 0, chunks <- 0,
    fpLen <- 0, exists <- 0, count <- 0, body <- 0, todo <- 0, adding <- 0, saved <- 0,
    torn <- 0, fileFaults <- 0, texts <- 0, trace <- 0, at <- 0, script <- 0, hunks <- 0,
    changes <- 0, patch <- 0, out <- 0, phase <- 0

Dp == INSTANCE Contents WITH
    Line <- {"a","b","dash"}, contextSize <- 1, MaxOld <- 5, MaxNew <- 4, MaxMerge <- 3,
    texts <- x1, trace <- x2, at <- x3, script <- x4, hunks <- x5, changes <- x6,
    patch <- x7, out <- x8, phase <- x9, Bytes <- 0, MaxLen <- 0, ChunkSize <- 0,
    minChunkSize <- 0, maxChunkSize <- 0, boundary <- 0, WindowSize <- 0, Base <- 0,
    Mod <- 0, Target <- 0, Mode <- 0, Items <- 0, EnginePrints <- 0, Similar <- 0,
    SharedHash <- 0, Callers <- 0, AutoPersist <- 0, AutoPersistCount <- 0, MaxOps <- 0,
    EngineMaxFaults <- 0, FileFPs <- 0, FpLens <- 0, EdLen <- 0, CsLen <- 0,
    FileMaxFaults <- 0, data <- 0, rh <- 0, chunkStart <- 0, readTo <- 0, chunks <- 0,
    open <- 0, index <- 0, simHashList <- 0, opCount <- 0, file <- 0, chk <- 0,
    answer <- 0, known <- 0, unsaved <- 0, silent <- 0, ops <- 0, engineFaults <- 0,
    fpLen <- 0, exists <- 0, count <- 0, body <- 0, todo <- 0, adding <- 0, saved <- 0,
    torn <- 0, fileFaults <- 0

If == INSTANCE Contents WITH
    FileFPs <- {"p","q","r"}, FpLens <- {29, 45, 53, 77}, EdLen <- 45, CsLen <- 77,
    FileMaxFaults <- 2, fpLen <- x1, exists <- x2, count <- x3, body <- x4, todo <- x5,
    adding <- x6, saved <- x7, torn <- x8, fileFaults <- x9, Bytes <- 0, MaxLen <- 0,
    ChunkSize <- 0, minChunkSize <- 0, maxChunkSize <- 0, boundary <- 0, WindowSize <- 0,
    Base <- 0, Mod <- 0, Target <- 0, Mode <- 0, Items <- 0, EnginePrints <- 0,
    Similar <- 0, SharedHash <- 0, Callers <- 0, AutoPersist <- 0, AutoPersistCount <- 0,
    MaxOps <- 0, EngineMaxFaults <- 0, Line <- 0, contextSize <- 0, MaxOld <- 0,
    MaxNew <- 0, MaxMerge <- 0, data <- 0, rh <- 0, chunkStart <- 0, readTo <- 0,
    chunks <- 0, open <- 0, index <- 0, simHashList <- 0, opCount <- 0, file <- 0,
    chk <- 0, answer <- 0, known <- 0, unsaved <- 0, silent <- 0, ops <- 0,
    engineFaults <- 0, texts <- 0, trace <- 0, at <- 0, script <- 0, hunks <- 0,
    changes <- 0, patch <- 0, out <- 0, phase <- 0

Ls == INSTANCE LSM WITH
    Key <- {1,2}, MemTableSize <- 1, TargetFileSize <- 1, MaxLevel <- 3,
    Level0Files <- 1, LevelFiles <- 2, MaxWrites <- 3, MaxCrashes <- 1, memTable <- x1,
    immutable <- x2, flushing <- x3, levels <- x4, seqNum <- x5, closed <- x6, fpc <- x7,
    merge <- x8, disk <- x9, writes <- x10, crashes <- x11, truth <- x12, saved <- x13,
    leftover <- x14

LsWide == INSTANCE LSM WITH
    Key <- {1,2,3}, MemTableSize <- 2, TargetFileSize <- 2, MaxLevel <- 2,
    Level0Files <- 2, LevelFiles <- 2, MaxWrites <- 4, MaxCrashes <- 0, memTable <- x1,
    immutable <- x2, flushing <- x3, levels <- x4, seqNum <- x5, closed <- x6, fpc <- x7,
    merge <- x8, disk <- x9, writes <- x10, crashes <- x11, truth <- x12, saved <- x13,
    leftover <- x14

Rl == INSTANCE RaftLog WITH
    Node <- {sa1,sa2,sa3}, Value <- {sb1,sb2}, NoVal <- x0, MaxTerm <- 2, MaxIndex <- 2,
    MaxCalls <- 1, Compaction <- FALSE, state <- x1, currentTerm <- x2, votedFor <- x3,
    log <- x4, logOffset <- x5, lastSnapshotTerm <- x6, commitIndex <- x7,
    lastApplied <- x8, sm <- x9, nextIndex <- x10, matchIndex <- x11, calls <- x12,
    led <- x13

RlSnap == INSTANCE RaftLog WITH
    Node <- {sa1,sa2,sa3}, Value <- {a1}, NoVal <- x0, MaxTerm <- 1, MaxIndex <- 2,
    MaxCalls <- 1, Compaction <- TRUE, state <- x1, currentTerm <- x2, votedFor <- x3,
    log <- x4, logOffset <- x5, lastSnapshotTerm <- x6, commitIndex <- x7,
    lastApplied <- x8, sm <- x9, nextIndex <- x10, matchIndex <- x11, calls <- x12,
    led <- x13

Sk == INSTANCE KeyStores WITH
    Order <- <<s1,s2,s3,s4>>, First <- {s2,s3,s4}, ReplicaCount <- 2, WriteQuorum <- 2,
    Overlap <- FALSE, MaxPuts <- 2, MaxAdmin <- 4, ring <- x1, shards <- x2,
    status <- x3, downShards <- x4, data <- x5, call <- x6, adm <- x7, puts <- x8,
    admins <- x9, live <- x10, overload <- x11, Key <- 0, Values <- 0, MaxKeys <- 0,
    MaxNodes <- 0, h <- 0, it <- 0, content <- 0

Wal == INSTANCE WAL WITH
    Sizes <- {1,2}, MaxSegmentSize <- 3, BufferSize <- 2, FSyncOnWrite <- TRUE,
    MaxAppends <- 5, MaxFaults <- 2, files <- x1, synced <- x2, segments <- x3,
    nextOffset <- x4, open <- x5, fd <- x6, acked <- x7, appends <- x8, faults <- x9

WalLazy == INSTANCE WAL WITH
    Sizes <- {1,2}, MaxSegmentSize <- 3, BufferSize <- 2, FSyncOnWrite <- FALSE,
    MaxAppends <- 4, MaxFaults <- 1, files <- x1, synced <- x2, segments <- x3,
    nextOffset <- x4, open <- x5, fd <- x6, acked <- x7, appends <- x8, faults <- x9

-----------------------------------------------------------------------------
SuiteInit ==
    \/ /\ which = "Bt" /\ Bt!TreeInit /\ x4 = 0 /\ x5 = 0 /\ x6 = 0 /\ x7 = 0 /\ x8 = 0 /\ x9 = 0 /\ x10 = 0 /\ x11 = 0 /\ x12 = 0 /\ x13 = 0 /\ x14 = 0
    \/ /\ which = "Ck" /\ Ck!ChunkerInit /\ x6 = 0 /\ x7 = 0 /\ x8 = 0 /\ x9 = 0 /\ x10 = 0 /\ x11 = 0 /\ x12 = 0 /\ x13 = 0 /\ x14 = 0
    \/ /\ which = "Re" /\ Re!RaftInit /\ x11 = 0 /\ x12 = 0 /\ x13 = 0 /\ x14 = 0
    \/ /\ which = "DdExact" /\ DdExact!EngineInit /\ x13 = 0 /\ x14 = 0
    \/ /\ which = "DdFuzzy" /\ DdFuzzy!EngineInit /\ x13 = 0 /\ x14 = 0
    \/ /\ which = "DdChunk" /\ DdChunk!EngineInit /\ x13 = 0 /\ x14 = 0
    \/ /\ which = "Dp" /\ Dp!DiffInit /\ x10 = 0 /\ x11 = 0 /\ x12 = 0 /\ x13 = 0 /\ x14 = 0
    \/ /\ which = "If" /\ If!FileInit /\ x10 = 0 /\ x11 = 0 /\ x12 = 0 /\ x13 = 0 /\ x14 = 0
    \/ /\ which = "Ls" /\ Ls!Init
    \/ /\ which = "LsWide" /\ LsWide!Init
    \/ /\ which = "Rl" /\ Rl!Init /\ x14 = 0
    \/ /\ which = "RlSnap" /\ RlSnap!Init /\ x14 = 0
    \/ /\ which = "Sk" /\ Sk!ShardInit /\ x12 = 0 /\ x13 = 0 /\ x14 = 0
    \/ /\ which = "Wal" /\ Wal!Init /\ x10 = 0 /\ x11 = 0 /\ x12 = 0 /\ x13 = 0 /\ x14 = 0
    \/ /\ which = "WalLazy" /\ WalLazy!Init /\ x10 = 0 /\ x11 = 0 /\ x12 = 0 /\ x13 = 0 /\ x14 = 0

SuiteNext ==
    /\ UNCHANGED which
    /\ \/ /\ which = "Bt" /\ Bt!TreeNext /\ UNCHANGED <<x4, x5, x6, x7, x8, x9, x10, x11, x12, x13, x14>>
       \/ /\ which = "Ck" /\ Ck!ChunkerNext /\ UNCHANGED <<x6, x7, x8, x9, x10, x11, x12, x13, x14>>
       \/ /\ which = "Re" /\ Re!RaftNext /\ UNCHANGED <<x11, x12, x13, x14>>
       \/ /\ which = "DdExact" /\ DdExact!EngineNext /\ UNCHANGED <<x13, x14>>
       \/ /\ which = "DdFuzzy" /\ DdFuzzy!EngineNext /\ UNCHANGED <<x13, x14>>
       \/ /\ which = "DdChunk" /\ DdChunk!EngineNext /\ UNCHANGED <<x13, x14>>
       \/ /\ which = "Dp" /\ Dp!DiffNext /\ UNCHANGED <<x10, x11, x12, x13, x14>>
       \/ /\ which = "If" /\ If!FileNext /\ UNCHANGED <<x10, x11, x12, x13, x14>>
       \/ /\ which = "Ls" /\ Ls!Next
       \/ /\ which = "LsWide" /\ LsWide!Next
       \/ /\ which = "Rl" /\ Rl!Next /\ UNCHANGED <<x14>>
       \/ /\ which = "RlSnap" /\ RlSnap!Next /\ UNCHANGED <<x14>>
       \/ /\ which = "Sk" /\ Sk!ShardNext /\ UNCHANGED <<x12, x13, x14>>
       \/ /\ which = "Wal" /\ Wal!Next /\ UNCHANGED <<x10, x11, x12, x13, x14>>
       \/ /\ which = "WalLazy" /\ WalLazy!Next /\ UNCHANGED <<x10, x11, x12, x13, x14>>

Symmetric == Permutations({sa1, sa2, sa3}) \cup Permutations({sb1, sb2})

-----------------------------------------------------------------------------
(* Each component keeps its variables in their types. *)
TypesOK ==
    /\ which = "Bt" => Bt!TreeTypeOK
    /\ which = "Ck" => Ck!ChunkerTypeOK
    /\ which = "Re" => Re!RaftTypeOK
    /\ which = "DdExact" => DdExact!EngineTypeOK
    /\ which = "DdFuzzy" => DdFuzzy!EngineTypeOK
    /\ which = "DdChunk" => DdChunk!EngineTypeOK
    /\ which = "Dp" => Dp!DiffTypeOK
    /\ which = "If" => If!FileTypeOK
    /\ which = "Ls" => Ls!TypeOK
    /\ which = "LsWide" => LsWide!TypeOK
    /\ which = "Rl" => Rl!TypeOK
    /\ which = "RlSnap" => RlSnap!TypeOK
    /\ which = "Sk" => Sk!ShardTypeOK
    /\ which = "Wal" => Wal!TypeOK
    /\ which = "WalLazy" => WalLazy!TypeOK



(* myersDiff's script leads from the old lines to the new ones and has as   *)
(* few insertions and deletions as any.                                     *)
(* A patch read back and applied to the text it was made from gives the new *)
(* lines and no conflict, in however many hunks.  A deleted line that looks *)
(* like a header makes ParsePatch refuse the patch instead.                 *)
(* A patch of one hunk whose context is not found changes nothing of the    *)
(* text; where it is found, the reversed hunk undoes it.                    *)
(* Every line of base survives a merge unless a side deleted it, and every  *)
(* line a side inserted is there once, where no two changes overlap except  *)
(* equal ones; such a merge has no conflict.                                *)
(* The rolling update gives the hash of exactly the last window of the      *)
(* chunk, whatever earlier chunks and calls left in the ring.               *)
(* Chunks follow each other without gap, keep the size limits, and each     *)
(* ends at the first cut that its own content demands, so equal content     *)
(* from a chunk's start is cut alike in every call; the fixed-size chunker  *)
(* covers the data in pieces of ChunkSize.                                  *)
(* An item that was accepted, and of which no fingerprint was deleted since,*)
(* is answered as a duplicate by every Check that no other overlaps in the  *)
(* shared rolling hash; in the exact mode nothing else is, and in the fuzzy *)
(* mode the list that is searched holds the index without repetition.       *)
(* With automatic saving, a crash loses fewer than AutoPersistCount         *)
(* accepted items: the file holds every fingerprint of the others, unless a *)
(* save failed or the chunked mode added chunks of a partial duplicate.     *)
(* A file that no broken Append touched loads as what was stored last. A    *)
(* file that loads, at any moment of an Append and after any that broke     *)
(* off, holds what was there before or after it, and can be appended to.    *)
ContentIsExact ==
    /\ which = "Dp" => Dp!ShortestScript
    /\ which = "Dp" => Dp!PatchApplies
    /\ which = "Dp" => Dp!RejectedKeeps
    /\ which = "Dp" => Dp!MergeIsUnion
    /\ which = "Ck" => Ck!RollingHashExact
    /\ which = "Ck" => Ck!CutByContent
    /\ which = "DdExact" => DdExact!DedupFinds
    /\ which = "DdFuzzy" => DdFuzzy!DedupFinds
    /\ which = "DdChunk" => DdChunk!DedupFinds
    /\ which = "DdExact" => DdExact!CrashLosesFew
    /\ which = "DdFuzzy" => DdFuzzy!CrashLosesFew
    /\ which = "DdChunk" => DdChunk!CrashLosesFew
    /\ which = "If" => If!IndexFileSound

=============================================================================
