------------------------------ MODULE Contents ------------------------------
(*****************************************************************************)
(* Texts and files by content: the chunkers, the engine and the index file   *)
(* of datadedup, then the patches of diffpatch. The parts share no state;    *)
(* each has its own specification.                                           *)
(*****************************************************************************)
EXTENDS Integers, Sequences, SequencesExt, FiniteSets, FiniteSetsExt

(***************************************************************************)
(* The two chunkers of internal/datadedup and the rolling hash one of them *)
(* uses, one byte per step, on short data.  Base, Mod and the divisor that *)
(* stands for targetMask are small, so that cuts by hash happen; the       *)
(* chunker keeps one rolling hash for its life and resets it per chunk.    *)
(***************************************************************************)

CONSTANTS
    Bytes, MaxLen,       \* the data: sequences over Bytes up to MaxLen
    ChunkSize,           \* of the fixed-size chunker
    minChunkSize, maxChunkSize, boundary,
    WindowSize,          \* calcRollingWindowSize(minChunkSize)
    Base, Mod, Target    \* a hash divisible by Target is a cut

VARIABLES
    data,
    rh,       \* rollingHash: [window, head, count, hash]
    chunkStart, \* bytes in front of the chunk being built
    readTo,   \* bytes read
    chunks    \* ends of the chunks

chunkerVars == <<data, rh, chunkStart, readTo, chunks>>

Least(a, b) == IF a < b THEN a ELSE b

Power == FoldLeft(LAMBDA p, k : (p * Base) % Mod, 1, [k \in 1 .. WindowSize - 1 |-> k])

(* appendByte: fill the window, then replace its oldest byte in the ring. *)
appendByteSlip(r, b) ==
    IF r.count < WindowSize
    THEN [r EXCEPT !.window[r.count] = b, !.hash = (@ * Base + b) % Mod, !.count = @ + 1]
    ELSE LET out == (r.hash + Mod - ((r.window[r.head] * Power) % Mod)) % Mod
         IN [r EXCEPT !.window[r.head] = b, !.hash = (out * Base + b) % Mod]
appendByte(r, b) ==
    IF r.count < WindowSize
    THEN [r EXCEPT !.window[r.count] = b, !.hash = (@ * Base + b) % Mod, !.count = @ + 1]
    ELSE LET out == (r.hash + Mod - ((r.window[r.head] * Power) % Mod)) % Mod
         IN [r EXCEPT !.window[r.head] = b, !.hash = (out * Base + b) % Mod,
                      !.head = (@ + 1) % WindowSize]

(* reset leaves the bytes of the window. *)
reset(r) == [r EXCEPT !.head = 0, !.count = 0, !.hash = 0]

full(r) == r.count >= WindowSize

Cuts(r, b) == b = boundary \/ (full(r) /\ r.hash % Target = 0)

maxEnd == Least(chunkStart + maxChunkSize, Len(data))

(* What is left is no longer than a smallest chunk: it is the last one. *)
Rest ==
    /\ chunkStart < Len(data) /\ readTo = chunkStart /\ Len(data) - chunkStart <= minChunkSize
    /\ chunks' = Append(chunks, Len(data)) /\ chunkStart' = Len(data) /\ readTo' = Len(data)
    /\ rh' = reset(rh) /\ UNCHANGED data

(* One byte of the inner loop; the first byte of a chunk resets the hash. *)
Byte ==
    /\ chunkStart < Len(data) /\ (readTo = chunkStart => Len(data) - chunkStart > minChunkSize)
    /\ LET r == appendByte(IF readTo = chunkStart THEN reset(rh) ELSE rh, data[readTo + 1])
           ends == readTo + 1 = maxEnd \/ (readTo + 1 >= chunkStart + minChunkSize /\ Cuts(r, data[readTo + 1]))
       IN /\ rh' = r /\ readTo' = readTo + 1
          /\ chunkStart' = IF ends THEN readTo + 1 ELSE chunkStart
          /\ chunks' = IF ends THEN Append(chunks, readTo + 1) ELSE chunks
    /\ UNCHANGED data

(* The next call of Chunk on the same chunker. *)
Chunk ==
    /\ chunkStart = Len(data)
    /\ \E s \in {data, Tail(data), <<data[1]>> \o data} : 0 < Len(s) /\ Len(s) <= MaxLen /\ data' = s
    /\ chunkStart' = 0 /\ readTo' = 0 /\ chunks' = <<>> /\ UNCHANGED rh

(* fixedSizeChunker.Chunk: the ends of the chunks. *)
FixedEnds(n) == [k \in 1 .. (n + ChunkSize - 1) \div ChunkSize |-> Least(k * ChunkSize, n)]

ChunkerInit ==
    /\ \E n \in 1 .. MaxLen : data \in [1 .. n -> Bytes]
    /\ rh = [window |-> [k \in 0 .. WindowSize - 1 |-> 0], head |-> 0, count |-> 0, hash |-> 0]
    /\ chunkStart = 0 /\ readTo = 0 /\ chunks = <<>>

ChunkerNext == Rest \/ Byte \/ Chunk

ChunkerSpec == ChunkerInit /\ [][ChunkerNext]_chunkerVars

-----------------------------------------------------------------------------
ChunkerTypeOK ==
    /\ chunkStart \in 0 .. readTo /\ readTo <= Len(data)
    /\ rh.head \in 0 .. WindowSize - 1 /\ rh.count \in 0 .. WindowSize /\ rh.hash \in 0 .. Mod - 1
    /\ chunkStart = IF chunks = <<>> THEN 0 ELSE Last(chunks)

(* The bytes hashed so far: the last WindowSize of the chunk. *)
Window == SubSeq(data, IF readTo - chunkStart > WindowSize THEN readTo - WindowSize + 1 ELSE chunkStart + 1, readTo)

DirectHash(s) == FoldLeft(LAMBDA h, b : (h * Base + b) % Mod, 0, s)

(* The rolling update gives the hash of exactly the last window of the      *)
(* chunk, whatever earlier chunks and calls left in the ring.               *)
RollingHashExact == readTo > chunkStart => rh.hash = DirectHash(Window)

(* Where a chunk that starts at s must end, by its content alone.           *)
DueEnd(s) ==
    LET Due(e) == \/ e = s + maxChunkSize \/ e = Len(data)
                  \/ /\ e >= s + minChunkSize
                     /\ \/ data[e] = boundary
                        \/ e - s >= WindowSize /\ DirectHash(SubSeq(data, e - WindowSize + 1, e)) % Target = 0
    IN IF Len(data) - s <= minChunkSize THEN Len(data)
       ELSE CHOOSE e \in s + 1 .. Len(data) : Due(e) /\ \A f \in s + 1 .. e - 1 : ~ Due(f)

(* Chunks follow each other without gap, keep the size limits, and each     *)
(* ends at the first cut that its own content demands, so equal content     *)
(* from a chunk's start is cut alike in every call; the fixed-size chunker  *)
(* covers the data in pieces of ChunkSize.                                  *)
CutByContent ==
    /\ \A k \in DOMAIN chunks : chunks[k] = DueEnd(IF k = 1 THEN 0 ELSE chunks[k - 1])
    /\ LET f == FixedEnds(Len(data)) IN
       /\ Last(f) = Len(data)
       /\ \A k \in 1 .. Len(f) - 1 : f[k + 1] > f[k] /\ f[k + 1] - f[k] <= ChunkSize

-----------------------------------------------------------------------------
(***************************************************************************)
(* The deduplication engine of internal/datadedup in its three modes, its  *)
(* persisted index, and crashes of the process.  Hashing is a function     *)
(* Prints from an item to its fingerprints: one in the exact and fuzzy     *)
(* modes, one per chunk in the chunked mode.  Similar is the relation      *)
(* "Similarity is at least the threshold" on fingerprints.                 *)
(* The content-based chunker has one rolling hash for all callers, and     *)
(* Check runs under a read lock: calls that overlap cut at other places.   *)
(***************************************************************************)

CONSTANTS
    Mode, Items, EnginePrints, Similar,
    SharedHash,          \* the content-based chunker is used
    Callers,             \* goroutines that call Check
    AutoPersist, AutoPersistCount,
    MaxOps, EngineMaxFaults    \* bounds: calls that change the index; failed writes and crashes

VARIABLES
    open,
    index, simHashList,  \* of the engine; the list is of the fuzzy mode
    opCount,
    file,       \* Missing, or the fingerprints that the file of PersistPath holds
    chk,        \* Check in progress per caller: NoCheck or [item, raced]
    answer,     \* the last answer of each caller since the last write: [item, raced, owed, dup]
    known,      \* items accepted and since then not deleted, cleared or replaced
    unsaved,    \* items accepted since the last save
    silent,     \* a save failed, or an addition was not counted
    ops, engineFaults

engineVars == <<open, index, simHashList, opCount, file, chk, answer, known, unsaved, silent, ops, engineFaults>>

EngineFPs == UNION {EnginePrints[x] : x \in Items}
NoCheck == [item |-> "none", raced |-> FALSE]
NoAnswer == [item |-> "none", raced |-> FALSE, owed |-> FALSE, dup |-> FALSE]
Missing == {"missing"}

-----------------------------------------------------------------------------
(* Check of the mode's engine, on the fingerprints P of the data. *)
Matched(P) ==
    IF Mode = "fuzzy" THEN {f \in ToSet(simHashList) : \E p \in P : <<p, f>> \in Similar}
    ELSE P \cap index

Dup(P) == Matched(P) # {}

ListAdd(P) == IF Mode = "fuzzy" THEN simHashList \o SetToSeq(P \ index) ELSE <<>>

ListRemove(P) == SelectSeq(simHashList, LAMBDA f : f \notin P)

(* saveIndex goes through a temporary file and a rename: a failure leaves   *)
(* the old file. Only Save reports it.                                      *)
SaveOk(S) == file' = S /\ unsaved' = {} /\ silent' = FALSE /\ UNCHANGED engineFaults

SaveFails == engineFaults < EngineMaxFaults /\ engineFaults' = engineFaults + 1 /\ silent' = TRUE /\ UNCHANGED file

(* The tail of Add and CheckAndAdd: count the change and save now and then. *)
SaveDue == AutoPersist /\ opCount + 1 >= AutoPersistCount

CountChange(x, S) ==
    \/ SaveDue /\ opCount' = 0 /\ SaveOk(S)
    \/ SaveDue /\ opCount' = 0 /\ SaveFails /\ unsaved' = unsaved \cup {x}
    \/ ~ SaveDue /\ opCount' = opCount + 1 /\ unsaved' = unsaved \cup {x} /\ UNCHANGED <<file, silent, engineFaults>>

Locked == open /\ \A c \in Callers : chk[c] = NoCheck

Forget == answer' = [c \in Callers |-> NoAnswer]

Writes == Locked /\ ops < MaxOps /\ ops' = ops + 1 /\ Forget /\ UNCHANGED <<open, chk>>

EngineAdd(x) ==
    /\ Writes
    /\ index' = index \cup EnginePrints[x] /\ simHashList' = ListAdd(EnginePrints[x])
    /\ known' = known \cup {x}
    /\ CountChange(x, index')

(* The chunked mode adds the new chunks of data it calls a duplicate, and   *)
(* does not count that.                                                     *)
CheckAndAdd(x) ==
    LET P == EnginePrints[x]
        new == IF Mode # "chunked" /\ Dup(P) THEN {} ELSE P \ index
    IN /\ Writes
       /\ index' = index \cup new /\ simHashList' = ListAdd(new)
       /\ known' = IF Mode = "fuzzy" /\ Dup(P) THEN known ELSE known \cup {x}
       /\ \/ ~ Dup(P) /\ CountChange(x, index')
          \/ Dup(P) /\ silent' = (silent \/ new # {}) /\ UNCHANGED <<opCount, file, unsaved, engineFaults>>

(* Delete is not counted, and drops chunks that other data have in common. *)
Delete(x) ==
    /\ Writes
    /\ index' = index \ EnginePrints[x] /\ simHashList' = ListRemove(EnginePrints[x])
    /\ known' = {y \in known : EnginePrints[y] \cap EnginePrints[x] = {}}
    /\ UNCHANGED <<opCount, file, unsaved, silent, engineFaults>>

Clear ==
    /\ Writes
    /\ index' = {} /\ simHashList' = <<>> /\ opCount' = 0 /\ known' = {} /\ unsaved' = {}
    /\ UNCHANGED <<file, silent, engineFaults>>

CheckBegin(c, x) ==
    /\ open /\ chk[c] = NoCheck
    /\ LET together == SharedHash /\ \E d \in Callers : chk[d] # NoCheck IN
       chk' = [d \in Callers |->
                 IF d = c THEN [item |-> x, raced |-> together]
                 ELSE IF chk[d] # NoCheck THEN [chk[d] EXCEPT !.raced = @ \/ together] ELSE NoCheck]
    /\ UNCHANGED <<open, index, simHashList, opCount, file, answer, known, unsaved, silent, ops, engineFaults>>

CheckEnd(c) ==
    /\ chk[c] # NoCheck
    /\ \E d \in IF chk[c].raced THEN BOOLEAN ELSE {Dup(EnginePrints[chk[c].item])} :
         answer' = [answer EXCEPT ![c] = [item |-> chk[c].item, raced |-> chk[c].raced,
                                          owed |-> chk[c].item \in known, dup |-> d]]
    /\ chk' = [chk EXCEPT ![c] = NoCheck]
    /\ UNCHANGED <<open, index, simHashList, opCount, file, known, unsaved, silent, ops, engineFaults>>

EngineSave ==
    /\ Writes
    /\ SaveOk(index) \/ (SaveFails /\ UNCHANGED unsaved)
    /\ UNCHANGED <<index, simHashList, opCount, known>>

SetIndex(S) == index' = S /\ simHashList' = IF Mode = "fuzzy" THEN SetToSeq(S) ELSE <<>>

Load ==
    /\ Writes /\ file # Missing
    /\ SetIndex(file) /\ known' = {x \in Items : EnginePrints[x] \subseteq file}
    /\ unsaved' = {} /\ silent' = FALSE
    /\ UNCHANGED <<opCount, file, engineFaults>>

(* NewDedupEngine loads the file, if there is one. *)
New ==
    /\ ~ open /\ open' = TRUE
    /\ LET S == IF file = Missing THEN {} ELSE file IN
       SetIndex(S) /\ known' = {x \in Items : EnginePrints[x] \subseteq S}
    /\ opCount' = 0 /\ unsaved' = {} /\ silent' = FALSE /\ Forget
    /\ UNCHANGED <<file, chk, ops, engineFaults>>

EngineClose ==
    /\ Locked /\ open' = FALSE
    /\ SaveOk(index) \/ (SaveFails /\ UNCHANGED unsaved)
    /\ UNCHANGED <<index, simHashList, opCount, chk, answer, known, ops>>

Crash ==
    /\ open /\ engineFaults < EngineMaxFaults /\ engineFaults' = engineFaults + 1
    /\ open' = FALSE /\ chk' = [c \in Callers |-> NoCheck]
    /\ UNCHANGED <<index, simHashList, opCount, file, answer, known, unsaved, silent, ops>>

EngineInit ==
    /\ open = FALSE /\ index = {} /\ simHashList = <<>> /\ opCount = 0 /\ file = Missing
    /\ chk = [c \in Callers |-> NoCheck] /\ answer = [c \in Callers |-> NoAnswer]
    /\ known = {} /\ unsaved = {} /\ silent = FALSE /\ ops = 0 /\ engineFaults = 0

EngineNext ==
    \/ \E x \in Items : EngineAdd(x) \/ CheckAndAdd(x) \/ Delete(x)
    \/ \E c \in Callers : CheckEnd(c) \/ \E x \in Items : CheckBegin(c, x)
    \/ Clear \/ EngineSave \/ Load \/ New \/ EngineClose \/ Crash

EngineSpec == EngineInit /\ [][EngineNext]_engineVars

-----------------------------------------------------------------------------
EngineTypeOK ==
    /\ index \subseteq EngineFPs /\ ToSet(simHashList) \subseteq EngineFPs
    /\ file = Missing \/ file \subseteq EngineFPs
    /\ known \subseteq Items /\ unsaved \subseteq Items /\ opCount \in 0 .. MaxOps

(* An item that was accepted, and of which no fingerprint was deleted since,*)
(* is answered as a duplicate by every Check that no other overlaps in the  *)
(* shared rolling hash; in the exact mode nothing else is, and in the fuzzy *)
(* mode the list that is searched holds the index without repetition.       *)
DedupFinds ==
    /\ \A c \in Callers : answer[c].owed /\ ~ answer[c].raced => answer[c].dup
    /\ open => \A x \in known : Dup(EnginePrints[x])
    /\ open /\ Mode = "exact" => \A x \in Items : Dup(EnginePrints[x]) => x \in known
    /\ Mode = "fuzzy" => ToSet(simHashList) = index /\ Len(simHashList) = Cardinality(index)

(* With automatic saving, a crash loses fewer than AutoPersistCount         *)
(* accepted items: the file holds every fingerprint of the others, unless a *)
(* save failed or the chunked mode added chunks of a partial duplicate.     *)
CrashLosesFew ==
    open /\ ~ silent =>
        /\ AutoPersist => Cardinality(unsaved) < AutoPersistCount
        /\ \A x \in known : EnginePrints[x] \subseteq file \cup UNION {EnginePrints[y] : y \in unsaved}

-----------------------------------------------------------------------------
(***************************************************************************)
(* The index file of internal/datadedup (persistence.go): Save through a   *)
(* temporary file and a rename, Append in place, write by write, with an   *)
(* error or a crash after any write, and the tests of Load and Append.     *)
(* The file is a header count and a sequence of entries [t, v, len]: "fp"  *)
(* with its fingerprint, "ed" with the fingerprints its digest is of, "cs" *)
(* with the count and the fingerprints its checksum is of. What is left of *)
(* an entry that was partly overwritten is "junk": its first bytes are hex *)
(* text or digest bytes, read as a length above 1024.                      *)
(***************************************************************************)

CONSTANTS
    FileFPs,
    FpLens,       \* lengths of a fingerprint's entry, by hash algorithm
    EdLen, CsLen, \* lengths of the digest's and the checksum's entry
    FileMaxFaults

VARIABLES
    fpLen,      \* of the algorithm in use
    exists, count, body,
    todo,       \* the writes that Append still has to do: [pos, tok]
    adding,     \* the fingerprint Append adds, {} if none
    saved,      \* what the last completed Save or Append stored
    torn,       \* an Append was broken off since the last Save
    fileFaults

fileVars == <<fpLen, exists, count, body, todo, adding, saved, torn, fileFaults>>

Fp(x) == [t |-> "fp", v |-> <<0, <<x>>>>, len |-> fpLen]
Ed(s) == [t |-> "ed", v |-> <<0, s>>, len |-> EdLen]
Cs(n, s) == [t |-> "cs", v |-> <<n, s>>, len |-> CsLen]
Junk(n) == [t |-> "junk", v |-> <<0, <<>>>>, len |-> n]

FileSize(b) == FoldLeft(LAMBDA n, e : n + e.len, 0, b)
Offset(b, k) == FileSize(SubSeq(b, 1, k - 1))

(* Write at an offset: entries before it stay, what is covered is lost. *)
Overwrite(b, pos, tok) ==
    LET Left(k) == LET over == pos + tok.len - Offset(b, k) IN
                   IF over <= 0 THEN <<b[k]>> ELSE IF over >= b[k].len THEN <<>> ELSE <<Junk(b[k].len - over)>>
        before == {k \in DOMAIN b : Offset(b, k) < pos}
    IN SubSeq(b, 1, Cardinality(before)) \o <<tok>>
       \o FlattenSeq([k \in 1 .. Len(b) - Cardinality(before) |-> Left(k + Cardinality(before))])

-----------------------------------------------------------------------------
(* The entries read: up to the checksum, if there is one. *)
CsAt(b) == SelectInSeq(b, LAMBDA e : e.t = "cs")
Read(b) == IF CsAt(b) = 0 THEN b ELSE SubSeq(b, 1, CsAt(b))
FilePrints(b) == LET f == SelectSeq(Read(b), LAMBDA e : e.t = "fp") IN [k \in DOMAIN f |-> f[k].v[2][1]]
LastEd(b) == LET s == SelectSeq(Read(b), LAMBDA e : e.t = "ed") IN IF s = <<>> THEN <<>> ELSE <<Last(s).v[2]>>
Parses(b) == \A k \in DOMAIN Read(b) : Read(b)[k].t # "junk"

(* loadLocked returns an index. *)
Accepts ==
    /\ exists /\ Parses(body) /\ Len(FilePrints(body)) = count
    /\ LastEd(body) # <<>> => LastEd(body)[1] = FilePrints(body)
    /\ CsAt(body) # 0 /\ body[CsAt(body)].v = <<count, FilePrints(body)>>

FileWhole(s) == [k \in DOMAIN s |-> Fp(s[k])] \o <<Ed(s), Cs(Len(s), s)>>

(* saveLocked, in any order of the index: all of it or nothing. *)
FileSave(S) ==
    /\ todo = <<>>
    /\ \E s \in SetToSeqs(S) : body' = FileWhole(s) /\ count' = Len(s)
    /\ exists' = TRUE /\ saved' = S /\ adding' = {} /\ torn' = FALSE
    /\ UNCHANGED <<fpLen, todo, fileFaults>>

(* appendLocked scans before it writes; it does not look at checksums. *)
Found(x) == \E k \in DOMAIN Read(body) : Read(body)[k].t = "fp" /\ Read(body)[k].v[2][1] = x
              /\ \A j \in 1 .. k - 1 : Read(body)[j].t # "junk"

Appendable == Parses(body) /\ CsAt(body) # 0 /\ Len(FilePrints(body)) = count

EdAt(b) == Max({0} \cup {k \in DOMAIN Read(b) : b[k].t = "ed"})

AppendBegin(x) ==
    /\ todo = <<>> /\ exists /\ ~ Found(x) /\ Appendable
    /\ LET pos == Offset(body, IF EdAt(body) > 0 THEN EdAt(body) ELSE CsAt(body))
           s == Append(FilePrints(body), x)
       IN todo' = <<[pos |-> pos, tok |-> Fp(x)], [pos |-> pos + fpLen, tok |-> Ed(s)],
                    [pos |-> pos + fpLen + EdLen, tok |-> Cs(count + 1, s)]>>
    /\ adding' = {x} /\ count' = count + 1     \* the header goes first
    /\ UNCHANGED <<fpLen, exists, body, saved, torn, fileFaults>>

(* Append of the first fingerprint is a Save. *)
AppendNew(x) == ~ exists /\ FileSave({x})

(* The next write; the last one is followed by the truncation. *)
AppendWrite ==
    /\ todo # <<>>
    /\ body' = Overwrite(body, Head(todo).pos, Head(todo).tok)
    /\ todo' = Tail(todo)
    /\ IF Len(todo) = 1
       THEN /\ adding' = {} /\ saved' = ToSet(FilePrints(body')) /\ torn' = FALSE
       ELSE UNCHANGED <<adding, saved, torn>>
    /\ UNCHANGED <<fpLen, exists, count, fileFaults>>

(* A write fails, or the process dies: the rest is not written. *)
AppendBreaks ==
    /\ todo # <<>> /\ fileFaults < FileMaxFaults
    /\ fileFaults' = fileFaults + 1 /\ todo' = <<>> /\ torn' = TRUE
    /\ UNCHANGED <<fpLen, exists, count, body, adding, saved>>

FileInit ==
    /\ fpLen \in FpLens /\ exists = FALSE /\ count = 0 /\ body = <<>>
    /\ todo = <<>> /\ adding = {} /\ saved = {} /\ torn = FALSE /\ fileFaults = 0

FileNext ==
    \/ \E S \in SUBSET FileFPs : FileSave(S)
    \/ \E x \in FileFPs : AppendBegin(x) \/ AppendNew(x)
    \/ AppendWrite \/ AppendBreaks

FileSpec == FileInit /\ [][FileNext]_fileVars

-----------------------------------------------------------------------------
FileTypeOK ==
    /\ fpLen \in FpLens /\ count \in 0 .. Cardinality(FileFPs) + FileMaxFaults
    /\ \A k \in DOMAIN body : body[k].t \in {"fp", "ed", "cs", "junk"} /\ body[k].len > 0
    /\ saved \subseteq FileFPs /\ adding \subseteq FileFPs /\ torn \in BOOLEAN

(* A file that no broken Append touched loads as what was stored last. A    *)
(* file that loads, at any moment of an Append and after any that broke     *)
(* off, holds what was there before or after it, and can be appended to.    *)
IndexFileSound ==
    /\ exists /\ todo = <<>> /\ ~ torn => Accepts /\ ToSet(FilePrints(body)) = saved
    /\ Accepts => ToSet(FilePrints(body)) \in {saved, saved \cup adding} /\ Appendable

-----------------------------------------------------------------------------
(***************************************************************************)
(* diffpatch: Myers' shortest edit script, hunks with context, the unified *)
(* format and its parser, the application of a patch, and three way        *)
(* merges.  A text is a sequence of lines and whether it ends in a newline.*)
(* The line "dash" stands for lines beginning with "-- ".                  *)
(***************************************************************************)

CONSTANTS
    Line,           \* contents of lines
    contextSize,    \* lines of context; 3 in the code
    MaxOld, MaxNew, \* lines of the texts that are compared
    MaxMerge        \* lines of the texts that are merged

VARIABLES
    texts,      \* old and new, or base, ours and theirs
    trace,      \* myersDiff: the copies of v, the last one current
    at,         \* backtrack: x and y
    script,     \* the edit script
    hunks,      \* buildHunks' answer
    changes,    \* diffToChanges' answers: ours, theirs
    patch,      \* ParsePatch's answer for PatchToUnified's text
    out,        \* ApplyPatch's or ThreeWayMerge's answer
    phase

diffVars == <<texts, trace, at, script, hunks, changes, patch, out, phase>>

Text(lines, nl) == [lines |-> lines, nl |-> nl]
Lesser(i, j) == IF i < j THEN i ELSE j
Greater(i, j) == IF i > j THEN i ELSE j

-----------------------------------------------------------------------------
(* myersDiff compares the first text with the next of the others. *)
a == texts[1].lines
b == texts[Len(changes) + 2].lines

Down(v, d, k) == k = 0 - d \/ (k # d /\ v[k - 1] < v[k + 1])
Slide(x, y) ==
    x + Cardinality({l \in 1 .. Len(a) : x + l <= Len(a) /\ y + l <= Len(b) /\ \A i \in 1 .. l : a[x + i] = b[y + i]})
From(v, d, k) == IF Down(v, d, k) THEN v[k + 1] ELSE v[k - 1] + 1
Furthest(x, k) == Slide(x, x - k)
Diagonals(d) == {k \in 0 - d .. d : (k + d) % 2 = 0}
Advance(v, d) == [k \in DOMAIN v |-> IF k \in Diagonals(d) THEN Furthest(From(v, d, k), k) ELSE v[k]]
AtEnd(v, d) == \E k \in Diagonals(d) : v[k] >= Len(a) /\ v[k] - k >= Len(b)
Zeros(max) == [k \in 0 - max .. max |-> 0]

Op(o, l) == [op |-> o, line |-> l]
Kept(x, n) == [i \in 1 .. n |-> Op("=", a[x - n + i])]

(* One round of myersDiff; d is the number of the round. *)
Round(d) ==
    /\ phase = "rounds" /\ d = Len(trace) - 1
    /\ a # <<>> /\ b # <<>>
    /\ LET v == Advance(trace[d + 1], d)
       IN IF AtEnd(v, d) THEN phase' = "back" /\ at' = <<Len(a), Len(b)>> /\ UNCHANGED trace
          ELSE trace' = Append(trace, v) /\ UNCHANGED <<phase, at>>
    /\ UNCHANGED <<texts, script, hunks, changes, patch, out>>

(* One round of backtrack: equal lines back to the point the edit of this   *)
(* round led to, and the edit.                                              *)
Undo(x, y, px, py) ==
    LET eq == Lesser(x - px, y - py)
    IN /\ script' = (IF x - eq > px THEN <<Op("-", a[x - eq])>> ELSE <<Op("+", b[y - eq])>>) \o Kept(x, eq) \o script
       /\ at' = IF x - eq > px THEN <<x - eq - 1, y - eq>> ELSE <<x - eq, y - eq - 1>>
Back(d) ==
    /\ phase = "back" /\ d = Len(trace) - 1 /\ d > 0
    /\ LET v == trace[d + 1]
           k == at[1] - at[2]
           pk == IF Down(v, d, k) THEN k + 1 ELSE k - 1
       IN Undo(at[1], at[2], v[pk], v[pk] - pk)
    /\ trace' = SubSeq(trace, 1, d)
    /\ UNCHANGED <<texts, hunks, changes, patch, out, phase>>

-----------------------------------------------------------------------------
(* buildHunks, one edit at a time *)
L(t, c, no) == [t |-> t, c |-> c, old |-> no]
Hunk(os, oc, ns, nc, lines) == [os |-> os, oc |-> oc, ns |-> ns, nc |-> nc, lines |-> lines]
NoHunk == Hunk(0, 0, 0, 0, <<>>)
DiffAdd(h, t, c, no) == [h EXCEPT !.lines = Append(@, L(t, c, no)), !.oc = @ + (IF t = "+" THEN 0 ELSE 1), !.nc = @ + (IF t = "-" THEN 0 ELSE 1)]
Trim(h, n) == [h EXCEPT !.lines = SubSeq(@, 1, Len(@) - n), !.oc = @ - n, !.nc = @ - n]

Open(oi, ni) ==
    LET start == IF oi < contextSize THEN 0 ELSE oi - contextSize
        ns == ni - (oi - start) + 1
    IN Hunk(start + 1, oi - start, IF ns < 1 THEN 1 ELSE ns, oi - start, [i \in 1 .. oi - start |-> L("=", a[start + i], start + i)])

Equal(s, e) ==
    LET cur == DiffAdd(s.cur, "=", e.line, s.oi + 1)
        on == [s EXCEPT !.oi = @ + 1, !.ni = @ + 1]
    IN IF ~ s.in THEN on
       ELSE IF s.pend + 1 > 2 * contextSize
       THEN [on EXCEPT !.hunks = Append(@, Trim(cur, contextSize)), !.in = FALSE, !.pend = 0]
       ELSE [on EXCEPT !.cur = cur, !.pend = @ + 1]

Edit(s, e) ==
    LET cur == IF s.in THEN s.cur ELSE Open(s.oi, s.ni)
    IN [s EXCEPT !.in = TRUE, !.pend = 0, !.cur = DiffAdd(cur, e.op, e.line, s.oi + 1),
                 !.oi = IF e.op = "-" THEN @ + 1 ELSE @, !.ni = IF e.op = "+" THEN @ + 1 ELSE @]

DiffClose(s) == IF ~ s.in THEN s.hunks
            ELSE Append(s.hunks, Trim(s.cur, IF s.pend > contextSize THEN s.pend - contextSize ELSE 0))
buildHunks(ses) ==
    DiffClose(FoldLeft(LAMBDA s, e : IF e.op = "=" THEN Equal(s, e) ELSE Edit(s, e),
                   [hunks |-> <<>>, in |-> FALSE, cur |-> NoHunk, pend |-> 0, oi |-> 0, ni |-> 0], ses))

-----------------------------------------------------------------------------
(* The unified format: header, lines with a prefix.  A deleted line that   *)
(* begins with "-- " looks like a header.                                  *)
HunkText(h) == <<[p |-> "@", c |-> "", h |-> [h EXCEPT !.lines = <<>>]]>>
               \o [i \in DOMAIN h.lines |-> [p |-> h.lines[i].t, c |-> h.lines[i].c, h |-> NoHunk]]
PatchToUnified(hs) == FlattenSeq([i \in DOMAIN hs |-> HunkText(hs[i])])

Counted(h) ==
    LET n(ts) == Cardinality({i \in DOMAIN h.lines : h.lines[i].t \in ts})
    IN n({"=", "-"}) = h.oc /\ n({"=", "+"}) = h.nc
Finalize(s) == IF s.cur = NoHunk THEN s ELSE [s EXCEPT !.hunks = Append(@, s.cur), !.ok = @ /\ Counted(s.cur)]
ParseLine(s, x) ==
    IF x.p = "-" /\ x.c = "dash" THEN s
    ELSE IF x.p = "@" THEN [Finalize(s) EXCEPT !.cur = x.h]
    ELSE [s EXCEPT !.cur.lines = Append(@, L(x.p, x.c, 0))]
ParsePatch(text) == Finalize(FoldLeft(ParseLine, [ok |-> TRUE, hunks |-> <<>>, cur |-> NoHunk], text))

-----------------------------------------------------------------------------
(* ApplyPatchDirect, hunk by hunk: idx is the number of lines of t used. *)
OldSide(h) == SelectSeq(h.lines, LAMBDA l : l.t # "+")
verifyContext(t, start, h) ==
    \A i \in DOMAIN OldSide(h) : start + i <= Len(t) /\ t[start + i] = OldSide(h)[i].c
(* Lines i + 1 .. j of t that exist *)
Span(t, i, j) == SubSeq(t, i + 1, Lesser(j, Len(t)))
NewSide(h) == LET ls == SelectSeq(h.lines, LAMBDA l : l.t # "-") IN [i \in DOMAIN ls |-> ls[i].c]
ApplyHunk(t, s, h) ==
    LET start == h.os - 1
        upto == IF s.idx < start THEN start ELSE s.idx
        before == s.res \o Span(t, s.idx, upto)
    IN IF verifyContext(t, start, h)
       THEN [s EXCEPT !.res = before \o NewSide(h), !.idx = upto + Len(OldSide(h))]
       ELSE [s EXCEPT !.res = before \o Span(t, upto, upto + h.oc), !.idx = Lesser(upto + h.oc, IF upto > Len(t) THEN upto ELSE Len(t)), !.rejected = TRUE]
ApplyPatch(text, hs) ==
    LET s == FoldLeft(LAMBDA x, h : ApplyHunk(text.lines, x, h), [res |-> <<>>, idx |-> 0, rejected |-> FALSE], hs)
        res == s.res \o Span(text.lines, s.idx, Len(text.lines))
        nl == text.nl \/ (text.lines = <<>> /\ hs # <<>>)
    IN [text |-> Text(res, nl /\ res # <<>>), rejected |-> s.rejected]

-----------------------------------------------------------------------------
(* ThreeWayMerge *)
Change(s, e, lines) == [start |-> s, end |-> e, lines |-> lines]
Flush(s) == IF s.del = 0 /\ s.ins = <<>> THEN s
            ELSE [s EXCEPT !.out = Append(@, Change(s.at, s.at + s.del, s.ins)), !.del = 0, !.ins = <<>>]
ChangeLine(s, l) ==
    CASE l.t = "-" -> [s EXCEPT !.del = @ + 1]
      [] l.t = "+" -> [s EXCEPT !.ins = Append(@, l.c)]
      [] OTHER -> [Flush(s) EXCEPT !.at = l.old]
HunkChanges(h) == Flush(FoldLeft(ChangeLine, [out |-> <<>>, del |-> 0, ins |-> <<>>, at |-> h.os - 1], h.lines)).out
diffToChanges(hs) == FlattenSeq([i \in DOMAIN hs |-> HunkChanges(hs[i])])

rangesOverlap(x, y) == x.start = y.start \/ (x.start < y.end /\ x.end > y.start)
Conflicting(x, y) == rangesOverlap(x, y) /\ x.lines # y.lines
detectConflicts(os, ts) == {os[i] : i \in {j \in DOMAIN os : \E k \in DOMAIN ts : Conflicting(os[j], ts[k])}}

(* mergeChanges: sorted by start by exchanges, then the first of each start *)
ExchangeSort(s) ==
    LET n == Len(s)
        Swap(q, i, j) == IF q[i].start > q[j].start THEN [q EXCEPT ![i] = q[j], ![j] = q[i]] ELSE q
        pairs == FlattenSeq([i \in 1 .. n |-> [j \in 1 .. n - i |-> <<i, i + j>>]])
    IN FoldLeft(LAMBDA q, p : Swap(q, p[1], p[2]), s, pairs)
mergeChanges(os, ts) ==
    FoldLeft(LAMBDA acc, c : IF \E i \in DOMAIN acc : acc[i].start = c.start THEN acc ELSE Append(acc, c), <<>>, ExchangeSort(os \o ts))

applyBothChanges(base, os, ts) ==
    LET s == FoldLeft(LAMBDA x, c : [res |-> x.res \o Span(base, x.idx, c.start) \o c.lines,
                                     idx |-> IF x.idx < c.end THEN c.end ELSE IF x.idx < c.start THEN c.start ELSE x.idx],
                      [res |-> <<>>, idx |-> 0], mergeChanges(os, ts))
    IN s.res \o Span(base, s.idx, Len(base))

At(cs, start) == IF \E i \in DOMAIN cs : cs[i].start = start
                 THEN cs[CHOOSE i \in DOMAIN cs : cs[i].start = start /\ \A j \in 1 .. i - 1 : cs[j].start # start].lines ELSE <<>>
mergeWithConflictMarkers(base, os, ts) ==
    LET hit(c) == \E x \in detectConflicts(os, ts) : c.start >= x.start /\ c.start < x.end
        put(c) == IF hit(c) THEN <<"ours">> \o At(os, c.start) \o <<"sep">> \o At(ts, c.start) \o <<"theirs">> ELSE c.lines
        s == FoldLeft(LAMBDA x, c : [res |-> x.res \o Span(base, x.idx, c.start) \o put(c), idx |-> c.end],
                      [res |-> <<>>, idx |-> 0], mergeChanges(os, ts))
    IN s.res \o Span(base, s.idx, Len(base))

Merged(lines, conflict) == [text |-> Text(lines, FALSE), rejected |-> conflict]
ThreeWayMerge(base, ours, theirs, os, ts) ==
    IF base = ours THEN Merged(theirs, FALSE)
    ELSE IF base = theirs \/ ours = theirs THEN Merged(ours, FALSE)
    ELSE IF detectConflicts(os, ts) # {} THEN Merged(mergeWithConflictMarkers(base, os, ts), TRUE)
    ELSE Merged(applyBothChanges(base, os, ts), FALSE)

-----------------------------------------------------------------------------
Nothing == [text |-> Text(<<>>, FALSE), rejected |-> FALSE]
Texts(n) == {Text(s, nl) : s \in SeqOf(Line, n), nl \in BOOLEAN} \ {Text(<<>>, TRUE)}
Plain(n) == {Text(s, FALSE) : s \in SeqOf(Line \ {"dash"}, n)}

DiffSize == MaxOld + MaxNew
DiffInit ==
    /\ \/ \E o \in Texts(MaxOld), n \in Plain(MaxNew) : texts = <<o, n>>
       \/ \E o, n, m \in Plain(MaxMerge) : texts = <<o, n, m>>
    /\ trace = <<Zeros(DiffSize)>> /\ at = <<0, 0>>
    /\ script = <<>> /\ hunks = <<>> /\ changes = <<>> /\ patch = [ok |-> FALSE, hunks |-> <<>>, cur |-> NoHunk]
    /\ out = Nothing /\ phase = "rounds"

(* The script is complete: backtrack is through, or one text is empty. *)
Scripted == \/ phase = "back" /\ Len(trace) = 1
            \/ phase = "rounds" /\ (a = <<>> \/ b = <<>>)
(* myersDiff's answer with the equal lines left at the front *)
DiffWhole == IF b = <<>> THEN [i \in DOMAIN a |-> Op("-", a[i])]
         ELSE IF a = <<>> THEN [i \in DOMAIN b |-> Op("+", b[i])]
         ELSE Kept(at[1], at[1]) \o script

Diff ==
    /\ Scripted /\ Len(texts) = 2 /\ texts[1].lines \o texts[2].lines # <<>>
    /\ script' = DiffWhole /\ hunks' = buildHunks(DiffWhole)
    /\ phase' = "patch"
    /\ UNCHANGED <<texts, trace, at, changes, patch, out>>

(* ThreeWayMerge's two calls of diffToChanges *)
Changes ==
    /\ Scripted /\ Len(texts) = 3
    /\ changes' = Append(changes, diffToChanges(buildHunks(DiffWhole)))
    /\ script' = <<>> /\ trace' = <<Zeros(DiffSize)>> /\ at' = <<0, 0>>
    /\ phase' = IF Len(changes) = 0 THEN "rounds" ELSE "merge"
    /\ UNCHANGED <<texts, hunks, patch, out>>

(* GeneratePatch's text, read back *)
Parse ==
    /\ phase = "patch" /\ phase' = "apply"
    /\ patch' = ParsePatch(PatchToUnified(hunks))
    /\ UNCHANGED <<texts, trace, at, script, hunks, changes, out>>

(* The patch is applied to the text it was made from or to one that has     *)
(* lost a line, gained one or has the changes already.                      *)
Drifted == {texts[1], texts[2]} \cup {Text(Tail(a), texts[1].nl) : l \in {1} \cap DOMAIN a} \cup {Text(<<"a">> \o a, FALSE)}
Apply(t) ==
    /\ phase = "apply" /\ phase' = "applied"
    /\ patch.ok
    /\ texts' = <<t>> \o texts
    /\ out' = ApplyPatch(t, patch.hunks)
    /\ UNCHANGED <<trace, at, script, hunks, changes, patch>>

Merge ==
    /\ phase = "merge" /\ phase' = "merged"
    /\ out' = ThreeWayMerge(texts[1].lines, texts[2].lines, texts[3].lines, changes[1], changes[2])
    /\ UNCHANGED <<texts, trace, at, script, hunks, changes, patch>>

DiffNext == (\E d \in 0 .. DiffSize : Round(d) \/ Back(d)) \/ Diff \/ Changes \/ Parse \/ Merge \/ (\E t \in Drifted : Apply(t))

DiffTypeOK == phase \in {"rounds", "back", "patch", "apply", "applied", "merge", "merged"} /\ out.rejected \in BOOLEAN

-----------------------------------------------------------------------------
(* The longest common subsequence, by its definition *)
LCS(s, t) ==
    LET C[p \in Nat \X Nat] ==
            IF p[1] = 0 \/ p[2] = 0 THEN 0
            ELSE IF s[p[1]] = t[p[2]] THEN 1 + C[<<p[1] - 1, p[2] - 1>>]
            ELSE Greater(C[<<p[1] - 1, p[2]>>], C[<<p[1], p[2] - 1>>])
    IN C[<<Len(s), Len(t)>>]
Side(s, o) == LET ls == SelectSeq(s, LAMBDA e : e.op # o) IN [i \in DOMAIN ls |-> ls[i].line]

(* myersDiff's script leads from the old lines to the new ones and has as   *)
(* few insertions and deletions as any.                                     *)
ShortestScript ==
    phase = "patch" =>
        /\ Side(script, "+") = a /\ Side(script, "-") = b
        /\ Len(SelectSeq(script, LAMBDA e : e.op # "=")) = Len(a) + Len(b) - 2 * LCS(a, b)

(* A patch read back and applied to the text it was made from gives the new *)
(* lines and no conflict, in however many hunks.  A deleted line that looks *)
(* like a header makes ParsePatch refuse the patch instead.                 *)
PatchApplies ==
    /\ phase = "apply" => \/ patch.ok
                          \/ \E i \in DOMAIN script : script[i] = Op("-", "dash")
    /\ phase = "applied" /\ texts[1].lines = texts[2].lines => ~ out.rejected /\ out.text.lines = texts[3].lines

(* A patch of one hunk whose context is not found changes nothing of the    *)
(* text; where it is found, the reversed hunk undoes it.                    *)
Reversed(h) == Hunk(h.ns, h.nc, h.os, h.oc, [i \in DOMAIN h.lines |->
                   [h.lines[i] EXCEPT !.t = CASE @ = "+" -> "-" [] @ = "-" -> "+" [] OTHER -> @]])
RejectedKeeps ==
    phase = "applied" /\ Len(patch.hunks) = 1 =>
        IF out.rejected THEN out.text.lines = texts[1].lines
        ELSE /\ Len(out.text.lines) - Len(texts[1].lines) = Len(texts[3].lines) - Len(texts[2].lines)
             /\ ApplyPatch(out.text, <<Reversed(patch.hunks[1])>>).text.lines = texts[1].lines

(* Every line of base survives a merge unless a side deleted it, and every  *)
(* line a side inserted is there once, where no two changes overlap except  *)
(* equal ones; such a merge has no conflict.                                *)
Gone(cs, p) == \E c \in cs : c.start <= p /\ p < c.end
Here(cs, p) == FlattenSeq(SetToSeq({c.lines : c \in {d \in cs : d.start = p}}))
Union(cs) == FlattenSeq([q \in 1 .. Len(texts[1].lines) + 1 |->
                            Here(cs, q - 1) \o (IF Gone(cs, q - 1) THEN <<>> ELSE Span(texts[1].lines, q - 1, q))])
MergeIsUnion ==
    phase = "merged" /\ (\A x \in ToSet(changes[1]), y \in ToSet(changes[2]) : rangesOverlap(x, y) => x = y)
        => ~ out.rejected /\ out.text.lines = Union(ToSet(changes[1]) \cup ToSet(changes[2]))
=============================================================================
