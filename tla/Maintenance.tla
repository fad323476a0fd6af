---------------------------- MODULE Maintenance -----------------------------
(*****************************************************************************)
(* What keeps data in order behind the services: the migrations of           *)
(* schemamig, the batch copies of datapipe and the log files of              *)
(* logrotator. The parts share no state; each has its own specification.     *)
(*****************************************************************************)
EXTENDS Integers, Sequences, FiniteSets, FiniteSetsExt

(***************************************************************************)
(* schemamig: Migrators in several processes bring one database up and     *)
(* back.  A statement is executed at once or fails without effect; between *)
(* two statements of a Migrator others run, time passes, or it crashes.    *)
(***************************************************************************)

CONSTANTS
    Migrator,
    Last,               \* the registered versions are 1 .. Last
    NoDown,             \* versions without DownSQL
    LockTimeout,
    Prompt,             \* no Migrator holds the lock for longer than LockTimeout
    SchemaMaxTime, MaxCalls, SchemaMaxFaults    \* bounds; a fault is a failed statement or a crash

VARIABLES
    schemaNow,
    applied,            \* the versions in the migrations table
    effect,             \* how often UpSQL of a version was executed and not undone
    row,                \* locked_at of the row of the lock table, or NoRow
    mig,                \* per Migrator: its call, step and MigrationLock.locked
    calls, schemaFaults,
    unsure              \* versions executed but not recorded, by an error or a crash

schemaVars == <<schemaNow, applied, effect, row, mig, calls, schemaFaults, unsure>>
database == <<applied, effect, unsure>>

NoRow == -1
Version == 1 .. Last
Idle == [step |-> "idle", up |-> TRUE, target |-> 0, todo |-> {}, at |-> 0, locked |-> FALSE]

SchemaInit ==
    /\ schemaNow = 0 /\ applied = {} /\ effect = [v \in Version |-> 0] /\ row = NoRow
    /\ mig = [m \in Migrator |-> Idle] /\ calls = 0 /\ schemaFaults = 0 /\ unsure = {}

Goto(m, step) == mig' = [mig EXCEPT ![m].step = step]
Ends(m) == mig' = [mig EXCEPT ![m] = [Idle EXCEPT !.locked = mig[m].locked]]
(* a statement fails, and the call goes to step *)
Fails(m, step) ==
    /\ schemaFaults < SchemaMaxFaults /\ schemaFaults' = schemaFaults + 1
    /\ IF step = "idle" THEN Ends(m) ELSE Goto(m, step)

(* Up is UpTo(Last).  The tables are created if they do not exist *)
Call(m, up, target) ==
    /\ mig[m].step = "idle" /\ calls < MaxCalls /\ calls' = calls + 1
    /\ mig' = [mig EXCEPT ![m].step = "lock", ![m].up = up, ![m].target = target]
    /\ UNCHANGED <<schemaNow, row, schemaFaults, database>>

Cleaned == IF row # NoRow /\ row < schemaNow - LockTimeout THEN NoRow ELSE row
(* Acquire: refused at once if locked, removes an expired row, inserts one *)
Acquire(m) ==
    /\ mig[m].step = "lock"
    /\ \/ mig[m].locked /\ Ends(m) /\ UNCHANGED <<row, schemaFaults>>
       \/ /\ ~ mig[m].locked /\ row' = Cleaned /\ UNCHANGED schemaFaults
          /\ mig' = [mig EXCEPT ![m].step = "insert", ![m].at = schemaNow]
       \/ ~ mig[m].locked /\ Fails(m, "idle") /\ UNCHANGED row
    /\ UNCHANGED <<schemaNow, calls, database>>
(* locked_at is read before the row is inserted; the key is unique *)
Insert(m) ==
    /\ mig[m].step = "insert"
    /\ \/ row # NoRow /\ Ends(m) /\ UNCHANGED <<row, schemaFaults>>
       \/ /\ row = NoRow /\ row' \in mig[m].at .. schemaNow /\ UNCHANGED schemaFaults
          /\ mig' = [mig EXCEPT ![m].step = IF mig[m].up THEN "read" ELSE "current", ![m].at = row', ![m].locked = TRUE]
       \/ Fails(m, "idle") /\ UNCHANGED row
    /\ UNCHANGED <<schemaNow, calls, database>>

(* rollbackInternal: CurrentVersion *)
Current(m) ==
    /\ mig[m].step = "current"
    /\ \/ Goto(m, IF mig[m].target < Max(applied \cup {0}) THEN "read" ELSE "release") /\ UNCHANGED schemaFaults
       \/ Fails(m, "release")
    /\ UNCHANGED <<schemaNow, row, calls, database>>
Read(m) ==
    /\ mig[m].step = "read"
    /\ \/ /\ UNCHANGED schemaFaults
          /\ mig' = [mig EXCEPT ![m].step = "work",
                ![m].todo = IF mig[m].up THEN (1 .. mig[m].target) \ applied ELSE applied \ (1 .. mig[m].target)]
       \/ Fails(m, "release")
    /\ UNCHANGED <<schemaNow, row, calls, database>>

Next_(m) == IF mig[m].up THEN Min(mig[m].todo) ELSE Max(mig[m].todo)
Stops(m) == mig[m].todo # {} => ~ mig[m].up /\ Next_(m) \in NoDown
(* executor.Exec of the next UpSQL or DownSQL *)
Execute(m) ==
    /\ mig[m].step = "work"
    /\ \/ Stops(m) /\ Goto(m, "release") /\ UNCHANGED <<effect, schemaFaults>>
       \/ /\ ~ Stops(m)
          /\ \/ /\ effect' = [effect EXCEPT ![Next_(m)] = IF mig[m].up THEN @ + 1 ELSE @ - 1]
                /\ Goto(m, "record") /\ UNCHANGED schemaFaults
             \/ Fails(m, "release") /\ UNCHANGED effect
    /\ UNCHANGED <<schemaNow, row, calls, applied, unsure>>
(* recordApplied, whose key is unique, or removeApplied *)
Record(m) ==
    /\ mig[m].step = "record"
    /\ LET v == Next_(m) IN
       \/ /\ ~ (mig[m].up /\ v \in applied)
          /\ applied' = IF mig[m].up THEN applied \cup {v} ELSE applied \ {v}
          /\ mig' = [mig EXCEPT ![m].step = "work", ![m].todo = @ \ {v}] /\ UNCHANGED <<schemaFaults, unsure>>
       \/ mig[m].up /\ v \in applied /\ Goto(m, "release") /\ unsure' = unsure \cup {v} /\ UNCHANGED <<schemaFaults, applied>>
       \/ Fails(m, "release") /\ unsure' = unsure \cup {v} /\ UNCHANGED applied
    /\ UNCHANGED <<schemaNow, row, calls, effect>>

(* Release removes the row, whoever wrote it; if that fails, locked stays *)
Release(m) ==
    /\ mig[m].step = "release"
    /\ \/ row' = NoRow /\ mig' = [mig EXCEPT ![m] = Idle] /\ UNCHANGED schemaFaults
       \/ Fails(m, "idle") /\ UNCHANGED row
    /\ UNCHANGED <<schemaNow, calls, database>>

(* the process dies; another one starts in its place *)
SchemaCrash(m) ==
    /\ mig[m] # Idle /\ schemaFaults < SchemaMaxFaults /\ schemaFaults' = schemaFaults + 1
    /\ mig' = [mig EXCEPT ![m] = Idle]
    /\ unsure' = IF mig[m].step = "record" THEN unsure \cup {Next_(m)} ELSE unsure
    /\ UNCHANGED <<schemaNow, row, calls, applied, effect>>

Inside(m) == mig[m].step \in {"current", "read", "work", "record", "release"}
SchemaTick ==
    /\ schemaNow < SchemaMaxTime /\ schemaNow' = schemaNow + 1
    /\ Prompt => \A m \in Migrator : (Inside(m) \/ mig[m].step = "insert") => schemaNow' - mig[m].at <= LockTimeout
    /\ UNCHANGED <<row, mig, calls, schemaFaults, database>>

SchemaNext ==
    \/ SchemaTick
    \/ \E m \in Migrator :
        \/ \E v \in 0 .. Last : (v > 0 /\ Call(m, TRUE, v)) \/ Call(m, FALSE, v)
        \/ Acquire(m) \/ Insert(m) \/ Current(m) \/ Read(m) \/ Execute(m) \/ Record(m) \/ Release(m) \/ SchemaCrash(m)

SchemaTypeOK ==
    /\ applied \subseteq Version /\ unsure \subseteq Version /\ row \in {NoRow} \cup (0 .. SchemaMaxTime)
    /\ \A m \in Migrator : mig[m].todo \subseteq Version /\ mig[m].at \in 0 .. SchemaMaxTime

(* The lock table lets one Migrator work at a time, whatever crashes or      *)
(* fails, as long as none outlives its lock.                                 *)
MigrationsExclusive == Prompt => \A m, n \in Migrator : Inside(m) /\ Inside(n) => m = n

(* What the migrations table lists is what was executed and not undone, once *)
(* each, except for the version a Migrator is at and those whose record was  *)
(* lost.                                                                     *)
RecordsMatch ==
    Prompt => \A v \in Version \ unsure :
        \/ effect[v] = IF v \in applied THEN 1 ELSE 0
        \/ \E m \in Migrator : mig[m].step = "record" /\ v = Next_(m)

(* Versions are brought up in order and back in reverse: the table lists a   *)
(* prefix of them, whichever calls fail half way.                            *)
NoVersionSkipped == Prompt => applied = 1 .. Cardinality(applied)

-----------------------------------------------------------------------------
(***************************************************************************)
(* datapipe: a Pipeline copies the records of a source to a target in      *)
(* batches and keeps its cursor in a checkpoint store.  Source, target and *)
(* store are external: a call may fail, and a write that fails or is       *)
(* cancelled may have stored a part of its batch or all of it.             *)
(***************************************************************************)

CONSTANTS
    BatchSize, MaxRetryPerBatch,
    EnableCheckpoint,
    Records,                    \* the source grows from 1 to Records records
    MaxRuns, PipeMaxFaults          \* bounds; a fault is a failed call, a cancelled context or a crash

VARIABLES
    source, copies,             \* records in the source, copies of each in the target
    checkpoint,                 \* LastOffset in the store, or None
    cursor,                     \* LastOffset of p.cursor
    status,
    phase,                       \* of Run
    batch, attempt,             \* size of the batch, and retries of its write
    stopped,                    \* stopCh is closed
    goal,                       \* records in the source when Run was called
    runs, pipeFaults, stops

pipeVars == <<source, copies, checkpoint, cursor, status, phase, batch, attempt, stopped, goal, runs, pipeFaults, stops>>
outside == <<source, copies, checkpoint, goal, runs, stops>>

PipeNone == -1
PipeInit ==
    /\ source = 1 /\ copies = [r \in 1 .. Records |-> 0] /\ checkpoint = PipeNone /\ cursor = 0
    /\ status = "idle" /\ phase = "out" /\ batch = 0 /\ attempt = 0 /\ stopped = FALSE /\ goal = 0
    /\ runs = 0 /\ pipeFaults = 0 /\ stops = 0

PipeFault == pipeFaults < PipeMaxFaults /\ pipeFaults' = pipeFaults + 1
(* Run returns an error *)
Fail == PipeFault /\ phase' = "out" /\ status' = "failed"

Run ==
    /\ phase = "out" /\ status # "running" /\ runs < MaxRuns /\ runs' = runs + 1
    /\ status' = "running" /\ stopped' = FALSE /\ phase' = "init" /\ goal' = source
    /\ UNCHANGED <<source, copies, checkpoint, cursor, batch, attempt, pipeFaults, stops>>

InitCursor ==
    /\ phase = "init"
    /\ \/ /\ phase' = "loop" /\ UNCHANGED <<status, pipeFaults>>
          /\ cursor' = IF EnableCheckpoint /\ checkpoint # PipeNone THEN checkpoint ELSE 0
       \/ EnableCheckpoint /\ Fail /\ UNCHANGED cursor
    /\ UNCHANGED <<outside, batch, attempt, stopped>>

(* the top of runLoop *)
Turn ==
    /\ phase = "loop"
    /\ \/ phase' = (IF stopped THEN "end" ELSE "fetch") /\ UNCHANGED <<status, pipeFaults>>
       \/ Fail
    /\ UNCHANGED <<outside, cursor, batch, attempt, stopped>>

Fetched == IF source - cursor < BatchSize THEN source - cursor ELSE BatchSize
(* fetchNextBatch: a batch, none at the end of the source, or stopCh first *)
FetchNextBatch ==
    /\ phase = "fetch"
    /\ \/ /\ batch' = Fetched /\ attempt' = 0
          /\ phase' = (IF batch' = 0 THEN "end" ELSE "write") /\ UNCHANGED <<status, pipeFaults>>
       \/ stopped /\ phase' = "end" /\ UNCHANGED <<batch, attempt, status, pipeFaults>>
       \/ Fail /\ UNCHANGED <<batch, attempt>>
    /\ UNCHANGED <<outside, cursor, stopped>>

Stored(n) == copies' = [r \in 1 .. Records |-> IF r \in cursor + 1 .. cursor + n THEN copies[r] + 1 ELSE copies[r]]
(* a write of writeBatchWithRetry; stopCh or the context may end it while it *)
(* is under way, and its result is dropped                                   *)
Write ==
    /\ phase = "write"
    /\ \/ Stored(batch) /\ phase' = "update" /\ UNCHANGED <<attempt, status, pipeFaults>>
       \/ /\ \E n \in 0 .. batch : Stored(n)
          /\ \/ /\ PipeFault /\ attempt < MaxRetryPerBatch /\ attempt' = attempt + 1
                /\ phase' = "backoff" /\ UNCHANGED status
             \/ Fail /\ UNCHANGED attempt
             \/ stopped /\ phase' = "end" /\ UNCHANGED <<attempt, status, pipeFaults>>
    /\ UNCHANGED <<source, checkpoint, goal, runs, stops, cursor, batch, stopped>>
Backoff ==
    /\ phase = "backoff"
    /\ \/ phase' = "write" /\ UNCHANGED <<status, pipeFaults>>
       \/ stopped /\ phase' = "end" /\ UNCHANGED <<status, pipeFaults>>
       \/ Fail
    /\ UNCHANGED <<outside, cursor, batch, attempt, stopped>>

AdvancedSlip == cursor + BatchSize
Advanced == cursor + batch
(* updateCursor: the cursor in memory, then the checkpoint *)
UpdateCursor ==
    /\ phase = "update" /\ cursor' = Advanced /\ phase' = "save"
    /\ UNCHANGED <<outside, status, batch, attempt, stopped, pipeFaults>>
Save ==
    /\ phase = "save"
    /\ \/ checkpoint' = (IF EnableCheckpoint THEN cursor ELSE checkpoint) /\ phase' = "loop" /\ UNCHANGED <<status, pipeFaults>>
       \/ EnableCheckpoint /\ Fail /\ UNCHANGED checkpoint
    /\ UNCHANGED <<source, copies, goal, runs, stops, cursor, batch, attempt, stopped>>

Ended == IF stopped THEN "stopped" ELSE "completed"
End ==
    /\ phase = "end" /\ phase' = "out" /\ status' = Ended
    /\ UNCHANGED <<outside, cursor, batch, attempt, stopped, pipeFaults>>

Stop ==
    /\ ~ stopped /\ stops < MaxRuns /\ stops' = stops + 1 /\ stopped' = TRUE
    /\ UNCHANGED <<source, copies, checkpoint, goal, runs, cursor, status, phase, batch, attempt, pipeFaults>>
(* the process dies, and a new Pipeline is made with the same stores *)
PipeCrash ==
    /\ phase # "out" /\ PipeFault /\ phase' = "out" /\ status' = "idle" /\ cursor' = 0 /\ stopped' = FALSE
    /\ UNCHANGED <<outside, batch, attempt>>
Grow ==
    /\ source < Records /\ source' = source + 1
    /\ UNCHANGED <<copies, checkpoint, cursor, status, phase, batch, attempt, stopped, goal, runs, pipeFaults, stops>>

PipeNext ==
    \/ Run \/ InitCursor \/ Turn \/ FetchNextBatch \/ Write \/ Backoff \/ UpdateCursor \/ Save \/ End
    \/ Stop \/ PipeCrash \/ Grow

PipeTypeOK ==
    /\ source \in 1 .. Records /\ cursor \in 0 .. Records /\ checkpoint \in {PipeNone} \cup (0 .. Records)
    /\ batch \in 0 .. BatchSize /\ attempt \in 0 .. MaxRetryPerBatch

(* Whatever fails, stops or crashes, the checkpoint is never ahead of the    *)
(* target, and a run that reports completion leaves every record that was in *)
(* the source when it began in the target.                                   *)
NothingSkipped ==
    LET Arrived(n) == \A r \in 1 .. n : copies[r] > 0 IN
    /\ Arrived(checkpoint)
    /\ status = "completed" => Arrived(goal)

(* With checkpoints, records arrive once, over any number of runs, unless a  *)
(* call failed or a run was stopped or cut off.                              *)
RepeatsHaveCause == EnableCheckpoint /\ pipeFaults = 0 /\ stops = 0 => \A r \in 1 .. Records : copies[r] <= 1

-----------------------------------------------------------------------------
(***************************************************************************)
(* logrotator, for one log file.  A line is its number; a file is its      *)
(* lines, the time of its last change and a stamp that orders the files.   *)
(* The file system is external: a rename, an open or a copy may fail.      *)
(***************************************************************************)

CONSTANTS
    RotationMode,               \* "size" or "time"
    MaxFileSize,                \* in lines
    Compress, MaxBackups,
    TTL,                        \* 0: backups do not expire
    Busy,                       \* the log file never grows as old as TTL
    MaxLines, MaxName, LogMaxTime, \* bounds
    LogMaxFaults                   \* failed calls and crashes

VARIABLES
    logNow, lines,                 \* the clock, and the lines written so far
    file, date,                 \* the log file on disk, and date of its fileWriter
    orphan,                     \* the log file was removed while the fileWriter has it open
    broken,                     \* the fileWriter is closed
    plain, gz,                  \* backups by name: an index or a date
    comp,                       \* compressing goroutines: name, step, lines read, files listed
    removed,                    \* lines of files that the limits removed
    logFaults

disk == <<file, plain, gz>>
logVars == <<logNow, lines, date, orphan, broken, disk, comp, removed, logFaults>>

LogNone == [lines |-> {}, at |-> -1, stamp |-> -1]
Name == 0 .. MaxName
Exists(f) == f # LogNone
Stamps == {file.stamp} \cup {plain[n].stamp : n \in Name} \cup {gz[n].stamp : n \in Name}
New(L) == [lines |-> L, at |-> logNow, stamp |-> 1 + Max(Stamps)]

LogInit ==
    /\ logNow = 0 /\ lines = 0 /\ date = 0 /\ orphan = FALSE /\ broken = FALSE
    /\ file = [lines |-> {}, at |-> 0, stamp |-> 0]
    /\ plain = [n \in Name |-> LogNone] /\ gz = [n \in Name |-> LogNone]
    /\ comp = {} /\ removed = {} /\ logFaults = 0

LogFault == logFaults < LogMaxFaults /\ logFaults' = logFaults + 1

Free(n) == ~ Exists(plain[n]) /\ ~ Exists(gz[n])
(* rotateBySize: the first index without a backup; rotateByTime *)
BackupName ==
    IF RotationMode = "size" THEN CHOOSE n \in Name \ {0} : Free(n) /\ \A k \in 1 .. n - 1 : ~ Free(k)
    ELSE IF Exists(plain[date]) /\ Exists(gz[date]) THEN CHOOSE n \in Name : n > LogMaxTime /\ Free(n) ELSE date

Oldest(S, f, k) == {R \in SUBSET S : Cardinality(R) = k /\ \A r \in R, s \in S \ R :
                        Exists(f[r]) /\ Exists(f[s]) => f[r].stamp < f[s].stamp}
Excess(S) == IF MaxBackups > 0 /\ Cardinality(S) > MaxBackups THEN Cardinality(S) - MaxBackups ELSE 0
Without(f, R) == [n \in Name |-> IF n \in R THEN LogNone ELSE f[n]]
LinesOf(f, R) == UNION {f[n].lines : n \in R}

(* cleanOldBackups without compression *)
CleanOldBackups(backups) ==
    LET S == {k \in Name : Exists(backups[k])} IN
    \E R \in Oldest(S, backups, Excess(S)) : plain' = Without(backups, R) /\ removed' = removed \cup LinesOf(backups, R)
(* the rename failed: the writer goes on with the file of that name *)
NotRenamed(new) ==
    /\ file' = new /\ date' = logNow /\ UNCHANGED <<broken, comp>>
    /\ IF Compress THEN UNCHANGED <<plain, removed>> ELSE CleanOldBackups(plain)
(* rotate: renames the file f, opens a new one, to which Log adds L, and       *)
(* compresses the backup or drops the oldest ones.  After a failed open the    *)
(* writer is unusable.                                                         *)
Rotate(f, L) ==
    LET moved == [plain EXCEPT ![BackupName] = f] IN
    \/ /\ file' = New(L) /\ date' = logNow /\ UNCHANGED <<broken, logFaults>>
       /\ \/ /\ Compress /\ plain' = moved /\ UNCHANGED removed
             /\ comp' = comp \cup {[name |-> BackupName, step |-> "create", lines |-> {}, listed |-> {}]}
          \/ ~ Compress /\ CleanOldBackups(moved) /\ UNCHANGED comp
    \/ LogFault /\ NotRenamed(IF L = {} THEN f ELSE New(f.lines \cup L))
    \/ LogFault /\ file' = LogNone /\ broken' = TRUE /\ plain' = moved /\ UNCHANGED <<date, comp, removed>>

NeedsTimeRotate == RotationMode = "time" /\ date # logNow
Full(f) == RotationMode = "size" /\ Cardinality(f.lines) >= MaxFileSize

(* Log: rotates if the date changed, writes, rotates if the file is full *)
Log ==
    /\ lines < MaxLines /\ ~ broken /\ ~ orphan
    /\ LET l == lines + 1 IN
       \/ NeedsTimeRotate /\ Rotate(file, {l}) /\ lines' = IF broken' THEN lines ELSE l
       \/ /\ ~ NeedsTimeRotate /\ lines' = l
          /\ LET f == New(file.lines \cup {l}) IN
             IF Full(f) THEN Rotate(f, {}) ELSE file' = f /\ UNCHANGED <<date, plain, comp, broken, removed, logFaults>>
    /\ UNCHANGED <<logNow, orphan, gz>>
(* the file was removed: its lines go nowhere, and it cannot be renamed.  Its *)
(* size is not kept: any line may fill it                                     *)
LogOrphan ==
    /\ lines < MaxLines /\ ~ broken /\ orphan /\ lines' = lines + 1
    /\ \/ NeedsTimeRotate /\ NotRenamed(New({lines'})) /\ orphan' = FALSE
       \/ RotationMode = "size" /\ NotRenamed(New({})) /\ orphan' = FALSE
       \/ ~ NeedsTimeRotate /\ UNCHANGED <<file, orphan, date, broken, plain, comp, removed>>
    /\ UNCHANGED <<logNow, gz, logFaults>>

(* compressAndRemove *)
CreateGz(c) ==
    /\ c.step = "create"
    /\ IF Exists(plain[c.name])
       THEN gz' = [gz EXCEPT ![c.name] = New({})] /\ comp' = (comp \ {c}) \cup {[c EXCEPT !.step = "copy", !.lines = plain[c.name].lines]}
       ELSE comp' = comp \ {c} /\ UNCHANGED gz
    /\ UNCHANGED <<logNow, lines, date, orphan, broken, file, plain, removed, logFaults>>
Copy(c) ==
    /\ c.step = "copy"
    /\ \/ /\ gz' = [gz EXCEPT ![c.name] = IF Exists(gz[c.name]) THEN New(c.lines) ELSE LogNone]
          /\ comp' = (comp \ {c}) \cup {[c EXCEPT !.step = "remove"]} /\ UNCHANGED logFaults
       \/ LogFault /\ gz' = [gz EXCEPT ![c.name] = LogNone] /\ comp' = comp \ {c}
    /\ UNCHANGED <<logNow, lines, date, orphan, broken, file, plain, removed>>
RemoveSource(c) ==
    /\ c.step = "remove" /\ Exists(plain[c.name])
    /\ plain' = Without(plain, {c.name})
    /\ comp' = (comp \ {c}) \cup {[c EXCEPT !.step = "list"]}
    /\ UNCHANGED <<logNow, lines, date, orphan, broken, file, gz, removed, logFaults>>
(* os.Remove fails when the cleaner was first: no cleanOldBackups *)
SourceGone(c) ==
    /\ c.step = "remove" /\ ~ Exists(plain[c.name]) /\ comp' = comp \ {c}
    /\ UNCHANGED <<logNow, lines, date, orphan, broken, disk, removed, logFaults>>
(* cleanOldBackups of the goroutine: reads the directory, then removes *)
List(c) ==
    /\ c.step = "list" /\ comp' = (comp \ {c}) \cup {[c EXCEPT !.step = "prune", !.listed = {n \in Name : Exists(gz[n])}]}
    /\ UNCHANGED <<logNow, lines, date, orphan, broken, disk, removed, logFaults>>
Prune(c) ==
    /\ c.step = "prune" /\ comp' = comp \ {c}
    /\ \E R \in Oldest(c.listed, gz, Excess(c.listed)) :
        /\ gz' = Without(gz, R)
        /\ removed' = removed \cup LinesOf(gz, R) \cup UNION {d.lines : d \in {e \in comp : e.name \in R}}
    /\ UNCHANGED <<logNow, lines, date, orphan, broken, file, plain, logFaults>>

Expired(f) == Exists(f) /\ f.at < logNow - TTL
(* cleanExpired: every file whose name begins like the log file's, itself included *)
CleanExpired ==
    /\ TTL > 0
    /\ plain' = Without(plain, {n \in Name : Expired(plain[n])}) /\ gz' = Without(gz, {n \in Name : Expired(gz[n])})
    /\ removed' = removed \cup LinesOf(plain, {n \in Name : Expired(plain[n])}) \cup LinesOf(gz, {n \in Name : Expired(gz[n])})
                  \cup (IF Expired(file) THEN file.lines ELSE {})
    /\ orphan' = (orphan \/ (Expired(file) /\ ~ broken)) /\ file' = IF Expired(file) THEN LogNone ELSE file
    /\ UNCHANGED <<logNow, lines, date, broken, comp, logFaults>>

(* Close stops the cleaner and waits for the goroutines; the process may also *)
(* die.  Then New opens the file again                                        *)
Reopen ==
    /\ file' = (IF Exists(file) THEN file ELSE New({})) /\ date' = logNow /\ orphan' = FALSE /\ broken' = FALSE
    /\ UNCHANGED <<logNow, lines, plain, gz, removed>>
Restart == Reopen /\ comp = {} /\ UNCHANGED <<comp, logFaults>>
LogCrash == Reopen /\ LogFault /\ comp' = {}

LogTick ==
    /\ logNow < LogMaxTime /\ logNow' = logNow + 1
    /\ Busy /\ TTL > 0 => file.at >= logNow' - TTL
    /\ UNCHANGED <<lines, date, orphan, broken, disk, comp, removed, logFaults>>

LogNext ==
    \/ Log \/ LogOrphan \/ CleanExpired \/ Restart \/ LogCrash \/ LogTick
    \/ \E c \in comp : CreateGz(c) \/ Copy(c) \/ RemoveSource(c) \/ SourceGone(c) \/ List(c) \/ Prune(c)

LogTypeOK ==
    /\ logNow \in 0 .. LogMaxTime /\ lines \in 0 .. MaxLines /\ removed \subseteq 1 .. MaxLines
    /\ \A c \in comp : c.name \in Name /\ c.listed \subseteq Name

OnDisk == file.lines \cup LinesOf(plain, Name) \cup LinesOf(gz, Name)
(* Every line that was logged is in a file, or was in one that the limits on *)
(* number and age removed, while backups are compressed and dropped, calls   *)
(* fail and the process dies at any moment.                                  *)
LinesKept == 1 .. lines \subseteq OnDisk \cup removed

(* Without compression, what the limits removed is older than what they left.*)
NewestKept == ~ Compress => \A old \in OnDisk \ removed, gone \in removed : gone < old

(* When no compression is under way, was cut off or failed, there are at     *)
(* most MaxBackups backups, if they do not expire as well.                   *)
BackupsBounded == comp = {} /\ logFaults = 0 /\ MaxBackups > 0 /\ TTL = 0 =>
    Cardinality({n \in Name : Exists(plain[n])}) + Cardinality({n \in Name : Exists(gz[n])}) <= MaxBackups
=============================================================================
