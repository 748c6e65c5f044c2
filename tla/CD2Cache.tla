------------------------------- MODULE CD2Cache -------------------------------
(***************************************************************************)
(* The CloudDrive2 copy cache: how an archive on the mount is copied into  *)
(* the cache directory, handed to the folder pipeline, extracted, and its  *)
(* source deleted (cd2_cache.go, and the branches of folder.go,            *)
(* task_control.go, task_mutation.go, task_retry.go and task_cleanup.go    *)
(* that concern cached archives).                                          *)
(*                                                                         *)
(* Scanners, copies, the resumer, xtractr's workers, the source deletions  *)
(* and the delete goroutine run beside the main loop.  They share the      *)
(* sync.Maps cd2Cache, cd2Copy, cd2Resume, cd2Tasks and cancelled, the     *)
(* processing state, and the directories.                                  *)
(*                                                                         *)
(* An archive group (all volumes of an archive) is one object whose size   *)
(* stands for size and time of its files.  A group that is incomplete, or  *)
(* not visible on the mount, is absent.  CD2Monitor has the events and the *)
(* volumes, FolderPipeline the local half, and ProcessingStore the saves.  *)
(***************************************************************************)
EXTENDS Naturals, Sequences, FiniteSets

CONSTANTS
    Groups,       \* keys of archive groups on the mount
    Paths,        \* paths of primary volumes at the root of the cache
    Target,       \* the cached path of a group: CacheDir and its base name
    Sizes,        \* what a version of a group is known by
    NoSize,       \* there is no such group, or its size is not known
    NoGroup,      \* a path with no entry in cd2Cache
    Copiers,      \* bound: goroutines that look at or copy a group at one time
    Jobs,         \* bound: extractions submitted at one time
    MaxRetries,   \* max_retries, positive
    DeleteSource, \* delete_source
    KeepCache,    \* keep_cache
    Volatile,     \* groups that others replace while they are handled
    Controls,     \* what the user, the disk and the mount may do
    MaxWorld      \* bound: steps of the user, the mount and crashes

ASSUME CacheAssumption ==
    /\ Target \in [Groups -> Paths]
    /\ Groups \cap Paths = {}
    /\ NoSize \notin Sizes
    /\ NoGroup \notin Groups
    /\ MaxRetries \in Nat \ {0}
    /\ DeleteSource \in BOOLEAN
    /\ KeepCache \in BOOLEAN
    /\ Volatile \subseteq Groups
    /\ Controls \subseteq {"stop_clear", "resume", "clear_cache", "pause", "clear_incomplete",
                           "cancel", "ignore", "unignore", "retry", "remove_cached", "fault", "crash"}
    /\ MaxWorld \in Nat

\* Keys of cd2Copy, cd2Tasks and the staging directories.  A copy that starts
\* from the record of a cached archive has the cached path for a key.
Keys == Groups \cup Paths
TargetOf(k) == IF k \in Groups THEN Target[k] ELSE k

\* Base name | size; the cache is flat, so a path stands for its base name.
Identities == Paths \X (Sizes \cup {NoSize})

\* What a directory holds of a group: nothing, or a version, whole or in part.
Nothing == <<>>
Contents == Groups \X Sizes \X BOOLEAN
Group(x) == x[1]
SizeOf(x) == IF x = Nothing THEN NoSize ELSE x[2]
Whole(x) == x[3]

\* Keys of pending records: "copy|" and a key, or a cached path.
PendingKeys == ({"copy"} \X Keys) \cup ({"cached"} \X Paths)

Statuses == {"ABSENT", "WAITING", "QUEUED", "EXTRACTING", "EXTRACTFAILED",
             "EXTRACTED", "EXTRACTEDNOTHING", "DELETED"}
Steps == {"looked", "locked", "copying", "promoting", "torn", "promoted",
          "recorded", "injected", "failed"}

VARIABLES
    \* kept in files
    paused,          \* taskSystemPaused
    downloadsPaused, \* downloadsPaused
    processed,       \* u.state.Processed: identities
    failed,          \* u.state.Failed: [id, stage, group, cached]
    ignored,         \* u.state.Ignored: base names
    pending,         \* u.state.Pending: [key, group, cached, size]
    source,          \* the size of a group on the mount
    staging,         \* the staging directory of a key
    cache,           \* the cache directory at a path
    \* shared maps
    cd2Cache,        \* the group a cached path was copied from
    cd2Copy,         \* keys that are being copied
    cd2Resume,       \* paths handed to the pipeline
    cd2Tasks,        \* tasks on the page: "none", "open", or "cached" with a CachedPath
    cancelled,       \* u.cancelled
    cleaning,        \* u.cleanupRunning
    \* the main loop
    map,             \* status in u.Map
    tracked,         \* status in u.folders.Folders
    retries,         \* retries in u.folders.Folders
    \* goroutines and what is on its way between them
    copy,            \* what each copier does
    events,          \* u.folders.Events
    jobs,            \* xtractr's jobs: Nothing or [path, got, started]
    reaping,         \* calls of deleteCachedSource
    purging,         \* <<path, size>> in u.delChan
    \* what the properties look back on
    extracted,       \* <<group, size>> whose extraction was accepted
    deleted,         \* <<group, size>> whose source the program deleted
    world            \* steps of the user, the mount and crashes taken

switches == <<paused, downloadsPaused>>
records == <<processed, failed, ignored>>
durable == <<switches, records, pending>>
dirs == <<source, staging, cache>>
marks == <<cancelled, cleaning>>
shared == <<cd2Cache, cd2Copy, cd2Resume, cd2Tasks>>
owned == <<map, tracked, retries>>
flights == <<copy, events, jobs, reaping, purging>>
ghosts == <<extracted, deleted>>
vars == <<durable, dirs, marks, shared, owned, flights, ghosts, world>>

-----------------------------------------------------------------------------
Present(g) == source[g] # NoSize
Version(g) == <<Target[g], source[g]>>
WasProcessed(g) == Version(g) \in processed
HasFailed(id) == \E r \in failed : r.id = id

\* A goroutine asks for its key in cancelled and its primary in the ignore list.
Refused(k) == k \in cancelled \/ TargetOf(k) \in ignored

Put(recs, rec) == {r \in recs : r.key # rec.key} \cup {rec}
Remove(recs, key) == {r \in recs : r.key # key}
MarkFailed(f, rec) == {r \in f : r.id # rec.id} \cup {rec}
ClearFailed(f, id) == {r \in f : r.id # id}

\* markProcessed: a success takes the failures of its identity away.
MarkProcessed(id) ==
    /\ processed' = processed \cup {id}
    /\ failed' = ClearFailed(failed, id)

\* pendingCD2ForPath: the records of a cached path.
PendingFor(p) == {r \in pending : r.cached /\ r.key = <<"cached", p>>}

Task(k, state) == [cd2Tasks EXCEPT ![k] = state]
\* updateCD2Transfer: an entry there is keeps its CachedPath.
Shown(k) == Task(k, IF cd2Tasks[k] = "cached" THEN "cached" ELSE "open")

\* A step of the world, and one that is possible only after another and is free.
Acts(control) ==
    /\ control \in Controls
    /\ world < MaxWorld
    /\ world' = world + 1
Undoes(control) == control \in Controls /\ UNCHANGED world

Idle == [at |-> "idle"]
Busy(c) == copy[c].at # "idle"
Key(c) == copy[c].key
From(c) == copy[c].group
At(c, step) == copy[c].at = step
Goes(c, step) == copy' = [copy EXCEPT ![c].at = step]

\* "owns" is for the properties only: no one has freed the lock of the copy.
Copying(step, k, g, resumed) ==
    [at |-> step, key |-> k, group |-> g, resumed |-> resumed, owns |-> TRUE,
     size |-> IF resumed = Nothing THEN source[g] ELSE NoSize]

Init ==
    /\ source \in [Groups -> Sizes \cup {NoSize}]
    /\ paused = FALSE
    /\ downloadsPaused \in BOOLEAN
    /\ processed = {} /\ failed = {} /\ ignored = {} /\ pending = {}
    /\ staging = [k \in Keys |-> Nothing]
    /\ cache = [p \in Paths |-> Nothing]
    /\ cd2Cache = [p \in Paths |-> NoGroup]
    /\ cd2Copy = {} /\ cd2Resume = {} /\ cancelled = {} /\ cleaning = {}
    /\ cd2Tasks = [k \in Keys |-> "none"]
    /\ map = [p \in Paths |-> "ABSENT"]
    /\ tracked = [p \in Paths |-> "ABSENT"]
    /\ retries = [p \in Paths |-> 0]
    /\ copy = [c \in Copiers |-> Idle]
    /\ reaping = {} /\ purging = {}
    /\ events = <<>>
    /\ jobs = [j \in Jobs |-> Nothing]
    /\ extracted = {} /\ deleted = {}
    /\ world = 0

-----------------------------------------------------------------------------
(***************************************************************************)
(* cacheCloudDrivePathsForRetry: a scanner looks at a group, and only then *)
(* takes its lock.  Retry delays elapse: a record of a failed copy is due  *)
(* or not.                                                                 *)
(***************************************************************************)
Candidate(g) == ~paused /\ Present(g) /\ ~Refused(g)

\* The group is done, has failed, or is cached and waits: nothing to do.
Skip(g) ==
    /\ Candidate(g)
    /\ \/ /\ WasProcessed(g) \/ HasFailed(Version(g))
          /\ cd2Tasks' = Task(g, "none")
       \/ /\ ~WasProcessed(g) /\ ~HasFailed(Version(g))
          /\ \E r \in pending :
                /\ r.group = g
                /\ cd2Tasks' = IF r.cached THEN Task(g, "cached") ELSE Shown(g)
    /\ UNCHANGED <<durable, dirs, marks, cd2Cache, cd2Copy, cd2Resume, owned, flights,
                   ghosts, world>>

\* The group is wanted.  The record of a copy that failed goes; retryKey is the
\* failure a retry may pass over.
Wanted(g, retryKey) ==
    /\ Candidate(g)
    /\ ~WasProcessed(g)
    /\ Version(g) = retryKey \/ ~HasFailed(Version(g))

Look(c, g) ==
    /\ ~Busy(c)
    /\ Wanted(g, Nothing)
    /\ \/ /\ \A r \in pending : r.group # g
          /\ UNCHANGED pending
       \/ \E r \in pending : /\ r.group = g /\ ~r.cached
                             /\ pending' = Remove(pending, r.key)
    /\ copy' = [copy EXCEPT ![c] = Copying("looked", g, g, Nothing)]
    /\ cd2Tasks' = Shown(g)
    /\ UNCHANGED <<switches, records, dirs, marks, cd2Cache, cd2Copy, cd2Resume, owned,
                   events, jobs, reaping, purging, ghosts, world>>

\* pauseCD2Task keeps the task as a record that is due at once.
CopyRecord(k, g) ==
    [key |-> <<"copy", k>>, group |-> g, cached |-> FALSE, size |-> NoSize]

\* Mutant: the lock is taken without looking whether another copy holds it.
LockUnasked(c) ==
    /\ At(c, "looked")
    /\ Goes(c, "locked")
    /\ cd2Copy' = cd2Copy \cup {Key(c)}
    /\ UNCHANGED <<durable, dirs, marks, cd2Cache, cd2Resume, cd2Tasks, owned, 
                   events, jobs, reaping, purging, ghosts, world>>

Lock(c) ==
    /\ At(c, "looked")
    /\ LET k == Key(c) IN
       \/ /\ k \in cd2Copy
          /\ copy' = [copy EXCEPT ![c] = Idle]
          /\ UNCHANGED <<pending, cd2Copy, cd2Tasks>>
       \/ /\ k \notin cd2Copy
          /\ downloadsPaused
          /\ copy' = [copy EXCEPT ![c] = Idle]
          /\ pending' = Put(pending, CopyRecord(k, From(c)))
          /\ cd2Tasks' = Shown(k)
          /\ UNCHANGED cd2Copy
       \/ /\ k \notin cd2Copy
          /\ ~downloadsPaused
          /\ Goes(c, "locked")
          /\ cd2Copy' = cd2Copy \cup {k}
          /\ cd2Tasks' = Shown(k)
          /\ UNCHANGED pending
    /\ UNCHANGED <<switches, records, dirs, marks, cd2Cache, cd2Resume, owned, 
                   events, jobs, reaping, purging, ghosts, world>>

-----------------------------------------------------------------------------
(***************************************************************************)
(* cacheCloudDriveGroup, in the goroutine of a scan or of the resumer.     *)
(***************************************************************************)
\* What a copy leaves alone in all of its steps.
CopyFrame == UNCHANGED <<switches, processed, failed, ignored, source, cancelled, cleaning,
                         owned, jobs, reaping, purging, ghosts, world>>

Resumed(c) == copy[c].resumed # Nothing

\* The goroutine is gone, and with it the lock of its key, whoever holds it.
Gone(c) ==
    copy' = [d \in Copiers |->
        IF d = c THEN Idle
        ELSE IF Busy(d) /\ Key(d) = Key(c) /\ ~At(d, "looked") /\ ~copy[c].owns
        THEN [copy[d] EXCEPT !.owns = FALSE] ELSE copy[d]]

\* Mutant: the lock of the key stays.
EndsLocked(c, t) ==
    /\ cd2Tasks' = t
    /\ Gone(c)
    /\ UNCHANGED <<cd2Copy, staging>>

\* The goroutine ends with the tasks t: its deferred calls free the lock and, if
\* the task was cancelled, remove the staging directory.
Ends(c, t) ==
    /\ cd2Tasks' = IF Key(c) \in cancelled THEN Shown(Key(c)) ELSE t
    /\ Gone(c)
    /\ cd2Copy' = cd2Copy \ {Key(c)}
    /\ staging' = IF Key(c) \in cancelled THEN [staging EXCEPT ![Key(c)] = Nothing] ELSE staging

\* The resumer's goroutine asks once more whether downloads are paused.
PauseResumed(c) ==
    /\ At(c, "locked")
    /\ Resumed(c)
    /\ downloadsPaused
    /\ pending' = Put(pending, CopyRecord(Key(c), From(c)))
    /\ cd2Tasks' = Shown(Key(c))
    /\ Gone(c)
    /\ cd2Copy' = cd2Copy \ {Key(c)}
    /\ UNCHANGED <<staging, cache, cd2Cache, cd2Resume, events>>
    /\ CopyFrame

\* The staging directory keeps what an earlier copy left there if the source
\* begins with it; what is left to copy is copied in any case.
Begin(c) ==
    /\ At(c, "locked")
    /\ ~(Resumed(c) /\ downloadsPaused)
    /\ IF Refused(Key(c)) \/ ~Present(From(c))
       THEN /\ Goes(c, "failed")
            /\ UNCHANGED <<staging, cd2Tasks>>
       ELSE /\ copy' = [copy EXCEPT ![c].at = "copying", ![c].size = source[From(c)]]
            /\ staging' = [staging EXCEPT ![Key(c)] = <<From(c), source[From(c)], FALSE>>]
            /\ cd2Tasks' = Shown(Key(c))
    /\ UNCHANGED <<pending, cache, cd2Cache, cd2Copy, cd2Resume, events>>
    /\ CopyFrame

\* copyStableFileContext and verifyCopiedGroup: the source is the one that was
\* opened, and for the last time it is asked whether the task is refused.
Copied(c) ==
    /\ At(c, "copying")
    /\ source[From(c)] = copy[c].size
    /\ ~Refused(Key(c))
    /\ Goes(c, "promoting")
    /\ staging' = [staging EXCEPT ![Key(c)] = <<From(c), copy[c].size, TRUE>>]
    /\ UNCHANGED <<pending, cache, shared, events>>
    /\ CopyFrame

\* An error of the copy or of the comparison.  A read, a write, a rename or the
\* space on the disk may fail at any time, which counts as a step of the world.
CopyFails(c) ==
    /\ \/ /\ At(c, "copying")
          /\ source[From(c)] # copy[c].size \/ Refused(Key(c))
          /\ UNCHANGED world
       \/ /\ At(c, "copying") \/ At(c, "torn")
          /\ Acts("fault")
    /\ Goes(c, "failed")
    /\ UNCHANGED <<durable, dirs, marks, shared, owned, events, jobs, reaping,
                   purging, ghosts>>

\* promoteCachedFile, volume by volume: between the first and the last one the
\* cache holds a torn group.  A volume that is not in the staging directory
\* must already be in the cache.
PromoteFirst(c) ==
    /\ At(c, "promoting")
    /\ LET p == Target[From(c)] IN
       \/ /\ staging[Key(c)] # Nothing
          /\ cache' = [cache EXCEPT ![p] = <<From(c), SizeOf(staging[Key(c)]), FALSE>>]
          /\ Goes(c, "torn")
       \/ /\ staging[Key(c)] = Nothing
          /\ Goes(c, IF cache[p] = <<From(c), source[From(c)], TRUE>>
                     THEN "promoted" ELSE "failed")
          /\ UNCHANGED cache
    /\ UNCHANGED <<pending, staging, shared, events>>
    /\ CopyFrame

PromoteLast(c) ==
    /\ At(c, "torn")
    /\ LET p == Target[From(c)] IN
       \/ /\ staging[Key(c)] # Nothing
          /\ cache' = [cache EXCEPT ![p] = <<From(c), SizeOf(staging[Key(c)]),
                                             Whole(staging[Key(c)])>>]
          /\ staging' = [staging EXCEPT ![Key(c)] = Nothing]
          /\ Goes(c, "promoted")
       \/ /\ staging[Key(c)] = Nothing
          /\ Goes(c, IF cache[p] = <<From(c), source[From(c)], TRUE>>
                     THEN "promoted" ELSE "failed")
          /\ UNCHANGED <<staging, cache>>
    /\ UNCHANGED <<pending, shared, events>>
    /\ CopyFrame

\* The version of the record is that of the source at this moment.
Record(c) ==
    /\ At(c, "promoted")
    /\ Goes(c, "recorded")
    /\ LET p == Target[From(c)] IN
       /\ cd2Cache' = [cd2Cache EXCEPT ![p] = From(c)]
       /\ pending' = Put(pending, [key |-> <<"cached", p>>, group |-> From(c),
                                   cached |-> TRUE, size |-> source[From(c)]])
    /\ cd2Tasks' = Task(Key(c), "cached")
    /\ UNCHANGED <<staging, cache, cd2Copy, cd2Resume, events>>
    /\ CopyFrame

Inject(c) ==
    /\ At(c, "recorded")
    /\ Goes(c, "injected")
    /\ cd2Resume' = cd2Resume \cup {Target[From(c)]}
    /\ events' = Append(events, Target[From(c)])
    /\ UNCHANGED <<pending, staging, cache, cd2Cache, cd2Copy, cd2Tasks>>
    /\ CopyFrame

\* The resumer removes the record it started from, whatever is under its key.
Finish(c) ==
    /\ At(c, "injected")
    /\ pending' = IF Resumed(c) THEN Remove(pending, copy[c].resumed) ELSE pending
    /\ Ends(c, cd2Tasks)
    /\ UNCHANGED <<cache, cd2Cache, cd2Resume, events>>
    /\ CopyFrame

\* A copy that failed or was paused becomes a record: unless it is refused in a
\* scanner's goroutine, or cancelled in the resumer's while downloads go on.
GivesUp(c) ==
    IF Resumed(c) THEN Key(c) \in cancelled /\ ~downloadsPaused ELSE Refused(Key(c))

Fails(c) ==
    /\ At(c, "failed")
    /\ pending' = IF GivesUp(c) THEN pending
                  ELSE Put(pending, CopyRecord(Key(c), From(c)))
    /\ Ends(c, IF GivesUp(c) \/ (Resumed(c) /\ ~downloadsPaused) THEN cd2Tasks
               ELSE Shown(Key(c)))
    /\ UNCHANGED <<cache, cd2Cache, cd2Resume, events>>
    /\ CopyFrame

CopyStep(c) ==
    \/ Lock(c) \/ PauseResumed(c) \/ Begin(c) \/ Copied(c) \/ CopyFails(c)
    \/ PromoteFirst(c) \/ PromoteLast(c) \/ Record(c) \/ Inject(c) \/ Finish(c) \/ Fails(c)

-----------------------------------------------------------------------------
(***************************************************************************)
(* resumeCD2Pending, one record at a time; its snapshot is taken as fresh. *)
(***************************************************************************)
Key2(r) == r.key[2]
CachedThere(r) == r.cached /\ cache[Key2(r)] # Nothing

\* Nothing is resumed, the task is refused, or its version has failed.
ResumeRefused(r) ==
    \/ paused \/ downloadsPaused
    \/ Key2(r) \in cancelled
    \/ Target[r.group] \in ignored
    \/ (r.cached /\ HasFailed(<<Key2(r), r.size>>))
    \/ (~r.cached /\ Present(r.group) /\ HasFailed(Version(r.group)))

ResumeCached(r) ==
    /\ r \in pending
    /\ ~ResumeRefused(r)
    /\ CachedThere(r)
    /\ Key2(r) \notin cd2Resume
    /\ cd2Resume' = cd2Resume \cup {Key2(r)}
    /\ cd2Cache' = [cd2Cache EXCEPT ![Key2(r)] = r.group]
    /\ events' = Append(events, Key2(r))
    /\ UNCHANGED <<durable, dirs, marks, cd2Copy, cd2Tasks, owned, copy, jobs, reaping,
                   purging, ghosts, world>>

\* The key of the copy is the record's without its prefix: of a cached archive
\* whose file is gone it is the cached path.
ResumeCopy(r, c) ==
    /\ r \in pending
    /\ ~ResumeRefused(r)
    /\ ~CachedThere(r)
    /\ Key2(r) \notin cd2Copy
    /\ ~Busy(c)
    /\ cd2Copy' = cd2Copy \cup {Key2(r)}
    /\ copy' = [copy EXCEPT ![c] = Copying("locked", Key2(r), r.group, r.key)]
    /\ UNCHANGED <<durable, dirs, marks, cd2Cache, cd2Resume, cd2Tasks, owned, events, jobs,
                   reaping, purging, ghosts, world>>

Resume == \E r \in pending : ResumeCached(r) \/ \E c \in Copiers : ResumeCopy(r, c)

-----------------------------------------------------------------------------
(***************************************************************************)
(* The folder pipeline, for a path of the cache.                           *)
(***************************************************************************)
LoopFrame == UNCHANGED <<switches, ignored, source, staging, cancelled, copy, world>>

FolderTaskInProgress(p) ==
    \/ map[p] \in {"QUEUED", "EXTRACTING", "EXTRACTED"}
    \/ tracked[p] \in {"WAITING", "QUEUED", "EXTRACTING"}

Unwanted(p) == paused \/ p \in ignored \/ p \in cancelled \/ FolderTaskInProgress(p)

ProcessEvent ==
    /\ events # <<>>
    /\ events' = Tail(events)
    /\ LET p == Head(events)
           new == ~Unwanted(p) /\ cache[p] # Nothing /\ tracked[p] = "ABSENT"
           gone == ~Unwanted(p) /\ cache[p] = Nothing
       IN /\ tracked' = [tracked EXCEPT ![p] = IF new THEN "WAITING"
                                              ELSE IF gone THEN "ABSENT" ELSE @]
          /\ retries' = [retries EXCEPT ![p] = IF new THEN 0 ELSE @]
    /\ UNCHANGED <<processed, failed, pending, cache, cleaning, shared, map, jobs, reaping,
                   purging, ghosts>>
    /\ LoopFrame

ExtractTracked(p, j) ==
    /\ ~paused
    /\ tracked[p] = "WAITING"
    /\ p \notin ignored /\ p \notin cancelled
    /\ jobs[j] = Nothing
    /\ tracked' = [tracked EXCEPT ![p] = "QUEUED"]
    /\ map' = [map EXCEPT ![p] = "QUEUED"]
    /\ jobs' = [jobs EXCEPT ![j] = [path |-> p, got |-> Nothing, started |-> FALSE]]
    /\ UNCHANGED <<processed, failed, pending, cache, cleaning, shared, retries, events,
                   reaping, purging, ghosts>>
    /\ LoopFrame

\* A worker reports that it begins, and opens what is in the cache.
JobStarts(j) ==
    /\ jobs[j] # Nothing
    /\ ~jobs[j].started
    /\ LET p == jobs[j].path IN
       /\ jobs' = [jobs EXCEPT ![j].got = cache[p], ![j].started = TRUE]
       /\ IF p \in cancelled THEN UNCHANGED <<map, tracked>>
          ELSE IF map[p] = "ABSENT" \/ tracked[p] = "ABSENT"
          THEN /\ map' = [map EXCEPT ![p] = "ABSENT"]
               /\ tracked' = [tracked EXCEPT ![p] = "ABSENT"]
          ELSE /\ map' = [map EXCEPT ![p] = "EXTRACTING"]
               /\ tracked' = [tracked EXCEPT ![p] = "EXTRACTING"]
    /\ UNCHANGED <<processed, failed, pending, cache, cleaning, shared, retries, events,
                   reaping, purging, ghosts>>
    /\ LoopFrame

\* folderXtractrCallback, when a job is done.
Answered(j) ==
    /\ jobs[j] # Nothing
    /\ jobs[j].started
    /\ jobs' = [jobs EXCEPT ![j] = Nothing]
    /\ UNCHANGED <<cache, cleaning, retries, events, purging, deleted>>
    /\ LoopFrame

Known(p) == p \notin cancelled /\ map[p] # "ABSENT" /\ tracked[p] # "ABSENT"

Becomes(p, status) ==
    /\ map' = [map EXCEPT ![p] = status]
    /\ tracked' = [tracked EXCEPT ![p] = status]

\* The task was cancelled, or the main loop has forgotten it.
JobDropped(j) ==
    /\ Answered(j)
    /\ ~Known(jobs[j].path)
    /\ Becomes(jobs[j].path, "ABSENT")
    /\ UNCHANGED <<processed, failed, pending, shared, reaping, extracted>>

\* Mutant: that nothing was found is taken for a success, and the source goes.
JobFindsNothingReaps(j) ==
    /\ Answered(j)
    /\ jobs[j].got = Nothing /\ cd2Cache[jobs[j].path] # NoGroup
    /\ Becomes(jobs[j].path, "EXTRACTEDNOTHING")
    /\ reaping' = reaping \cup {[at |-> "called", path |-> jobs[j].path, id |-> Nothing,
                                 group |-> cd2Cache[jobs[j].path]]}
    /\ UNCHANGED <<processed, failed, pending, shared, extracted>>

\* There was no file.
JobFindsNothing(j) ==
    /\ Answered(j)
    /\ Known(jobs[j].path)
    /\ jobs[j].got = Nothing
    /\ Becomes(jobs[j].path, "EXTRACTEDNOTHING")
    /\ UNCHANGED <<processed, failed, pending, shared, reaping, extracted>>

\* The identity a failure of the path is recorded under: that of its pending
\* record if it has one, or what the file in the cache says.
FailureOf(p, stage) ==
    LET known == {r \in PendingFor(p) : r.size # NoSize} IN
    IF known # {}
    THEN LET r == CHOOSE r \in known : TRUE IN
         [id |-> <<p, r.size>>, stage |-> stage, group |-> r.group, cached |-> TRUE]
    ELSE [id |-> <<p, SizeOf(cache[p])>>, stage |-> stage, group |-> NoGroup, cached |-> FALSE]

JobFails(j) ==
    /\ Answered(j)
    /\ Known(jobs[j].path)
    /\ jobs[j].got # Nothing
    /\ Becomes(jobs[j].path, "EXTRACTFAILED")
    /\ failed' = MarkFailed(failed, FailureOf(jobs[j].path, "extract"))
    /\ UNCHANGED <<processed, pending, shared, reaping, extracted>>

\* clearCD2TransferForCachedPath deletes one task that has the path.
TaskDone(p) ==
    LET shown == {k \in Keys : cd2Tasks[k] = "cached" /\ TargetOf(k) = p} IN
    IF shown = {} THEN UNCHANGED cd2Tasks
    ELSE \E k \in shown : cd2Tasks' = Task(k, "none")

\* What a success marks processed: the version of the pending record, or that
\* of the source the path was copied from, if it is still there.
SuccessOf(p) ==
    LET known == {r \in PendingFor(p) : r.size # NoSize}
        g == cd2Cache[p]
    IN IF known # {} THEN {<<p, r.size>> : r \in known}
       ELSE IF Present(g) THEN {Version(g)} ELSE {}

JobSucceeds(j) ==
    /\ Answered(j)
    /\ Known(jobs[j].path)
    /\ jobs[j].got # Nothing /\ Whole(jobs[j].got)
    /\ LET p == jobs[j].path IN
       /\ Becomes(p, "EXTRACTED")
       /\ extracted' = extracted \cup {<<Group(jobs[j].got), SizeOf(jobs[j].got)>>}
       /\ IF cd2Cache[p] # NoGroup
          THEN /\ IF SuccessOf(p) = {} THEN UNCHANGED <<processed, failed>>
                  ELSE \E id \in SuccessOf(p) : MarkProcessed(id)
               /\ pending' = Remove(pending, <<"cached", p>>)
               /\ cd2Resume' = cd2Resume \ {p}
               /\ TaskDone(p)
               /\ reaping' = reaping \cup {[at |-> "called", path |-> p, id |-> Nothing,
                                            group |-> cd2Cache[p]]}
          ELSE /\ IF cache[p] = Nothing THEN UNCHANGED <<processed, failed>>
                  ELSE MarkProcessed(<<p, SizeOf(cache[p])>>)
               /\ UNCHANGED <<pending, cd2Resume, cd2Tasks, reaping>>
    /\ UNCHANGED <<cd2Cache, cd2Copy>>

\* Mutant: one retry more than there are.
CheckFailedOnceMore(p) ==
    /\ tracked[p] = "EXTRACTFAILED"
    /\ retries[p] <= MaxRetries
    /\ tracked' = [tracked EXCEPT ![p] = "WAITING"]
    /\ retries' = [retries EXCEPT ![p] = @ + 1]
    /\ UNCHANGED <<processed, failed, pending, cache, cleaning, shared, map, events, jobs, reaping,
                   purging, ghosts>>
    /\ LoopFrame

\* checkFolderStats: the retry, the last failure, and nothing to extract.
CheckFailed(p) ==
    /\ ~paused
    /\ \/ /\ tracked[p] = "EXTRACTFAILED"
          /\ retries[p] < MaxRetries
          /\ tracked' = [tracked EXCEPT ![p] = "WAITING"]
          /\ retries' = [retries EXCEPT ![p] = @ + 1]
          /\ UNCHANGED map
       \/ /\ \/ tracked[p] = "EXTRACTFAILED" /\ retries[p] = MaxRetries
             \/ tracked[p] = "EXTRACTEDNOTHING"
          /\ Becomes(p, "ABSENT")
          /\ UNCHANGED retries
    /\ UNCHANGED <<processed, failed, pending, cache, cleaning, shared, events, jobs, reaping,
                   purging, ghosts>>
    /\ LoopFrame

\* deleteAfterReached, of a folder that deletes its originals unless keep_cache.
CleanFolder(p) ==
    /\ ~paused
    /\ tracked[p] = "EXTRACTED"
    /\ map' = [map EXCEPT ![p] = "DELETED"]
    /\ tracked' = [tracked EXCEPT ![p] = "ABSENT"]
    /\ purging' = IF KeepCache THEN purging ELSE purging \cup {<<p, SizeOf(cache[p])>>}
    /\ UNCHANGED <<processed, failed, pending, cache, cleaning, shared, retries, events, jobs,
                   reaping, ghosts>>
    /\ LoopFrame

\* The delete goroutine.
Purge(x) ==
    /\ x \in purging
    /\ purging' = purging \ {x}
    /\ cache' = [cache EXCEPT ![x[1]] = Nothing]
    /\ UNCHANGED <<durable, source, staging, marks, shared, owned, copy, events,
                   jobs, reaping, ghosts, world>>

Loop ==
    \/ ProcessEvent
    \/ \E p \in Paths : \/ CheckFailed(p) \/ CleanFolder(p)
                        \/ \E j \in Jobs : ExtractTracked(p, j)
    \/ \E j \in Jobs : \/ JobStarts(j) \/ JobDropped(j) \/ JobFindsNothing(j)
                       \/ JobFails(j) \/ JobSucceeds(j)

-----------------------------------------------------------------------------
(***************************************************************************)
(* deleteCachedSource.  Its goroutine takes the entry of cd2Cache when it  *)
(* runs, and not when the extraction was accepted.                         *)
(***************************************************************************)
ReapFrame == UNCHANGED <<switches, processed, ignored, pending, staging, cache, cancelled,
                         cd2Copy, cd2Resume, cd2Tasks, owned, copy, events, jobs,
                         purging, extracted, world>>

\* The entry of the path, or the group the callback passed.
Sources(r) == IF cd2Cache[r.path] # NoGroup THEN cd2Cache[r.path] ELSE r.group

\* cd2CleanupVersion: a processed record of the base name, or else the version.
CleanupIds(r) ==
    LET named == {id \in processed : id[1] = r.path} IN
    IF named # {} THEN named ELSE {Version(Sources(r))}

TakeSource(r) ==
    /\ r \in reaping
    /\ r.at = "called"
    /\ cd2Cache' = [cd2Cache EXCEPT ![r.path] = NoGroup]
    /\ IF ~DeleteSource
       THEN /\ reaping' = reaping \ {r}
            /\ UNCHANGED cleaning
       ELSE \E id \in CleanupIds(r) :
              IF id \in cleaning
              THEN /\ reaping' = reaping \ {r}
                   /\ UNCHANGED cleaning
              ELSE /\ cleaning' = cleaning \cup {id}
                   /\ reaping' = (reaping \ {r}) \cup
                        {[at |-> "deleting", path |-> r.path, id |-> id, group |-> Sources(r)]}
    /\ UNCHANGED <<failed, source, deleted>>
    /\ ReapFrame

\* deleteCD2Sources
DeletesSource(r) ==
    /\ r \in reaping
    /\ r.at = "deleting"
    /\ reaping' = reaping \ {r}
    /\ cleaning' = cleaning \ {r.id}
    /\ source' = [source EXCEPT ![r.group] = NoSize]
    /\ deleted' = IF Present(r.group) THEN deleted \cup {<<r.group, source[r.group]>>} ELSE deleted
    /\ failed' = ClearFailed(failed, r.id)
    /\ UNCHANGED <<cd2Cache>>
    /\ ReapFrame

CannotDelete(r) ==
    /\ r \in reaping
    /\ r.at = "deleting"
    /\ Present(r.group)
    /\ Acts("fault")
    /\ reaping' = reaping \ {r}
    /\ cleaning' = cleaning \ {r.id}
    /\ failed' = MarkFailed(failed, [id |-> r.id, stage |-> "cleanup", group |-> r.group,
                                     cached |-> FALSE])
    /\ UNCHANGED <<switches, processed, ignored, pending, dirs, cancelled, shared, owned, copy,
                   events, jobs, purging, ghosts>>

Reap == \E r \in reaping : TakeSource(r) \/ DeletesSource(r) \/ CannotDelete(r)

-----------------------------------------------------------------------------
(***************************************************************************)
(* The user.  Cancellation reaches copies that are copying; one that is    *)
(* past its last question goes on.                                         *)
(***************************************************************************)
Stopped(keys) ==
    [c \in Copiers |-> IF At(c, "copying") /\ Key(c) \in keys
                       THEN [copy[c] EXCEPT !.at = "failed"] ELSE copy[c]]

Extracting(p) == map[p] = "EXTRACTING"

\* stop_clear: clearWaitingTasks.  The locks of copies that run are freed, and
\* of the tasks in u.Map only those that are extracting stay.
StopClear ==
    /\ Acts("stop_clear")
    /\ paused' = TRUE /\ downloadsPaused' = TRUE
    /\ copy' = [c \in Copiers |-> IF Busy(c) /\ ~At(c, "looked")
                                  THEN [Stopped(Keys)[c] EXCEPT !.owns = FALSE] ELSE copy[c]]
    /\ LET listed == {p \in Paths : map[p] # "ABSENT" /\ ~Extracting(p)}
           shown == {k \in Keys : cd2Tasks[k] # "none"}
           kept == {r \in pending : r.cached /\ Extracting(Key2(r))}
           unlinked == {Key2(r) : r \in {s \in pending \ kept : s.cached}}
       IN /\ map' = [p \in Paths |-> IF p \in listed THEN "ABSENT" ELSE map[p]]
          /\ tracked' = [p \in Paths |-> IF p \in listed THEN "ABSENT" ELSE tracked[p]]
          /\ cancelled' = cancelled \cup listed \cup shown
          /\ cd2Copy' = cd2Copy \ shown
          /\ pending' = kept
          /\ cache' = [p \in Paths |-> IF p \in unlinked THEN Nothing ELSE cache[p]]
    /\ cd2Tasks' = [k \in Keys |-> "none"]
    /\ staging' = [k \in Keys |-> Nothing]
    /\ UNCHANGED <<records, source, cleaning, cd2Cache, cd2Resume, retries, events,
                   jobs, reaping, purging, ghosts>>

\* The scans and the resumer that resumeTaskDiscovery starts may run anyhow.
ResumeTasks ==
    /\ Undoes("resume")
    /\ paused
    /\ paused' = FALSE /\ downloadsPaused' = FALSE
    /\ cancelled' = {}
    /\ UNCHANGED <<records, pending, dirs, cleaning, shared, owned, flights, ghosts>>

ClearCache ==
    /\ Undoes("clear_cache")
    /\ paused
    /\ \A p \in Paths : ~Extracting(p)
    /\ cache' = [p \in Paths |-> Nothing]
    /\ staging' = [k \in Keys |-> Nothing]
    /\ cd2Cache' = [p \in Paths |-> NoGroup]
    /\ cd2Resume' = {}
    /\ UNCHANGED <<durable, source, marks, cd2Copy, cd2Tasks, owned, flights, ghosts>>

\* downloadsPauseAPI
PauseDownloads ==
    /\ Acts("pause")
    /\ downloadsPaused' = TRUE
    /\ copy' = Stopped(Keys)
    /\ UNCHANGED <<paused, records, pending, dirs, marks, shared, owned, events, jobs, reaping,
                   purging, ghosts>>

ResumeDownloads ==
    /\ Undoes("pause")
    /\ downloadsPaused
    /\ downloadsPaused' = FALSE
    /\ UNCHANGED <<paused, records, pending, dirs, marks, shared, owned, flights, ghosts>>

\* downloadsCleanupAPI waits until nothing is copied.
ClearIncomplete ==
    /\ Undoes("clear_incomplete")
    /\ downloadsPaused
    /\ cd2Copy = {}
    /\ LET gone == {r \in pending : ~r.cached} IN
       /\ pending' = pending \ gone
       /\ cd2Tasks' = [k \in Keys |-> IF \E r \in gone : Key2(r) = k THEN "none" ELSE cd2Tasks[k]]
    /\ staging' = [k \in Keys |-> Nothing]
    /\ UNCHANGED <<switches, records, source, cache, marks, cd2Cache, cd2Copy, cd2Resume, owned,
                   flights, ghosts>>

\* The keys of one task: its groups on the page and, once it has one, its path.
TaskKeys(k) ==
    LET p == TargetOf(k) IN
    {k} \cup {j \in Keys : TargetOf(j) = p /\ cd2Tasks[j] # "none"}
        \cup {q \in {p} : map[p] # "ABSENT" \/ \E j \in Keys : TargetOf(j) = p /\ cd2Tasks[j] = "cached"}

\* handleTaskMutation: what cancelling and ignoring have in common.
Refuse(k) ==
    LET keys == TaskKeys(k)
        p == TargetOf(k)
        hit == p \in keys
    IN /\ ~(hit /\ map[p] = "EXTRACTED")
       /\ cancelled' = cancelled \cup keys
       /\ copy' = Stopped(keys)
       /\ map' = IF hit /\ map[p] \notin {"EXTRACTING", "QUEUED"}
                 THEN [map EXCEPT ![p] = "ABSENT"] ELSE map
       /\ tracked' = IF hit /\ tracked[p] \notin {"EXTRACTING", "QUEUED"}
                     THEN [tracked EXCEPT ![p] = "ABSENT"] ELSE tracked
       /\ UNCHANGED <<switches, processed, pending, dirs, cleaning, shared, retries, 
                      events, jobs, reaping, purging, ghosts>>

OnPage(k) == cd2Tasks[k] # "none" \/ (k \in Paths /\ map[k] # "ABSENT")

CancelTask(k) ==
    /\ Acts("cancel")
    /\ OnPage(k)
    /\ Refuse(k)
    /\ LET p == TargetOf(k)
           known == {r \in PendingFor(p) : r.size # NoSize}
       IN failed' = MarkFailed(failed,
                       IF known # {} \/ k \in Paths THEN FailureOf(p, "cancelled")
                       ELSE [id |-> Version(k), stage |-> "cancelled", group |-> k,
                             cached |-> FALSE])
    /\ UNCHANGED ignored

IgnoreTask(k) ==
    /\ Acts("ignore")
    /\ OnPage(k)
    /\ Refuse(k)
    /\ ignored' = ignored \cup {TargetOf(k)}
    /\ UNCHANGED failed

Unignore(p) ==
    /\ Undoes("unignore")
    /\ p \in ignored
    /\ ignored' = ignored \ {p}
    /\ cancelled' = cancelled \ ({p} \cup {k \in Keys : TargetOf(k) = p /\ cd2Tasks[k] # "none"})
    /\ UNCHANGED <<switches, processed, failed, pending, dirs, cleaning, shared, owned, flights,
                   ghosts>>

-----------------------------------------------------------------------------
(***************************************************************************)
(* retryHistory of a failure.                                              *)
(***************************************************************************)
RetryActive(r) ==
    \/ r.id \in cleaning
    \/ r.group \in cd2Copy
    \/ map[r.id[1]] \in {"QUEUED", "EXTRACTING"}
    \/ tracked[r.id[1]] \in {"WAITING", "QUEUED", "EXTRACTING"}

Retryable(r) ==
    /\ Acts("retry")
    /\ r \in failed
    /\ ~paused
    /\ r.id[1] \notin ignored
    /\ ~RetryActive(r)

\* completeRetryCache: the files of the cache have the size of the record.
CompleteCache(r) ==
    r.cached /\ cache[r.id[1]] # Nothing /\ SizeOf(cache[r.id[1]]) = r.id[2]

\* The cached archive is extracted again.
RetryCached(r) ==
    /\ Retryable(r)
    /\ r.stage # "cleanup"
    /\ CompleteCache(r) \/ (r.group = NoGroup /\ cache[r.id[1]] # Nothing)
    /\ LET p == r.id[1] IN
       /\ processed' = processed \ {r.id}
       /\ cancelled' = cancelled \ ({p} \cup {k \in Keys : TargetOf(k) = p /\ cd2Tasks[k] = "cached"})
       /\ map' = [map EXCEPT ![p] = "ABSENT"]
       /\ tracked' = [tracked EXCEPT ![p] = "WAITING"]
       /\ retries' = [retries EXCEPT ![p] = 0]
       /\ IF r.cached
          THEN /\ cd2Cache' = [cd2Cache EXCEPT ![p] = r.group]
               /\ cd2Resume' = cd2Resume \cup {p}
               /\ pending' = IF PendingFor(p) # {} THEN pending
                             ELSE Put(pending, [key |-> <<"cached", p>>, group |-> r.group,
                                                cached |-> TRUE, size |-> r.id[2]])
          ELSE UNCHANGED <<cd2Cache, cd2Resume, pending>>
    /\ UNCHANGED <<switches, failed, ignored, dirs, cleaning, cd2Copy, cd2Tasks, flights, ghosts>>

\* The group is copied again: the main loop looks at it and locks it itself.
RetryCopy(r, c) ==
    /\ Retryable(r)
    /\ r.stage # "cleanup"
    /\ ~CompleteCache(r)
    /\ r.group # NoGroup
    /\ ~downloadsPaused
    /\ Present(r.group)
    /\ ~Busy(c)
    /\ LET g == r.group
           rest == {s \in pending : ~(\/ s.cached /\ <<Key2(s), s.size>> = r.id
                                      \/ r.cached /\ s.cached /\ Key2(s) = r.id[1])}
       IN /\ processed' = processed \ {r.id}
          /\ cancelled' = cancelled \ {g}
          /\ Version(g) \notin processed'
          /\ Version(g) = r.id \/ ~HasFailed(Version(g))
          /\ \A s \in rest : s.group = g => ~s.cached
          /\ pending' = {s \in rest : s.group # g}
          /\ cd2Copy' = cd2Copy \cup {g}
          /\ cd2Tasks' = Shown(g)
          /\ copy' = [copy EXCEPT ![c] = Copying("locked", g, g, Nothing)]
    /\ UNCHANGED <<switches, failed, ignored, dirs, cleaning, cd2Cache, cd2Resume, owned,
                   events, jobs, reaping, purging, ghosts>>

\* Mutant: what has failed is not looked at.
RetryDeleteAnyStage(r) ==
    /\ Retryable(r)
    /\ r.group # NoGroup
    /\ cleaning' = cleaning \cup {r.id}
    /\ reaping' = reaping \cup {[at |-> "deleting", path |-> r.id[1], id |-> r.id,
                                 group |-> r.group]}
    /\ UNCHANGED <<durable, dirs, cancelled, shared, owned, copy, events, jobs,
                   purging, ghosts>>

\* retrySourceDelete
RetryDelete(r) ==
    /\ Retryable(r)
    /\ r.stage = "cleanup"
    /\ DeleteSource
    /\ cleaning' = cleaning \cup {r.id}
    /\ reaping' = reaping \cup {[at |-> "deleting", path |-> r.id[1], id |-> r.id,
                                 group |-> r.group]}
    /\ UNCHANGED <<durable, dirs, cancelled, shared, owned, copy, events, jobs,
                   purging, ghosts>>

User ==
    \/ StopClear \/ ResumeTasks \/ ClearCache \/ PauseDownloads \/ ResumeDownloads
    \/ ClearIncomplete
    \/ \E k \in Keys : CancelTask(k) \/ IgnoreTask(k)
    \/ \E p \in Paths : Unignore(p)
    \/ \E r \in failed : \/ RetryCached(r) \/ RetryDelete(r)
                         \/ \E c \in Copiers : RetryCopy(r, c)

-----------------------------------------------------------------------------
(***************************************************************************)
(* The mount, other programs, and restarts.                                *)
(***************************************************************************)
Arrives(g, s) ==
    /\ g \in Volatile
    /\ world < MaxWorld
    /\ source[g] # s
    /\ source' = [source EXCEPT ![g] = s]
    /\ world' = world + 1
    /\ UNCHANGED <<durable, staging, cache, marks, shared, owned, flights, ghosts>>

RemoveCached(p) ==
    /\ Acts("remove_cached")
    /\ cache[p] # Nothing
    /\ cache' = [cache EXCEPT ![p] = Nothing]
    /\ UNCHANGED <<durable, source, staging, marks, shared, owned, flights, ghosts>>

Crash ==
    /\ Acts("crash")
    /\ cancelled' = {} /\ cleaning' = {}
    /\ cd2Cache' = [p \in Paths |-> NoGroup]
    /\ cd2Copy' = {} /\ cd2Resume' = {}
    /\ cd2Tasks' = [k \in Keys |-> "none"]
    /\ map' = [p \in Paths |-> "ABSENT"]
    /\ tracked' = [p \in Paths |-> "ABSENT"]
    /\ retries' = [p \in Paths |-> 0]
    /\ copy' = [c \in Copiers |-> Idle]
    /\ reaping' = {} /\ purging' = {}
    /\ events' = <<>>
    /\ jobs' = [j \in Jobs |-> Nothing]
    /\ UNCHANGED <<durable, dirs, ghosts>>

World ==
    \/ \E g \in Groups, s \in Sizes \cup {NoSize} : Arrives(g, s)
    \/ \E p \in Paths : RemoveCached(p)
    \/ Crash

Scan == \E g \in Groups : Skip(g) \/ \E c \in Copiers : Look(c, g)

Next ==
    \/ Scan
    \/ \E c \in Copiers : CopyStep(c)
    \/ Resume
    \/ Loop
    \/ \E x \in purging : Purge(x)
    \/ Reap
    \/ User
    \/ World

Spec == Init /\ [][Next]_vars

\* Goroutines run on, the fallback scan comes round, the resumer runs every thirty
\* seconds, and the main loop passes over its lists.
FairGroup(g) == WF_vars(\E c \in Copiers : Look(c, g))
FairCopier(c) == WF_vars(CopyStep(c))
FairRecord(key) ==
    WF_vars(\E r \in pending : /\ r.key = key
                               /\ ResumeCached(r) \/ \E c \in Copiers : ResumeCopy(r, c))
FairPath(p) ==
    /\ WF_vars(CheckFailed(p))
    /\ WF_vars(CleanFolder(p))
    /\ WF_vars(\E j \in Jobs : ExtractTracked(p, j))
FairJob(j) ==
    WF_vars(JobStarts(j) \/ JobDropped(j) \/ JobFindsNothing(j) \/ JobFails(j) \/ JobSucceeds(j))

Fairness ==
    /\ \A g \in Groups : FairGroup(g)
    /\ \A c \in Copiers : FairCopier(c)
    /\ \A key \in PendingKeys : FairRecord(key)
    /\ WF_vars(ProcessEvent)
    /\ \A p \in Paths : FairPath(p)
    /\ \A j \in Jobs : FairJob(j)
    /\ WF_vars(\E x \in purging : Purge(x))
    /\ WF_vars(Reap)

FairSpec == Spec /\ Fairness

-----------------------------------------------------------------------------
TypeOK ==
    /\ paused \in BOOLEAN /\ downloadsPaused \in BOOLEAN
    /\ processed \subseteq Identities
    /\ failed \subseteq [id : Identities, stage : {"extract", "cleanup", "cancelled"},
                         group : Groups \cup {NoGroup}, cached : BOOLEAN]
    /\ ignored \subseteq Paths
    /\ pending \subseteq [key : PendingKeys, group : Groups, cached : BOOLEAN,
                          size : Sizes \cup {NoSize}]
    /\ source \in [Groups -> Sizes \cup {NoSize}]
    /\ staging \in [Keys -> Contents \cup {Nothing}]
    /\ cache \in [Paths -> Contents \cup {Nothing}]
    /\ cd2Cache \in [Paths -> Groups \cup {NoGroup}]
    /\ cd2Copy \subseteq Keys /\ cd2Resume \subseteq Paths
    /\ cd2Tasks \in [Keys -> {"none", "open", "cached"}]
    /\ cancelled \subseteq Keys
    /\ cleaning \subseteq Identities
    /\ map \in [Paths -> Statuses] /\ tracked \in [Paths -> Statuses]
    /\ retries \in [Paths -> 0 .. MaxRetries]
    /\ copy \in [Copiers -> {Idle} \cup [at : Steps, key : Keys, group : Groups,
                                         size : Sizes \cup {NoSize}, owns : BOOLEAN,
                                         resumed : PendingKeys \cup {Nothing}]]
    /\ events \in Seq(Paths)
    /\ jobs \in [Jobs -> {Nothing} \cup [path : Paths, got : Contents \cup {Nothing},
                                         started : BOOLEAN]]
    /\ reaping \subseteq [at : {"called", "deleting"}, path : Paths,
                          id : Identities \cup {Nothing}, group : Groups]
    /\ purging \subseteq Paths \X (Sizes \cup {NoSize})
    /\ extracted \subseteq Groups \X Sizes
    /\ deleted \subseteq Groups \X Sizes
    /\ world \in 0 .. MaxWorld

\* The detailed records, seen as CloudArchive sees them.  An archive stands for
\* all versions of its group, since the version of the record is read from the
\* mount once more when the copy is done (Record): of a group that is replaced
\* meanwhile, the new version counts as processed when the old one is extracted.
GroupsOf(versions) == {v[1] : v \in versions}
Done == {g \in Groups : \E s \in Sizes : <<Target[g], s>> \in processed}

Promise == INSTANCE CloudArchive
    WITH Versions <- Groups, extracted <- GroupsOf(extracted), processed <- Done,
         removed <- GroupsOf(deleted)

\* Through all copies, retries, cancellations and crashes, the cache keeps the
\* promise: only an archive that a worker has extracted whole counts as processed,
\* and only the source of such an archive is deleted.
KeepsPromise == Promise!Spec

\* Sources are deleted only after a successful extraction
\* (examples/unpackerr.conf.example, delete_source).
OnlyExtractedDeleted == deleted \subseteq extracted

\* cd2Copy holds the key of a group while a copy of it is in progress: until
\* stop_clear frees the lock, one staging directory has one copy.
OneCopier ==
    \A c, d \in Copiers :
        c # d /\ copy[c].at \in Steps \ {"looked"} /\ copy[d].at \in Steps \ {"looked"}
            => ~copy[c].owns \/ ~copy[d].owns \/ Key(c) # Key(d)

\* The archive waits in the cache, and a restart finds it by its record.
Kept(g) ==
    /\ cache[Target[g]] # Nothing
    /\ \E r \in pending : r.cached /\ r.group = g

\* While nothing is paused, an archive on the mount does not stay uncopied: it is
\* some time cached, processed, on record as failed, refused by the user, or
\* gone.  No crash, fault, pause, or lock that was left behind is the end of it.
EventuallyCached ==
    \A g \in Groups :
        []<>(\/ ~Present(g) \/ WasProcessed(g) \/ HasFailed(Version(g)) \/ Refused(g)
             \/ Kept(g) \/ paused \/ downloadsPaused)

=============================================================================
