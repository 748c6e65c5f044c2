--------------------------- MODULE FolderPipeline ---------------------------
(***************************************************************************)
(* The life of an archive in a watched folder: discovery, extraction,      *)
(* retry, cleanup of the source, and what the user does to it meanwhile    *)
(* (folder.go, task_control.go, task_mutation.go, task_retry.go,           *)
(* task_cleanup.go, and the worker pool of third_party/xtractr/queue.go).  *)
(*                                                                         *)
(* The main loop (Run) owns u.Map and u.folders.Folders and takes one step *)
(* at a time: a file event, an extraction callback, a pass of the cleaner, *)
(* a user action.  Workers, the delete goroutine, the scanner and the file *)
(* system run beside it and meet it in channels.                           *)
(*                                                                         *)
(* Archives are files at the root of a folder that extracts to a folder of *)
(* its own (move_back off).  Files of the CloudDrive2 cache take the other *)
(* branches of the same handlers and are not modelled here.  A save of the *)
(* processing state is a step of its handler: ProcessingStore refines it.  *)
(***************************************************************************)
EXTENDS Integers, Sequences, FiniteSets

CONSTANTS
    Archives,     \* paths of archives
    Names,        \* base names, lower case
    Name,         \* the base name of a path
    Sizes,        \* sizes a file may have
    NoSize,       \* size 0: there is no file
    Workers,      \* xtractr's processQueue goroutines
    MaxRetries,   \* max_retries; 0 retries without end
    SourceAction, \* what the configuration does to an extracted source
    Immediate,    \* paths whose folder has delete_after <= 0
    Redundant,    \* .r00 volumes beside the .rar of their name
    Volatile,     \* paths where others remove or replace files
    MaxWorld      \* bound: steps of users, other programs and crashes

ASSUME PipelineAssumption ==
    /\ Name \in [Archives -> Names]
    /\ NoSize \notin Sizes
    /\ Archives \cap (Names \X Sizes) = {} \* a path is no name|size
    /\ MaxRetries \in Nat
    /\ SourceAction \in [Archives -> {"keep", "delete", "archive"}]
    /\ Immediate \subseteq Archives
    /\ Redundant \subseteq Archives
    /\ Volatile \subseteq Archives
    /\ MaxWorld \in Nat

\* name|size, what the program takes for the identity of an archive
Identities == Names \X Sizes

\* Records are keyed by identity, or by the bare path if the file is gone.
Keys == Identities \cup Archives

Statuses == {"ABSENT", "WAITING", "QUEUED", "EXTRACTING", "EXTRACTFAILED",
             "EXTRACTED", "DELETEFAILED", "DELETED", "EXTRACTEDNOTHING"}

UpToExtracting == {"WAITING", "QUEUED", "EXTRACTING"}
Submitted == {"QUEUED", "EXTRACTING"}

Stages == {"extract", "cleanup", "delete", "cancelled"}

VARIABLES
    \* kept in files
    paused,     \* taskSystemPaused
    processed,  \* u.state.Processed: records [key, path]
    failed,     \* u.state.Failed: records [key, path, stage]
    ignored,    \* u.state.Ignored: records [name, size, path]
    source,     \* the size of the file at a path
    \* of the main loop
    map,        \* status in u.Map
    tracked,    \* status in u.folders.Folders
    retries,    \* retries in u.folders.Folders
    cancelled,  \* u.cancelled
    cleaning,   \* u.cleanupRunning
    \* channels and the goroutines at their ends
    events,     \* u.folders.Events
    queue,      \* xtractr's queue
    running,    \* jobs of the workers: [worker, path, size]
    updates,    \* u.folders.Updates: [path, done, result, size]
    deletes,    \* u.delChan: [path, key, removed]
    scanning,   \* paths scanExistingFolderArchives has still to visit
    \* what the properties look back on
    extracted,  \* <<path, size>> whose extraction was accepted
    removed,    \* <<path, size>> the program deleted or archived
    credit,     \* extractions asked for less extractions accepted, while the
                \* path was not loosed
    refused,    \* paths whose task the user ignored, or cancelled, but with a failure
                \* recorded while the file was gone
    loosed,     \* paths whose cancellation a resume, a reset or the end of an ignore
                \* rule lifted while their job was still in flight
    world       \* steps of users, other programs and crashes taken

durable == <<paused, processed, failed, ignored>>
owned == <<map, tracked, retries>>
channels == <<events, queue, running, updates, scanning>>
cleanup == <<cleaning, deletes, source, removed>>
ghosts == <<extracted, credit, refused, loosed>>
vars == <<durable, owned, cancelled, channels, cleanup, ghosts, world>>

-----------------------------------------------------------------------------
Present(a) == source[a] # NoSize

Version(a) == <<Name[a], source[a]>>

RecordKey(a) == IF Present(a) THEN Version(a) ELSE a

WasProcessed(a) == Present(a) /\ \E r \in processed : r.key = Version(a)

HasFailedVersion(a) == Present(a) /\ \E r \in failed : r.key = Version(a)

\* A failure was recorded while the file was gone.
Stray(a) == \E r \in failed : r.key = a

\* A record or a file without a size matches every size of its name.
IsIgnored(a) ==
    \E r \in ignored : /\ r.name = Name[a]
                       /\ r.size = NoSize \/ ~Present(a) \/ r.size = source[a]

\* Mutant: the failure of before stays beside the new one.
MarkFailedBeside(f, rec) == f \cup {rec}

MarkFailed(f, rec) == {r \in f : r.key # rec.key} \cup {rec}

ClearFailed(f, key) == {r \in f : r.key # key}

MarkProcessed(p, rec) == {r \in p : r.key # rec.key} \cup {rec}

DeleteProcessed(p, key) == {r \in p : r.key # key}

FolderTaskInProgress(a) ==
    \/ map[a] \in UpToExtracting \cup {"EXTRACTED"}
    \/ tracked[a] \in UpToExtracting

\* A job of the path waits, runs, or has finished and was not yet answered.
Finished(i) == updates[i].done

InFlight(a) ==
    \/ \E i \in DOMAIN queue : queue[i] = a
    \/ \E j \in running : j.path = a
    \/ \E i \in DOMAIN updates : Finished(i) /\ updates[i].path = a

Jobs(a) ==
    Cardinality({i \in DOMAIN queue : queue[i] = a})
      + Cardinality({j \in running : j.path = a})
      + Cardinality({i \in DOMAIN updates : Finished(i) /\ updates[i].path = a})

Init ==
    /\ source \in [Archives -> Sizes \cup {NoSize}]
    /\ paused = FALSE
    /\ processed = {} /\ failed = {} /\ ignored = {}
    /\ map = [a \in Archives |-> "ABSENT"]
    /\ tracked = [a \in Archives |-> "ABSENT"]
    /\ retries = [a \in Archives |-> 0]
    /\ cancelled = {} /\ cleaning = {}
    /\ events = <<>> /\ queue = <<>> /\ updates = <<>> /\ deletes = <<>>
    /\ running = {}
    /\ scanning = Archives
    /\ extracted = {} /\ removed = {}
    /\ credit = [a \in Archives |-> IF Present(a) THEN 1 ELSE 0]
    /\ refused = {} /\ loosed = {}
    /\ world = 0

-----------------------------------------------------------------------------
(***************************************************************************)
(* Discovery.                                                              *)
(***************************************************************************)
\* One file of scanExistingFolderArchives' walk, on the scanner's goroutine.
\* processEvent repeats its checks when the event arrives.
Scan(a) ==
    /\ a \in scanning
    /\ scanning' = scanning \ {a}
    /\ events' = IF Present(a) /\ ~FolderTaskInProgress(a) /\ ~WasProcessed(a)
                 THEN Append(events, a) ELSE events
    /\ UNCHANGED <<durable, owned, cancelled, queue, running, updates, cleanup,
                   ghosts, world>>

\* Mutant: only the scan asks for processed archives.
UnwantedUnlessProcessed(a) ==
    \/ paused
    \/ IsIgnored(a)
    \/ a \in cancelled
    \/ FolderTaskInProgress(a)
    \/ HasFailedVersion(a)

Unwanted(a) ==
    \/ paused
    \/ IsIgnored(a)
    \/ a \in cancelled
    \/ FolderTaskInProgress(a)
    \/ WasProcessed(a)
    \/ HasFailedVersion(a)

NextEvent ==
    /\ events # <<>>
    /\ events' = Tail(events)
    /\ UNCHANGED <<durable, cancelled, queue, running, updates, scanning, cleanup,
                   ghosts, world>>

DropEvent ==
    /\ NextEvent
    /\ Unwanted(Head(events))
    /\ UNCHANGED owned

\* The file is gone: Folders forgets it, u.Map does not.
UntrackVanished ==
    /\ NextEvent
    /\ ~Unwanted(Head(events))
    /\ ~Present(Head(events))
    /\ tracked' = [tracked EXCEPT ![Head(events)] = "ABSENT"]
    /\ UNCHANGED <<map, retries>>

\* saveEvent: a path already tracked only has its clock set back.
TrackArrival ==
    /\ NextEvent
    /\ ~Unwanted(Head(events))
    /\ Present(Head(events))
    /\ LET a == Head(events) IN
       IF tracked[a] = "ABSENT"
       THEN /\ tracked' = [tracked EXCEPT ![a] = "WAITING"]
            /\ retries' = [retries EXCEPT ![a] = 0]
       ELSE UNCHANGED <<tracked, retries>>
    /\ UNCHANGED map

ProcessEvent == DropEvent \/ UntrackVanished \/ TrackArrival

-----------------------------------------------------------------------------
(***************************************************************************)
(* checkFolderStats, one folder of a pass at a time.  Delays elapse.       *)
(***************************************************************************)
Submit(a) ==
    /\ tracked' = [tracked EXCEPT ![a] = "QUEUED"]
    /\ map' = [map EXCEPT ![a] = "QUEUED"]
    /\ queue' = Append(queue, a)

\* extractTrackedItem
ExtractTracked(a) ==
    /\ ~paused
    /\ tracked[a] = "WAITING"
    /\ ~IsIgnored(a)
    /\ a \notin cancelled
    /\ IF a \in Redundant
       THEN /\ tracked' = [tracked EXCEPT ![a] = "EXTRACTEDNOTHING"]
            /\ UNCHANGED <<map, queue>>
       ELSE Submit(a)
    /\ UNCHANGED <<durable, retries, cancelled, events, running, updates, scanning,
                   cleanup, ghosts, world>>

Forget(a) ==
    /\ map' = [map EXCEPT ![a] = "ABSENT"]
    /\ tracked' = [tracked EXCEPT ![a] = "ABSENT"]
    /\ UNCHANGED retries

ForgetNothing(a) ==
    /\ ~paused
    /\ tracked[a] = "EXTRACTEDNOTHING"
    /\ Forget(a)
    /\ UNCHANGED <<durable, cancelled, channels, cleanup, ghosts, world>>

MayRetry(a) == MaxRetries = 0 \/ retries[a] < MaxRetries

\* Mutant: the retries are not counted.
RetryFailedUncounted(a) ==
    /\ ~paused
    /\ tracked[a] = "EXTRACTFAILED"
    /\ tracked' = [tracked EXCEPT ![a] = "WAITING"]
    /\ UNCHANGED <<durable, map, retries, cancelled, channels, cleanup, ghosts, world>>

RetryFailed(a) ==
    /\ ~paused
    /\ tracked[a] = "EXTRACTFAILED"
    /\ MayRetry(a)
    /\ tracked' = [tracked EXCEPT ![a] = "WAITING"]
    /\ retries' = [retries EXCEPT ![a] = @ + 1]
    /\ UNCHANGED <<durable, map, cancelled, channels, cleanup, ghosts, world>>

GiveUp(a) ==
    /\ ~paused
    /\ tracked[a] = "EXTRACTFAILED"
    /\ ~MayRetry(a)
    /\ Forget(a)
    /\ UNCHANGED <<durable, cancelled, channels, cleanup, ghosts, world>>

\* The rest of the cleanup, done: DELETED in u.Map, out of Folders.
CleanedUp(a, m) ==
    /\ map' = [m EXCEPT ![a] = "DELETED"]
    /\ tracked' = [tracked EXCEPT ![a] = "ABSENT"]

\* archiveFolderSources cannot move the file, or it is gone.
ArchiveFails(a, m, f) ==
    /\ SourceAction[a] = "archive"
    /\ tracked' = [tracked EXCEPT ![a] = IF @ = "ABSENT" THEN @ ELSE "DELETEFAILED"]
    /\ map' = [m EXCEPT ![a] = IF @ = "ABSENT" THEN @ ELSE "DELETEFAILED"]
    /\ failed' = MarkFailed(f, [key |-> RecordKey(a), path |-> a, stage |-> "cleanup"])
    /\ UNCHANGED <<cleaning, deletes, source, removed>>

Archive(a, m, f) ==
    /\ SourceAction[a] = "archive"
    /\ Present(a)
    /\ source' = [source EXCEPT ![a] = NoSize]
    /\ removed' = removed \cup {<<a, source[a]>>}
    /\ CleanedUp(a, m)
    /\ failed' = f
    /\ UNCHANGED <<cleaning, deletes>>

\* queueLocalSourceDelete: a deletion under the same key is not queued twice.
QueueDelete(a, key) ==
    IF key \in cleaning THEN UNCHANGED <<cleaning, deletes>>
    ELSE /\ cleaning' = cleaning \cup {key}
         /\ deletes' = Append(deletes, [path |-> a, key |-> key, removed |-> FALSE])

Delete(a, m, f) ==
    /\ SourceAction[a] = "delete"
    /\ QueueDelete(a, RecordKey(a))
    /\ CleanedUp(a, m)
    /\ failed' = f
    /\ UNCHANGED <<source, removed>>

Keep(a, m, f) ==
    /\ SourceAction[a] = "keep"
    /\ CleanedUp(a, m)
    /\ failed' = f
    /\ UNCHANGED <<cleaning, deletes, source, removed>>

\* deleteAfterReached, from the map m and the failures f the handler left.
DeleteAfterReached(a, m, f) ==
    ArchiveFails(a, m, f) \/ Archive(a, m, f) \/ Delete(a, m, f) \/ Keep(a, m, f)

\* Mutant: "past EXTRACTING" is tested before the failures.
ReadyToCleanUnordered(a) == tracked[a] \notin UpToExtracting \cup {"ABSENT"}

\* The cases of checkFolderStats that mean a finished extraction.  They come
\* after those that catch failures and folders with nothing to extract.
ReadyToClean(a) == tracked[a] = "EXTRACTED"

CleanFolder(a) ==
    /\ ~paused
    /\ ReadyToClean(a)
    /\ DeleteAfterReached(a, map, failed)
    /\ UNCHANGED <<paused, processed, ignored, retries, cancelled, channels, ghosts, world>>

\* checkExtractDone runs while the system is paused, too.
ExpireDeleted(a) ==
    /\ map[a] = "DELETED"
    /\ map' = [map EXCEPT ![a] = "ABSENT"]
    /\ UNCHANGED <<durable, tracked, retries, cancelled, channels, cleanup, ghosts, world>>

CheckFolder(a) ==
    \/ ExtractTracked(a)
    \/ ForgetNothing(a)
    \/ RetryFailed(a)
    \/ GiveUp(a)
    \/ CleanFolder(a)
    \/ ExpireDeleted(a)

-----------------------------------------------------------------------------
(***************************************************************************)
(* xtractr's workers.                                                      *)
(***************************************************************************)
Response(a, done, result, size) ==
    [path |-> a, done |-> done, result |-> result, size |-> size]

Idle(w) == \A j \in running : j.worker # w

TakeJob(w) ==
    /\ Idle(w)
    /\ queue # <<>>
    /\ queue' = Tail(queue)
    /\ UNCHANGED <<durable, owned, cancelled, events, scanning, cleanup, ghosts, world>>

\* extract finds the file and says so before it decompresses it.
StartJob(w) ==
    /\ TakeJob(w)
    /\ LET a == Head(queue) IN
       /\ Present(a)
       /\ running' = running \cup {[worker |-> w, path |-> a, size |-> source[a]]}
       /\ updates' = Append(updates, Response(a, FALSE, "start", source[a]))

\* ErrNoCompressedFiles
FindNothing(w) ==
    /\ TakeJob(w)
    /\ ~Present(Head(queue))
    /\ updates' = Append(updates, Response(Head(queue), TRUE, "nothing", NoSize))
    /\ UNCHANGED running

FinishJob(w, result) ==
    \E j \in running :
        /\ j.worker = w
        /\ running' = running \ {j}
        /\ updates' = Append(updates, Response(j.path, TRUE, result, j.size))
        /\ UNCHANGED <<durable, owned, cancelled, events, queue, scanning, cleanup,
                       ghosts, world>>

Work(w) ==
    \/ StartJob(w)
    \/ FindNothing(w)
    \/ \E result \in {"ok", "error"} : FinishJob(w, result)

-----------------------------------------------------------------------------
(***************************************************************************)
(* folderXtractrCallback.                                                  *)
(***************************************************************************)
Answer(resp) ==
    /\ updates # <<>>
    /\ resp = Head(updates)
    /\ updates' = Tail(updates)
    /\ UNCHANGED <<paused, ignored, retries, cancelled, events, queue, running,
                   scanning, refused, loosed, world>>

\* Nothing becomes of the answer but a change of statuses.
OnlyStatus ==
    /\ UNCHANGED <<processed, cleanup, extracted, credit>>

\* Mutant: the output is deleted and the task is not, as in the handler of the
\* download clients.
CallbackCancelledKept(resp) ==
    /\ Answer(resp)
    /\ resp.path \in cancelled
    /\ OnlyStatus /\ UNCHANGED <<failed, owned>>

\* The output is deleted and the task leaves both maps.
CallbackCancelled(resp) ==
    /\ Answer(resp)
    /\ resp.path \in cancelled
    /\ IF resp.done THEN Forget(resp.path) ELSE UNCHANGED owned
    /\ OnlyStatus /\ UNCHANGED failed

Known(a) == tracked[a] # "ABSENT" /\ map[a] # "ABSENT"

Accepted(resp) == resp.path \notin cancelled /\ Known(resp.path)

CallbackUnknown(resp) ==
    /\ Answer(resp)
    /\ resp.path \notin cancelled
    /\ ~Known(resp.path)
    /\ Forget(resp.path)
    /\ OnlyStatus /\ UNCHANGED failed

SetStatus(a, status) ==
    /\ tracked' = [tracked EXCEPT ![a] = status]
    /\ map' = [map EXCEPT ![a] = status]

CallbackStarted(resp) ==
    /\ Answer(resp)
    /\ Accepted(resp)
    /\ ~resp.done
    /\ SetStatus(resp.path, "EXTRACTING")
    /\ OnlyStatus /\ UNCHANGED failed

CallbackNothing(resp) ==
    /\ Answer(resp)
    /\ Accepted(resp)
    /\ resp.done /\ resp.result = "nothing"
    /\ SetStatus(resp.path, "EXTRACTEDNOTHING")
    /\ OnlyStatus /\ UNCHANGED failed

\* Mutant: the failure is shown and not recorded.
CallbackFailedUnrecorded(resp) ==
    /\ Answer(resp)
    /\ Accepted(resp)
    /\ resp.done /\ resp.result = "error"
    /\ SetStatus(resp.path, "EXTRACTFAILED")
    /\ OnlyStatus /\ UNCHANGED failed

CallbackFailed(resp) ==
    /\ Answer(resp)
    /\ Accepted(resp)
    /\ resp.done /\ resp.result = "error"
    /\ SetStatus(resp.path, "EXTRACTFAILED")
    /\ failed' = MarkFailed(failed, [key |-> RecordKey(resp.path), path |-> resp.path,
                                     stage |-> "extract"])
    /\ OnlyStatus

\* markProcessed reads the identity of the file that is there now, and is
\* skipped when there is none.  Cleanup without delay happens at once.
CallbackExtracted(resp) ==
    LET a == resp.path
        m == [map EXCEPT ![a] = "EXTRACTED"]
        f == IF Present(a) THEN ClearFailed(failed, Version(a)) ELSE failed
    IN  /\ Answer(resp)
        /\ Accepted(resp)
        /\ resp.done /\ resp.result = "ok"
        /\ processed' = IF Present(a)
                        THEN MarkProcessed(processed, [key |-> Version(a), path |-> a])
                        ELSE processed
        /\ IF a \in Immediate /\ SourceAction[a] # "keep"
           THEN DeleteAfterReached(a, m, f)
           ELSE /\ tracked' = [tracked EXCEPT ![a] = "EXTRACTED"]
                /\ map' = m
                /\ failed' = f
                /\ UNCHANGED cleanup
        /\ extracted' = extracted \cup {<<a, resp.size>>}
        /\ credit' = IF a \in loosed THEN credit ELSE [credit EXCEPT ![a] = @ - 1]

Callback ==
    /\ updates # <<>>
    /\ LET resp == Head(updates) IN
       \/ CallbackCancelled(resp)
       \/ CallbackUnknown(resp)
       \/ CallbackStarted(resp)
       \/ CallbackNothing(resp)
       \/ CallbackFailed(resp)
       \/ CallbackExtracted(resp)

-----------------------------------------------------------------------------
(***************************************************************************)
(* watchDeleteChannel: the files go (or stay, without permission), then    *)
(* finishLocalDelete looks whether they are gone.                          *)
(***************************************************************************)
DeleteFiles ==
    /\ deletes # <<>>
    /\ ~Head(deletes).removed
    /\ deletes' = [deletes EXCEPT ![1].removed = TRUE]
    /\ LET a == Head(deletes).path IN
       \/ /\ source' = [source EXCEPT ![a] = NoSize]
          /\ removed' = IF Present(a) THEN removed \cup {<<a, source[a]>>} ELSE removed
       \/ UNCHANGED <<source, removed>>
    /\ UNCHANGED <<durable, owned, cancelled, channels, cleaning, ghosts, world>>

FinishDelete ==
    /\ deletes # <<>>
    /\ Head(deletes).removed
    /\ deletes' = Tail(deletes)
    /\ LET d == Head(deletes) IN
       /\ cleaning' = cleaning \ {d.key}
       /\ failed' = IF Present(d.path)
                    THEN MarkFailed(failed, [key |-> d.key, path |-> d.path,
                                             stage |-> "delete"])
                    ELSE ClearFailed(failed, d.key)
    /\ UNCHANGED <<paused, processed, ignored, owned, cancelled, channels, source,
                   removed, ghosts, world>>

DeleteWorker == DeleteFiles \/ FinishDelete

-----------------------------------------------------------------------------
(***************************************************************************)
(* What users do.  Each is a request the main loop answers in one step.    *)
(***************************************************************************)
World ==
    /\ world < MaxWorld
    /\ world' = world + 1

\* Mutant: the entries of a running task go at once, too.
TakeBackAtOnce(a) ==
    /\ map[a] # "ABSENT" \/ tracked[a] # "ABSENT"
    /\ map[a] # "EXTRACTED"
    /\ cancelled' = cancelled \cup {a}
    /\ map' = [map EXCEPT ![a] = "ABSENT"]
    /\ tracked' = [tracked EXCEPT ![a] = "ABSENT"]
    /\ UNCHANGED <<retries, channels, cleanup, extracted, credit, loosed>>

\* handleTaskMutation: what a cancelled or ignored task leaves at once.  A job
\* that was submitted keeps its entries until its last answer.
TakeBack(a) ==
    /\ map[a] # "ABSENT" \/ tracked[a] # "ABSENT"
    /\ map[a] # "EXTRACTED"
    /\ cancelled' = cancelled \cup {a}
    /\ map' = [map EXCEPT ![a] = IF @ \in Submitted THEN @ ELSE "ABSENT"]
    /\ tracked' = [tracked EXCEPT ![a] = IF @ \in Submitted THEN @ ELSE "ABSENT"]
    /\ UNCHANGED <<retries, channels, cleanup, extracted, credit, loosed>>

\* A failure already recorded under the bare path keeps its key.
CancelKey(a) == IF Stray(a) THEN a ELSE RecordKey(a)

\* A record under the bare path does not keep the file from being found again.
Refuse(a) == refused' = IF Stray(a) THEN refused ELSE refused \cup {a}

\* Mutant: the cancellation lives in memory only.
UserCancelUnrecorded(a) ==
    /\ World
    /\ TakeBack(a)
    /\ Refuse(a)
    /\ UNCHANGED <<paused, processed, failed, ignored>>

UserCancel(a) ==
    /\ World
    /\ TakeBack(a)
    /\ Refuse(a)
    /\ failed' = MarkFailed(failed, [key |-> CancelKey(a), path |-> a,
                                     stage |-> "cancelled"])
    /\ UNCHANGED <<paused, processed, ignored>>

UserIgnore(a) ==
    /\ World
    /\ TakeBack(a)
    /\ refused' = refused \cup {a}
    /\ LET rec == [name |-> Name[a], size |-> source[a], path |-> a] IN
       ignored' = {r \in ignored : r.name # rec.name \/ r.size # rec.size} \cup {rec}
    /\ UNCHANGED <<paused, processed, failed>>

\* Cancellations of these paths end.
Loose(paths) == loosed' = loosed \cup {a \in cancelled \cap paths : InFlight(a)}

\* Lifting an ignore rule lifts every rule of its name, and submits nothing.
UserUnignore(rec) ==
    /\ World
    /\ rec \in ignored
    /\ ignored' = {r \in ignored : r.name # rec.name}
    /\ Loose({rec.path})
    /\ cancelled' = cancelled \ {rec.path}
    /\ refused' = {a \in refused : Name[a] # rec.name}
    /\ UNCHANGED <<paused, processed, failed, owned, channels, cleanup, extracted,
                   credit>>

\* Mutant: a retry looks for a running cleanup and not for a running task.
RetryActiveCleanup(a, key) == key \in cleaning

\* historyRetryActive
RetryActive(a, key) ==
    \/ key \in cleaning
    \/ map[a] \in UpToExtracting
    \/ tracked[a] \in UpToExtracting

\* retryHistory's last branch: the path goes to the queue of waiting folders.
Requeue(a, key) ==
    /\ Present(a)
    /\ processed' = DeleteProcessed(processed, key)
    /\ cancelled' = cancelled \ {a}
    /\ map' = [map EXCEPT ![a] = "ABSENT"]
    /\ tracked' = [tracked EXCEPT ![a] = "WAITING"]
    /\ retries' = [retries EXCEPT ![a] = 0]
    /\ credit' = [credit EXCEPT ![a] = @ + 1]
    /\ refused' = refused \ {a}
    /\ UNCHANGED <<paused, failed, ignored, channels, cleanup, extracted, loosed>>

\* retryLocalCleanup: only the cleanup runs again.
RetryCleanup(a, key) ==
    /\ SourceAction[a] = "archive"
    /\ \/ ArchiveFails(a, map, failed)
       \/ Archive(a, map, ClearFailed(failed, key))
    /\ UNCHANGED <<paused, processed, ignored, retries, cancelled, channels, ghosts>>

\* retrySourceDelete
RetryDelete(a, key) ==
    /\ SourceAction[a] = "delete"
    /\ QueueDelete(a, key)
    /\ UNCHANGED <<durable, owned, cancelled, channels, source, removed, ghosts>>

MayUserRetry(a, key) ==
    /\ ~paused
    /\ ~IsIgnored(a)
    /\ ~RetryActive(a, key)

\* Mutant: a retry does not look at the stage that failed.
UserRetryFailedAnyStage(rec) ==
    /\ World
    /\ rec \in failed
    /\ MayUserRetry(rec.path, rec.key)
    /\ Requeue(rec.path, rec.key)

UserRetryFailed(rec) ==
    /\ World
    /\ rec \in failed
    /\ MayUserRetry(rec.path, rec.key)
    /\ CASE rec.stage = "cleanup" -> RetryCleanup(rec.path, rec.key)
         [] rec.stage = "delete" -> RetryDelete(rec.path, rec.key)
         [] OTHER -> Requeue(rec.path, rec.key)

\* A record of a success is retried unless its key has failed since.
UserRetryProcessed(rec) ==
    /\ World
    /\ rec \in processed
    /\ \A r \in failed : r.key # rec.key
    /\ MayUserRetry(rec.path, rec.key)
    /\ Requeue(rec.path, rec.key)

\* stop_clear: every task of u.Map that is not EXTRACTING is cancelled.
StopClear ==
    LET cleared == {a \in Archives : map[a] \notin {"ABSENT", "EXTRACTING"}} IN
    /\ World
    /\ ~paused
    /\ paused' = TRUE
    /\ cancelled' = cancelled \cup cleared
    /\ map' = [a \in Archives |-> IF a \in cleared THEN "ABSENT" ELSE map[a]]
    /\ tracked' = [a \in Archives |-> IF a \in cleared THEN "ABSENT" ELSE tracked[a]]
    /\ UNCHANGED <<processed, failed, ignored, retries, channels, cleanup, ghosts>>

\* resume: cancellations end, and a scan starts on its own goroutine.
Resume ==
    /\ World
    /\ paused
    /\ paused' = FALSE
    /\ Loose(Archives)
    /\ cancelled' = {}
    /\ scanning' = Archives
    /\ UNCHANGED <<processed, failed, ignored, owned, events, queue, running, updates,
                   cleanup, extracted, credit, refused>>

\* reset_history: all is forgotten, and every archive may be extracted again.
ResetHistory ==
    /\ World
    /\ paused
    /\ processed' = {} /\ failed' = {} /\ ignored' = {}
    /\ Loose(Archives)
    /\ cancelled' = {}
    /\ credit' = [a \in Archives |-> credit[a] + 1]
    /\ refused' = {}
    /\ UNCHANGED <<paused, owned, channels, cleanup, extracted>>

User ==
    \/ \E a \in Archives : UserCancel(a) \/ UserIgnore(a)
    \/ \E rec \in ignored : UserUnignore(rec)
    \/ \E rec \in failed : UserRetryFailed(rec)
    \/ \E rec \in processed : UserRetryProcessed(rec)
    \/ StopClear
    \/ Resume
    \/ ResetHistory

-----------------------------------------------------------------------------
(***************************************************************************)
(* Other programs, and crashes.  The watchers report every change.         *)
(***************************************************************************)
FileChanges(a, size) ==
    /\ World
    /\ source' = [source EXCEPT ![a] = size]
    /\ events' = Append(events, a)
    /\ credit' = [credit EXCEPT ![a] = IF size = NoSize THEN @ ELSE @ + 1]
    /\ refused' = refused \ {a}
    /\ UNCHANGED <<durable, owned, cancelled, queue, running, updates, scanning,
                   cleaning, deletes, removed, extracted, loosed>>

FileArrives(a, size) == ~Present(a) /\ FileChanges(a, size)

FileVanishes(a) == a \in Volatile /\ Present(a) /\ FileChanges(a, NoSize)

FileReplaced(a, size) == a \in Volatile /\ Present(a) /\ FileChanges(a, size)

\* A second report of one change, or a write that goes on.
RepeatedEvent(a) ==
    /\ World
    /\ events' = Append(events, a)
    /\ UNCHANGED <<durable, owned, cancelled, queue, running, updates, scanning,
                   cleanup, ghosts>>

\* The process dies and starts again: the files remain.
Restart ==
    /\ World
    /\ map' = [a \in Archives |-> "ABSENT"]
    /\ tracked' = [a \in Archives |-> "ABSENT"]
    /\ retries' = [a \in Archives |-> 0]
    /\ cancelled' = {} /\ cleaning' = {} /\ running' = {} /\ loosed' = {}
    /\ events' = <<>> /\ queue' = <<>> /\ updates' = <<>> /\ deletes' = <<>>
    /\ scanning' = IF paused THEN {} ELSE Archives
    /\ UNCHANGED <<durable, source, removed, extracted, credit, refused>>

Environment ==
    \/ \E a \in Archives :
          \/ \E size \in Sizes : FileArrives(a, size) \/ FileReplaced(a, size)
          \/ FileVanishes(a)
          \/ RepeatedEvent(a)
    \/ Restart

Next ==
    \/ ProcessEvent
    \/ Callback
    \/ DeleteWorker
    \/ \E a \in Archives : Scan(a) \/ CheckFolder(a)
    \/ \E w \in Workers : Work(w)
    \/ User
    \/ Environment

Spec == Init /\ [][Next]_vars

\* The main loop's select serves every ready channel and ticker in the end,
\* and the goroutines run.
Fairness ==
    /\ WF_vars(ProcessEvent)
    /\ WF_vars(Callback)
    /\ WF_vars(DeleteWorker)
    /\ \A a \in Archives : WF_vars(Scan(a)) /\ WF_vars(CheckFolder(a))
    /\ \A w \in Workers : WF_vars(Work(w))

FairSpec == Spec /\ Fairness

-----------------------------------------------------------------------------
\* Every status, record and message is well formed; a key has one failure and
\* one success, a worker one job, a delete request its place in cleanupRunning,
\* and only waiting, submitted or failed tasks count retries up to the limit.
TypeOK ==
    /\ paused \in BOOLEAN
    /\ processed \subseteq [key : Identities, path : Archives]
    /\ \A r, q \in processed : r.key = q.key => r = q
    /\ failed \subseteq [key : Keys, path : Archives, stage : Stages]
    /\ \A r, q \in failed : r.key = q.key => r = q
    /\ ignored \subseteq [name : Names, size : Sizes \cup {NoSize}, path : Archives]
    /\ source \in [Archives -> Sizes \cup {NoSize}]
    /\ map \in [Archives -> Statuses]
    /\ tracked \in [Archives -> Statuses]
    /\ retries \in [Archives -> Nat]
    /\ cancelled \subseteq Archives
    /\ cleaning \subseteq Keys
    /\ events \in Seq(Archives)
    /\ queue \in Seq(Archives)
    /\ running \subseteq [worker : Workers, path : Archives, size : Sizes]
    /\ \A i, j \in running : i.worker = j.worker => i = j
    /\ updates \in Seq([path : Archives, done : BOOLEAN, size : Sizes \cup {NoSize},
                        result : {"start", "nothing", "ok", "error"}])
    /\ deletes \in Seq([path : Archives, key : Keys, removed : BOOLEAN])
    /\ scanning \subseteq Archives
    /\ extracted \subseteq Archives \X Sizes
    /\ removed \subseteq Archives \X Sizes
    /\ credit \in [Archives -> Int]
    /\ refused \subseteq Archives
    /\ loosed \subseteq Archives
    /\ world \in Nat

\* xtractr holds at most one job of a path, whatever events, retries and user
\* actions come in what order (folderTaskInProgress, historyRetryActive) -
\* unless its cancellation was lifted while that job was still in flight.
SingleJob == \A a \in Archives \ loosed : Jobs(a) <= 1

\* An archive is extracted at most once for every time somebody asked for it:
\* a file that arrives, a retry, a reset.  Repeated events, a restart at any
\* point and a late answer never extract it again (processEvent, wasProcessed).
DeliveredOnce == \A a \in Archives : credit[a] >= 0

\* A task shown as queued or extracting has a job that will answer: no order
\* of callbacks, cancellations, vanished files and stops leaves it hanging.
NoStuckTask ==
    \A a \in Archives : map[a] \in Submitted \/ tracked[a] \in Submitted => InFlight(a)

\* The program only deletes or archives the source at a path it has extracted
\* from, however the cleanup was reached: at once, after the delay, or by a
\* retry of a failed cleanup after a restart (deleteAfterReached,
\* retryLocalCleanup, retrySourceDelete).
SourceSafe == \A r \in removed : \E e \in extracted : e[1] = r[1]

RecordsOf(a) == {r \in failed : r.path = a} \cup {r \in processed : r.path = a}

\* README.md:61: a failed cleanup is retried on its own.  While a version has
\* a failed cleanup on record, no event and no retry puts it back in the list.
\* Left out are paths with records of other versions, which can be retried, and
\* an extraction that runs since before the record was made.
CleanupNeverReextracts ==
    [][\A a \in Archives :
          (/\ \E r \in failed : r.path = a /\ r.stage \in {"cleanup", "delete"}
           /\ \A r \in RecordsOf(a) : Present(a) /\ r.key = Version(a))
          => ~(tracked[a] \notin {"WAITING", "EXTRACTFAILED"} /\ tracked'[a] = "WAITING")]_vars

\* What the user cancelled or ignored is not extracted, also when its job was
\* running and after a restart that forgets u.cancelled: the failure or the
\* ignore rule on disk takes over.  Left out are tasks let go of (loosed) and
\* cancellations recorded under the bare path (CancelKey).
CancelHonoured ==
    [][\A a \in Archives : credit'[a] < credit[a] => a \notin refused]_vars

\* A waiting task leaves the list only because a user took it back, the system
\* stopped, its file is gone, or a restart is about to find it again; an answer
\* to an older job never takes it away (folderXtractrCallback).
NoSilentDrop ==
    [][\A a \in Archives :
          tracked[a] = "WAITING" /\ tracked'[a] = "ABSENT"
          => \/ a \in refused' \cup cancelled' \cup scanning' \cup loosed
             \/ paused'
             \/ ~Present(a)]_vars

\* An archive nothing is yet known of.
Unhandled(a) ==
    /\ Present(a)
    /\ ~WasProcessed(a)
    /\ ~HasFailedVersion(a)
    /\ ~IsIgnored(a)
    /\ a \notin cancelled
    /\ ~paused
    /\ a \notin loosed

\* An archive that a scan or an event has discovered is extracted or recorded
\* as failed in the end, unless the user stops it, whatever others do to the file
\* meanwhile.  Left out are paths tracked as holding nothing: .r00 volumes, which
\* are extracted with their .rar, and a file that arrives at a path whose earlier
\* one vanished while it was queued.  That arrival only sets the clock of the entry
\* (folder.go:719), and the pass forgets the entry (folder.go:754-760): nothing
\* looks at the file again until a scan.
EventuallyHandled ==
    \A a \in Archives :
        (Unhandled(a) /\ (a \in scanning \/ \E i \in DOMAIN events : events[i] = a))
            ~> (~Unhandled(a) \/ tracked[a] = "EXTRACTEDNOTHING")

\* With a limit on retries no task stays in the list for ever.
EventuallySettled ==
    \A a \in Archives :
        tracked[a] \in UpToExtracting \cup {"EXTRACTFAILED", "EXTRACTED"}
            ~> \/ tracked[a] \in {"ABSENT", "DELETEFAILED"}
               \/ paused
               \/ IsIgnored(a)

=============================================================================
