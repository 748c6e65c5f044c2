------------------------------ MODULE Offline115 ------------------------------
(***************************************************************************)
(* Offline downloads by 115's servers (115_offline.go, 115_txt_watch.go).  *)
(*                                                                         *)
(* Links come from a text file in a watched folder, or from a page.  An    *)
(* import hands those that are not on record to 115 in chunks, and only    *)
(* then saves them as a batch.  The monitor asks 115 for its list of tasks *)
(* and copies what it says to the batches that are due; the user may retry *)
(* a failed task meanwhile, and clear records.  When an archive has been   *)
(* downloaded, the folder of the day is listed and its archives go to the  *)
(* cloud extraction (Cloud115).                                            *)
(*                                                                         *)
(* Every import of a day uses the same folder.  Imports read the record of *)
(* all batches under offlineImportMu, so that a link has one record.       *)
(***************************************************************************)
EXTENDS Naturals, FiniteSets

CONSTANTS
    Links,        \* links to files
    Archives,     \* those whose file is an archive
    Sized,        \* those that tell the size of their file (ed2k)
    TxtLinks,     \* the links of the text file
    MaxBatches,   \* bound: batches, by the order of their IDs
    Chunk,        \* links handed to 115 at a time (10 in the code)
    Fallback,     \* whether n115_offline_fallback is an interval, not 0
    MaxUser,      \* bound: actions of the user
    MaxFaults     \* bound: failed requests, failed writes and crashes

ASSUME OfflineAssumption ==
    /\ Archives \subseteq Links /\ Sized \subseteq Links /\ TxtLinks \subseteq Links
    /\ MaxBatches \in Nat
    /\ Chunk \in Nat \ {0}
    /\ Fallback \in BOOLEAN
    /\ MaxUser \in Nat /\ MaxFaults \in Nat

VARIABLES
    remote,       \* 115: what it knows of each link
    beyond,       \* 115: links whose task is on no page of the list that is read
    visible,      \* 115: archives that the folder of the day lists
    taken,        \* 115: archives that were moved or removed from it
    memory, disk, \* offlineStore: [task, batch], and the file it is saved to
    txt,          \* where the text file is
    import,       \* the import that holds offlineImportMu
    check,        \* refresh115OfflineBatch: the list it has fetched
    retry,        \* retry115OfflineTask
    trigger,      \* trigger115OfflineExtraction, for each batch
    job,          \* archives with a goroutine of the cloud extraction: n115Running
    done,         \* archives with a record of its end: Processed, Failed
    fallback,     \* archives whose download waits or is under way: Fallback115
    ignored,      \* Ignored
    paused,       \* taskSystemPaused
    cleared,      \* for the properties: links whose record the user cleared
    lost,         \* ...: links whose record, or whose retry, a crash cut short
    unsaved,      \* ...: links of the text on record in memory alone when it was imported
    withdrawn,    \* ...: archives whose extraction the user or a crash ended, or its record
    user, faults  \* steps of the user and failures so far

cloud == <<remote, beyond, visible, taken>>
store == <<memory, disk>>
extraction == <<job, done, fallback, ignored, withdrawn>>
history == <<cleared, lost, unsaved>>
vars == <<cloud, store, txt, import, check, retry, trigger, extraction, paused, history, user, faults>>

---------------------------------------------------------------------------
(* The store.                                                              *)

Batches == 1 .. MaxBatches

NoTask == [status |-> "none"]
Statuses == {"submitted", "submit_failed", "submitting", "downloading", "unknown", "success", "failed"}
Tasks == [status : Statuses, batch : Batches, bound : BOOLEAN]   \* bound: ExtractedAt

\* due: NextCheck is set, and so will be over some time.
NoBatch == [due |-> FALSE, checks |-> 0, auto |-> FALSE]
Stores == [task  : [Links -> Tasks \cup {NoTask}],
           batch : [Batches -> [due : BOOLEAN, checks : 0 .. 2, auto : BOOLEAN]]]

OnRecord(s, l) == s.task[l] # NoTask
TasksOf(b) == {l \in Links : OnRecord(memory, l) /\ memory.task[l].batch = b}
Is(l, statuses) == memory.task[l].status \in statuses

Fault == faults < MaxFaults /\ faults' = faults + 1 /\ UNCHANGED user
Act == user < MaxUser /\ user' = user + 1 /\ UNCHANGED faults
Calm == UNCHANGED <<user, faults>>

\* save115OfflineStoreLocked after a change of the store, where its error is
\* returned or dropped.
Saves(s) == memory' = s /\ disk' = s /\ Calm
SaveFails(s) == memory' = s /\ UNCHANGED disk /\ Fault

NoImport == [at |-> "none", txt |-> FALSE, auto |-> FALSE, todo |-> {}, sent |-> [l \in Links |-> "none"]]
NoCheck == [at |-> "none"]
NoRetry == [at |-> "none"]
NoTrigger == [at |-> "none", files |-> {}]

---------------------------------------------------------------------------
Init ==
    /\ remote = [l \in Links |-> "none"] /\ beyond = {} /\ visible = {} /\ taken = {}
    /\ memory = [task |-> [l \in Links |-> NoTask], batch |-> [b \in Batches |-> NoBatch]]
    /\ disk = memory
    /\ txt = "none"
    /\ import = NoImport /\ check = NoCheck /\ retry = NoRetry
    /\ trigger = [b \in Batches |-> NoTrigger]
    /\ job = {} /\ done = {} /\ fallback = {} /\ ignored = {} /\ withdrawn = {}
    /\ cleared = {} /\ lost = {} /\ unsaved = {}
    /\ paused = FALSE
    /\ user = 0 /\ faults = 0

---------------------------------------------------------------------------
(* 115.                                                                    *)

\* What 115 makes of a link it is handed: one it has already stays as it is.
Handed(S) == [l \in Links |-> IF l \in S /\ remote[l] \in {"none", "failed"} THEN "downloading" ELSE remote[l]]

\* The outcomes of n115SubmitOfflineBatch: links handed over or refused, and an
\* answer that got lost.
Submits(S, ok) ==
    \/ ok /\ remote' = Handed(S) /\ Calm
    \/ ~ok /\ remote' \in {remote, Handed(S)} /\ Fault

RemoteEnds(l) ==
    /\ remote[l] = "downloading"
    /\ \/ remote' = [remote EXCEPT ![l] = "success"] /\ Calm
       \/ remote' = [remote EXCEPT ![l] = "failed"] /\ Fault
    /\ UNCHANGED <<beyond, visible, taken, store, txt, import, check, retry, trigger, extraction, paused, history>>

\* A file is listed some time after its task has ended.
Appears(l) ==
    /\ remote[l] = "success" /\ l \in Archives \ (visible \cup taken)
    /\ visible' = visible \cup {l}
    /\ Calm /\ UNCHANGED <<remote, beyond, taken, store, txt, import, check, retry, trigger, extraction, paused, history>>

\* n115OfflineStatuses reads ten pages of the account's tasks; one that others
\* have pushed off them is not seen until some of those are gone.
PushedOut(l) ==
    /\ remote[l] # "none" /\ l \notin beyond /\ Fault
    /\ beyond' = beyond \cup {l}
    /\ UNCHANGED <<remote, visible, taken, store, txt, import, check, retry, trigger, extraction, paused, history>>

ComesBack(l) ==
    /\ l \in beyond /\ beyond' = beyond \ {l}
    /\ Calm /\ UNCHANGED <<remote, visible, taken, store, txt, import, check, retry, trigger, extraction, paused,
                          history>>

---------------------------------------------------------------------------
(* Imports: import115OfflineLinks.                                         *)

TxtArrives ==
    /\ txt = "none" /\ txt' = "inbox"
    /\ Calm /\ UNCHANGED <<cloud, store, import, check, retry, trigger, extraction, paused, history>>

\* process115OfflineTXT and n115OfflineImportAPI: the links that no batch has,
\* and the folder of the day, without which the import ends here.
Import(links, isTxt, auto) ==
    /\ import = NoImport
    /\ import' = [NoImport EXCEPT !.at = "send", !.txt = isTxt, !.auto = auto,
                                  !.todo = {l \in links : ~OnRecord(memory, l)}]
    /\ unsaved' = IF isTxt THEN {l \in links : OnRecord(memory, l) /\ ~OnRecord(disk, l)} ELSE unsaved
    /\ UNCHANGED <<cloud, store, check, retry, trigger, extraction, paused, cleared, lost>>

ImportTxt == txt = "inbox" /\ ~paused /\ Import(TxtLinks, TRUE, TRUE) /\ Calm /\ UNCHANGED txt

ImportPage(links, auto) == Act /\ Import(links, FALSE, auto) /\ UNCHANGED txt

NoDateFolder ==
    /\ txt = "inbox" /\ ~paused /\ import = NoImport /\ Fault
    /\ txt' = "partial"
    /\ UNCHANGED <<cloud, store, import, check, retry, trigger, extraction, paused, history>>

\* Mutant: a chunk that fails ends the import.
ImportSendsOrEnds ==
    /\ import.at = "send" /\ import.todo # {}
    /\ \E S \in SUBSET import.todo, ok \in BOOLEAN :
        /\ Cardinality(S) = Chunk
        /\ Submits(S, ok)
        /\ import' = IF ok THEN [import EXCEPT !.todo = @ \ S, !.sent = [l \in Links |-> IF l \in S THEN "submitted" ELSE @[l]]]
                     ELSE IF import.txt THEN [NoImport EXCEPT !.at = "partial"] ELSE NoImport
    /\ UNCHANGED <<beyond, visible, taken, store, txt, check, retry, trigger, extraction, paused, history>>

\* One chunk.  A failure is recorded with its links, and the import goes on.
ImportSends ==
    /\ import.at = "send" /\ import.todo # {}
    /\ \E S \in SUBSET import.todo, ok \in BOOLEAN :
        /\ Cardinality(S) = Chunk \/ (S = import.todo /\ Cardinality(S) < Chunk)
        /\ Submits(S, ok)
        /\ import' = [import EXCEPT !.todo = @ \ S,
                                    !.sent = [l \in Links |-> IF l \notin S THEN @[l]
                                                              ELSE IF ok THEN "submitted" ELSE "submit_failed"]]
    /\ UNCHANGED <<beyond, visible, taken, store, txt, check, retry, trigger, extraction, paused, history>>

Sent == {l \in Links : import.sent[l] # "none"}
Fresh(b) == memory.batch[b] = NoBatch /\ \A c \in 1 .. (b - 1) : memory.batch[c] # NoBatch

\* The store with the batch of the import.
Recorded(b) ==
    [task  |-> [l \in Links |-> IF l \in Sent THEN [status |-> import.sent[l], batch |-> b, bound |-> FALSE]
                                ELSE memory.task[l]],
     batch |-> [memory.batch EXCEPT ![b] = [due |-> \E l \in Sent : import.sent[l] = "submitted",
                                            checks |-> 0, auto |-> import.auto]]]

ImportEnds(outcome) == import' = IF import.txt THEN [NoImport EXCEPT !.at = outcome] ELSE NoImport

\* A record made anew is on disk: what became of an earlier one does not matter.
Renewed == cleared' = cleared \ Sent /\ lost' = lost \ Sent /\ UNCHANGED unsaved

\* Mutant: the error of the write is dropped.
ImportSavesAnyhow ==
    /\ import.at = "send" /\ import.todo = {}
    /\ ImportEnds(IF \E l \in Sent : import.sent[l] = "submit_failed" THEN "partial" ELSE "done")
    /\ IF Sent = {} THEN Calm /\ UNCHANGED <<store, history>>
       ELSE \E b \in Batches :
               /\ Fresh(b)
               /\ \/ Saves(Recorded(b)) /\ Renewed
                  \/ SaveFails(Recorded(b)) /\ UNCHANGED history
    /\ UNCHANGED <<cloud, txt, check, retry, trigger, extraction, paused>>

\* Without a new link nothing is written.  After a write that failed the batch
\* stays in memory.
ImportSaves ==
    /\ import.at = "send" /\ import.todo = {}
    /\ IF Sent = {} THEN ImportEnds("done") /\ Calm /\ UNCHANGED <<store, history>>
       ELSE \E b \in Batches :
               /\ Fresh(b)
               /\ \/ /\ Saves(Recorded(b)) /\ Renewed
                     /\ ImportEnds(IF \E l \in Sent : import.sent[l] = "submit_failed" THEN "partial" ELSE "done")
                  \/ SaveFails(Recorded(b)) /\ ImportEnds("partial") /\ UNCHANGED history
    /\ UNCHANGED <<cloud, txt, check, retry, trigger, extraction, paused>>

\* finish115OfflineTXT, and what a failed rename leaves to the next scan.
TxtFiled ==
    /\ import.at \in {"done", "partial"}
    /\ import' = NoImport
    /\ \/ txt' = import.at /\ Calm
       \/ Fault /\ UNCHANGED txt
    /\ UNCHANGED <<cloud, store, check, retry, trigger, extraction, paused, history>>

---------------------------------------------------------------------------
(* The monitor: refresh115OfflineBatch.                                    *)

\* Mutant: tasks that have succeeded are not looked at again.
NeedsCheckUntilSuccess(b) == \E l \in TasksOf(b) : Is(l, {"submitted", "downloading", "unknown", "failed"})

NeedsCheck(b) ==
    \E l \in TasksOf(b) :
        Is(l, {"submitted", "downloading", "unknown", "failed"}) \/ (Is(l, {"success"}) /\ ~memory.task[l].bound)

\* The list of 115 is read without the lock, and may have failed.
Shown == [l \in Links |-> IF l \in beyond THEN "none" ELSE remote[l]]
Fetches(b) ==
    /\ check = NoCheck /\ TasksOf(b) # {}
    /\ \/ check' = [at |-> "apply", batch |-> b, ok |-> TRUE, list |-> Shown]
       \/ check' = [at |-> "apply", batch |-> b, ok |-> FALSE]
    /\ UNCHANGED <<cloud, store, txt, import, retry, trigger, extraction, paused, history>>

CheckDue(b) ==
    /\ ~paused /\ memory.batch[b].due /\ NeedsCheck(b)
    /\ Fetches(b)
    /\ IF check'.ok THEN Calm ELSE Fault

CheckAsked(b) == Act /\ Fetches(b) /\ check'.ok

\* The task as the list has it, whatever happened to it since.  With a file that is
\* no archive the task has ended.
Listed(l) ==
    LET task == memory.task[l]
    IN  IF ~check.ok
        THEN IF task.status \in {"submitted", "downloading"} THEN [task EXCEPT !.status = "unknown"] ELSE task
        ELSE IF check.list[l] = "none" THEN task
        ELSE [task EXCEPT !.status = check.list[l], !.bound = @ \/ (check.list[l] = "success" /\ l \notin Archives)]

\* NextCheck in three minutes, in five, and then at the fallback interval, with
\* which the checks need not be counted.
Rescheduled(batch) ==
    [batch EXCEPT !.checks = IF @ < 2 /\ ~Fallback THEN @ + 1 ELSE @,
                  !.due = batch.checks < 2 \/ Fallback]

Refreshed(b) ==
    [task  |-> [l \in Links |-> IF l \in TasksOf(b) THEN Listed(l) ELSE memory.task[l]],
     batch |-> [memory.batch EXCEPT ![b] = Rescheduled(@)]]

\* The error of the write is dropped.
Applies ==
    /\ check.at = "apply"
    /\ check' = NoCheck
    /\ LET b == check.batch
       IN  IF TasksOf(b) = {} THEN Calm /\ UNCHANGED <<store, trigger>>
           ELSE /\ Saves(Refreshed(b)) \/ SaveFails(Refreshed(b))
                /\ trigger' = IF memory.batch[b].auto /\ trigger[b] = NoTrigger
                              THEN [trigger EXCEPT ![b].at = "ask"] ELSE trigger
    /\ UNCHANGED <<cloud, txt, import, retry, extraction, paused, history>>

---------------------------------------------------------------------------
(* The user's retry: retry115OfflineTask.                                  *)

RetryStarts(l) ==
    /\ Act /\ retry = NoRetry
    /\ Is(l, {"failed", "submit_failed"})
    /\ memory' = [memory EXCEPT !.task[l].status = "submitting"]
    /\ retry' = [at |-> "send", link |-> l, batch |-> memory.task[l].batch, before |-> memory.task[l].status]
    /\ UNCHANGED <<cloud, disk, txt, import, check, trigger, extraction, paused, history>>

RetrySends ==
    /\ retry.at = "send"
    /\ \E ok \in BOOLEAN :
        /\ Submits({retry.link}, ok)
        /\ retry' = [at |-> "answer", link |-> retry.link, batch |-> retry.batch,
                     status |-> IF ok THEN "submitted" ELSE retry.before]
    /\ UNCHANGED <<beyond, visible, taken, store, txt, import, check, trigger, extraction, paused, history>>

\* Mutant: only the time of the next check is set.
RetryEndsUnset ==
    /\ retry.at = "answer"
    /\ retry' = NoRetry
    /\ LET s == [memory EXCEPT !.batch[retry.batch].due = @ \/ retry.status = "submitted"]
       IN  IF TasksOf(retry.batch) = {} THEN Calm /\ UNCHANGED store ELSE Saves(s) \/ SaveFails(s)
    /\ UNCHANGED <<cloud, txt, import, check, trigger, extraction, paused, history>>

\* The batch may have been cleared meanwhile, or only the task, and the task may
\* have been refreshed.
RetryEnds ==
    /\ retry.at = "answer"
    /\ retry' = NoRetry
    /\ LET l == retry.link
           b == retry.batch
           s == [task  |-> IF l \in TasksOf(b) THEN [memory.task EXCEPT ![l].status = retry.status] ELSE memory.task,
                 batch |-> IF retry.status = "submitted" THEN [memory.batch EXCEPT ![b].due = TRUE] ELSE memory.batch]
       IN  IF TasksOf(b) = {} THEN Calm /\ UNCHANGED store ELSE Saves(s) \/ SaveFails(s)
    /\ UNCHANGED <<cloud, txt, import, check, trigger, extraction, paused, history>>

---------------------------------------------------------------------------
(* The user clears records: n115OfflineClearAPI.  The write may fail.      *)

Without(S) == [memory EXCEPT !.task = [l \in Links |-> IF l \in S THEN NoTask ELSE memory.task[l]]]

Finished(b) == \A l \in TasksOf(b) : Is(l, {"success", "submit_failed"})

Clear(S) ==
    /\ user < MaxUser /\ user' = user + 1 /\ S # {}
    /\ memory' = Without(S)
    /\ \/ disk' = memory' /\ UNCHANGED faults
       \/ faults < MaxFaults /\ faults' = faults + 1 /\ UNCHANGED disk
    /\ cleared' = cleared \cup S
    /\ UNCHANGED <<cloud, txt, import, check, retry, trigger, extraction, paused, lost, unsaved>>

ClearTask(l) == OnRecord(memory, l) /\ Clear({l})
ClearCompleted == Clear(UNION {TasksOf(b) : b \in {c \in Batches : Finished(c)}})
ClearAll == Clear({l \in Links : OnRecord(memory, l)})

---------------------------------------------------------------------------
(* Archives go to the cloud extraction: trigger115OfflineExtraction.       *)

Ready(b) == \E l \in TasksOf(b) : Is(l, {"success"}) /\ ~memory.task[l].bound

\* The folder of the day: every archive in it, of whichever batch.
TriggerLists(b) ==
    /\ trigger[b].at = "ask"
    /\ \/ Ready(b) /\ trigger' = [trigger EXCEPT ![b] = [at |-> "files", files |-> visible]] /\ Calm
       \/ Ready(b) /\ trigger' = [trigger EXCEPT ![b] = NoTrigger] /\ Fault
       \/ ~Ready(b) /\ trigger' = [trigger EXCEPT ![b] = NoTrigger] /\ Calm
    /\ UNCHANGED <<cloud, store, txt, import, check, retry, extraction, paused, history>>

\* bind115OfflineArchive, by name and size: 115 may list the file with others than
\* the link's.  Then the questions to the records.
Bound(b, l) ==
    IF l \in TasksOf(b) \cap Sized /\ Is(l, {"success"})
    THEN [memory EXCEPT !.task[l].bound = TRUE] ELSE memory

TriggerBinds(b, l) ==
    /\ trigger[b].at = "files" /\ l \in trigger[b].files
    /\ trigger' = [trigger EXCEPT ![b] = IF l \in done \cup fallback THEN [trigger[b] EXCEPT !.files = @ \ {l}]
                                         ELSE [at |-> "queue", files |-> trigger[b].files, file |-> l]]
    /\ \/ Bound(b, l) # memory /\ (Saves(Bound(b, l)) \/ SaveFails(Bound(b, l)))
       \/ Calm /\ UNCHANGED store
    /\ UNCHANGED <<cloud, txt, import, check, retry, extraction, paused, history>>

\* A goroutine for an archive.  It will find the task system paused, or the
\* archive ignored.
Begins(l) ==
    /\ job' = job \cup {l}
    /\ withdrawn' = IF paused \/ l \in ignored THEN withdrawn \cup {l} ELSE withdrawn \ {l}

\* n115Running.LoadOrStore.
TriggerQueues(b) ==
    /\ trigger[b].at = "queue"
    /\ trigger' = [trigger EXCEPT ![b] = [at |-> "files", files |-> @.files \ {@.file}]]
    /\ IF trigger[b].file \in job THEN UNCHANGED <<job, withdrawn>> ELSE Begins(trigger[b].file)
    /\ Calm /\ UNCHANGED <<cloud, store, txt, import, check, retry, done, fallback, ignored, paused, history>>

\* HandoffChecks is saved, and with it what earlier writes left out.
TriggerEnds(b) ==
    /\ trigger[b].at = "files" /\ trigger[b].files = {}
    /\ trigger' = [trigger EXCEPT ![b] = NoTrigger]
    /\ IF TasksOf(b) = {} THEN Calm /\ UNCHANGED store ELSE Saves(memory) \/ SaveFails(memory)
    /\ UNCHANGED <<cloud, txt, import, check, retry, extraction, paused, history>>

---------------------------------------------------------------------------
(* The goroutine of an archive and the records of its end, in short         *)
(* (Cloud115), and the user's steps on them.                               *)

Aside == UNCHANGED <<remote, beyond, store, txt, import, check, retry, history>>
Stays == UNCHANGED <<visible, taken>>
Leaves(l) == visible' = visible \ {l} /\ taken' = taken \cup {l}
Recorded115(l) == done' = done \cup {l} /\ fallback' = fallback \ {l}

\* Mutant: a failed extraction is not recorded.
ExtractionEndsUnmarked(l) ==
    /\ l \in job /\ job' = job \ {l}
    /\ \/ done' = done \cup {l} /\ UNCHANGED fallback /\ (Stays \/ Leaves(l))
       \/ UNCHANGED <<done, fallback>> /\ Stays
    /\ Calm /\ Aside /\ UNCHANGED <<trigger, ignored, withdrawn, paused>>

\* It succeeds, and the source is kept or removed, or fails where it is; it is
\* moved to the failure folder and waits for its download; or it ends without a
\* record, paused, ignored, or cancelled, which has left one.
ExtractionEnds(l) ==
    /\ l \in job /\ job' = job \ {l}
    /\ \/ done' = done \cup {l} /\ UNCHANGED fallback /\ (Stays \/ Leaves(l))
       \/ fallback' = fallback \cup {l} /\ done' = done \ {l} /\ Leaves(l)
       \/ (paused \/ l \in ignored \cup done) /\ UNCHANGED <<done, fallback>> /\ Stays
    /\ Calm /\ Aside /\ UNCHANGED <<trigger, ignored, withdrawn, paused>>

\* handle115FallbackLocalSuccess.
DownloadEnds(l) ==
    /\ l \in fallback /\ ~paused /\ Recorded115(l)
    /\ Calm /\ Aside /\ Stays /\ UNCHANGED <<trigger, job, ignored, withdrawn, paused>>

\* retryPending115Cloud, which removes the record before the attempts.
RetryCloud(l) ==
    /\ Act /\ ~paused /\ l \in fallback \ job
    /\ fallback' = fallback \ {l} /\ Begins(l)
    /\ Aside /\ Stays /\ UNCHANGED <<trigger, done, ignored, paused>>

\* handleTaskMutation: a cancellation is a failure on record, to ignore an archive
\* is none.
Cancel(l) ==
    /\ Act /\ l \in job \cup fallback /\ Recorded115(l)
    /\ Aside /\ Stays /\ UNCHANGED <<trigger, job, ignored, withdrawn, paused>>

Ignore(l) ==
    /\ Act /\ l \in job \cup fallback
    /\ ignored' = ignored \cup {l} /\ fallback' = fallback \ {l}
    /\ withdrawn' = withdrawn \cup {l}
    /\ Aside /\ Stays /\ UNCHANGED <<trigger, job, done, paused>>

Unignore(l) ==
    /\ l \in ignored /\ ignored' = ignored \ {l}
    /\ Calm /\ Aside /\ Stays /\ UNCHANGED <<trigger, job, done, fallback, withdrawn, paused>>

\* stop_clear: clearWaitingTasks forgets every download that waits, and what
\* waits for the slot will end without a record.
StopClear ==
    /\ Act /\ ~paused /\ paused' = TRUE
    /\ fallback' = {}
    /\ withdrawn' = withdrawn \cup job \cup fallback
    /\ Aside /\ Stays /\ UNCHANGED <<trigger, job, done, ignored>>

\* reset_history.
ResetHistory ==
    /\ paused /\ done' = {} /\ ignored' = {}
    /\ withdrawn' = withdrawn \cup done
    /\ Calm /\ Aside /\ Stays /\ UNCHANGED <<trigger, job, fallback, paused>>

\* resumeTaskDiscovery: triggerPending115OfflineExtractions.
Resume ==
    /\ paused /\ paused' = FALSE
    /\ trigger' = [b \in Batches |-> IF memory.batch[b].auto /\ NeedsCheck(b) /\ trigger[b] = NoTrigger
                                     THEN [NoTrigger EXCEPT !.at = "ask"] ELSE trigger[b]]
    /\ Calm /\ Aside /\ Stays /\ UNCHANGED extraction

\* A crash, and the start after it (load115OfflineStore).
Queued == {l \in Links : \E b \in Batches : trigger[b].at = "queue" /\ trigger[b].file = l}
Crash ==
    /\ Fault
    /\ memory' = disk
    /\ import' = NoImport /\ check' = NoCheck /\ retry' = NoRetry
    /\ trigger' = [b \in Batches |-> NoTrigger]
    /\ job' = {} /\ withdrawn' = withdrawn \cup job \cup Queued
    /\ lost' = lost \cup Sent \cup {l \in Links : OnRecord(memory, l) /\ ~OnRecord(disk, l)}
                    \cup {l \in Links : disk.task[l].status = "submitting"}
    /\ UNCHANGED <<cloud, disk, txt, done, fallback, ignored, paused, cleared, unsaved>>

---------------------------------------------------------------------------
Triggered(b) == TriggerLists(b) \/ TriggerQueues(b) \/ TriggerEnds(b) \/ \E l \in Links : TriggerBinds(b, l)

Importing == ImportTxt \/ ImportSends \/ ImportSaves \/ TxtFiled

User ==
    \/ \E links \in (SUBSET Links) \ {{}}, auto \in BOOLEAN : ImportPage(links, auto)
    \/ \E l \in Links : RetryStarts(l) \/ ClearTask(l)
    \/ \E l \in Links : RetryCloud(l) \/ Cancel(l) \/ Ignore(l) \/ Unignore(l)
    \/ \E b \in Batches : CheckAsked(b)
    \/ ClearCompleted \/ ClearAll \/ StopClear \/ ResetHistory

Next ==
    \/ TxtArrives \/ Importing \/ NoDateFolder \/ Applies \/ RetrySends \/ RetryEnds \/ User \/ Resume \/ Crash
    \/ \E l \in Links : RemoteEnds(l) \/ Appears(l) \/ PushedOut(l) \/ ComesBack(l)
    \/ \E l \in Links : ExtractionEnds(l) \/ DownloadEnds(l)
    \/ \E b \in Batches : CheckDue(b) \/ Triggered(b)

Spec == Init /\ [][Next]_vars

\* The monitor goes round the batches that are due, requests end, 115 gets on with
\* its tasks, and the watcher of the text files looks again.
FairSpec ==
    /\ Spec
    /\ WF_vars(Importing) /\ WF_vars(Applies) /\ WF_vars(RetrySends \/ RetryEnds)
    /\ \A b \in Batches : SF_vars(CheckDue(b)) /\ WF_vars(Triggered(b))
    /\ \A l \in Links : WF_vars(RemoteEnds(l)) /\ WF_vars(Appears(l))

---------------------------------------------------------------------------
(* Properties.                                                             *)

\* Types; and a task that is being submitted is so by a retry that is under way,
\* unless a refresh saved it like that before a crash.
TypeOK ==
    /\ remote \in [Links -> {"none", "downloading", "success", "failed"}] /\ beyond \subseteq Links
    /\ visible \subseteq Links /\ taken \subseteq Links
    /\ job \subseteq Links /\ done \subseteq Links /\ fallback \subseteq Links /\ ignored \subseteq Links
    /\ memory \in Stores /\ disk \in Stores
    /\ txt \in {"none", "inbox", "done", "partial"}
    /\ \A l \in Links : memory.task[l].status = "submitting" => (retry # NoRetry /\ retry.link = l) \/ l \in lost

\* What 115 was handed is on record: a chunk that fails, an error between two
\* of them, a write that fails or a refresh loses no link.  Only the user does,
\* and a crash before the record is on disk.
AllOnRecord ==
    \A l \in Links : remote[l] # "none" => OnRecord(memory, l) \/ l \in Sent \cup cleared \cup lost

\* A text file is filed as processed only when the record of its links is on
\* disk: the write of its own batch has succeeded, and no crash undoes it.  Left
\* out are links the user has cleared since, and those that the import passed over
\* as duplicates of a record which an earlier write had left in memory alone
\* (115_offline.go:384 asks the memory): for them the code files the text with
\* nothing on disk.
FiledDurably == txt = "done" => \A l \in TxtLinks : OnRecord(disk, l) \/ l \in cleared \cup unsaved

\* A task that is bound to its archive shows "handed to 115's cloud extraction"
\* and is not looked at again: the archive is being extracted, has a record, or is
\* about to be queued.  The exceptions are of the user's making or a crash's, and
\* nothing repairs them: the extraction or the download was under way when the
\* user stopped the task system or ignored the archive, was begun while it was
\* stopped or ignored, or was cut short by a crash; or the history was reset.
HandedOver ==
    \A l \in Archives :
        OnRecord(memory, l) /\ memory.task[l].bound =>
            l \in job \cup done \cup fallback \cup Queued \cup withdrawn

\* An archive that 115 has downloaded for a batch with auto_extract is handed to
\* the cloud extraction in the end, though lists are stale, requests fail, files
\* appear late, tasks are retried, and the task system is stopped and resumed: one
\* whose extraction was withdrawn is handed over again, if its task was not bound
\* to it yet and its file is still in the folder.  Tasks that the monitor does not
\* look at are left out: those 115 is said to have refused, those of a retry that a
\* crash cut short, and those that are off the pages it reads.
Watched(l) ==
    /\ OnRecord(memory, l) /\ memory.batch[memory.task[l].batch].auto
    /\ Is(l, {"submitted", "downloading", "unknown", "failed", "success"})
    /\ l \notin beyond
Forgone(l) == l \in withdrawn /\ (memory.task[l].bound \/ l \in taken)
EventuallyHanded ==
    \A l \in Archives : remote[l] = "success" /\ Watched(l)
                        ~> (l \in job \cup done \cup fallback \/ ~Watched(l) \/ Forgone(l) \/ paused)

===============================================================================
