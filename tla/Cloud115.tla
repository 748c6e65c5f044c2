------------------------------- MODULE Cloud115 -------------------------------
(***************************************************************************)
(* Cloud extraction by 115's servers (115_events.go, task_retry.go, the    *)
(* 115 records of state_store.go, and the handlers of dashboard.go,        *)
(* task_control.go and task_mutation.go that concern 115 tasks).           *)
(*                                                                         *)
(* A scan pages through the source folders and starts a goroutine for each *)
(* new archive.  The goroutines queue for one slot (n115Queue), have the   *)
(* archive extracted in the cloud, and keep or remove its source.  When    *)
(* all attempts fail the archive is moved to the failure folder and waits  *)
(* for its download through CloudDrive2, at once or when the user approves.*)
(* Archives of daily-download folders are downloaded without an attempt.   *)
(*                                                                         *)
(* An archive is known by its name and size, so one value stands for its   *)
(* cloud key, its download key, and its identity in the processing state.  *)
(***************************************************************************)
EXTENDS Naturals, Sequences, FiniteSets, SequencesExt

CONSTANTS
    Files,        \* archives
    Home,         \* the folder each of them is put in: "source" or "download"
    Settings,     \* the configurations to consider
    Retries,      \* n115_retry_count
    PageSize,     \* n115ScanPageSize
    PageBudget,   \* n115ScanPageBudget: pages of a folder that one scan reads
    MaxUser,      \* bound: actions of the user, those that undo one and retries aside
    MaxFaults     \* bound: failed requests, failed downloads and crashes

ASSUME CloudAssumption ==
    /\ Home \in [Files -> {"source", "download"}]
    /\ Settings \subseteq [auto     : BOOLEAN,               \* n115_auto_fallback
                           approval : BOOLEAN,               \* of the daily-download folder
                           rescan   : BOOLEAN,               \* n115_scan_failure
                           success  : {"keep", "delete"}]    \* n115_success_action
    /\ Retries \in Nat \ {0}
    /\ PageSize \in Nat \ {0}
    /\ PageBudget \in Nat \ {0}
    /\ MaxUser \in Nat
    /\ MaxFaults \in Nat
    /\ {"poll", "failure", "start"} \cap Files = {}

VARIABLES
    setting,      \* the configuration
    folders,      \* what 115 lists of each folder, newest first
    extracted,    \* archives whose extraction was accepted, here or in the cloud
    removed,      \* archives whose source was removed after it
    processed,    \* state: keys with a success on record
    failed,       \* state: stage of the failure on record
    ignored,      \* state: Ignored
    pending,      \* state: Fallback115, waiting for approval or approved
    paused,       \* taskSystemPaused, persistent
    cancelled,    \* u.cancelled
    running,      \* n115Running
    job,          \* the goroutine that handles an archive
    row,          \* its cd2Tasks entry: what the dashboard offers for it
    asked,        \* archives CloudDrive2 was asked for: copied, then extracted here
    local,        \* handle115FallbackLocalSuccess, after such an extraction
    scan,         \* the scan that holds n115SyncMu
    offsets,      \* n115ScanOffsets
    overtaken,    \* archives a scan queued when they had left the folder, or the user
                  \* approved before a retry in the cloud took their record
    resuming,     \* goroutines of a resume and of the start
    user, faults  \* steps of the user and failures so far

cloud == <<setting, folders, extracted, removed>>
state == <<processed, failed, ignored, pending, paused>>
workers == <<running, job, row>>
copies == <<asked, local>>
scanner == <<scan, offsets, overtaken>>
vars == <<cloud, state, workers, copies, scanner, cancelled, resuming, user, faults>>

Folders == {"source", "download", "failure"}
Stages == {"none", "cloud", "move", "cleanup", "retried", "cancelled", "download"}

\* What a goroutine does next, how many attempts it made, and who started it.
Steps == {"none", "queued", "ready", "list", "try", "cloud", "sleep", "mark", "finish",
          "final", "move", "save", "hand", "cool"}
NoJob == [at |-> "none", try |-> 0, by |-> "scan"]
Jobs == [at : Steps, try : 0 .. Retries, by : {"scan", "pending", "history"}]

NoScan == [at |-> "idle", folder |-> "source", page |-> 0, todo |-> {}, asked |-> {}, full |-> FALSE]

In(folder) == ToSet(folders[folder])
InSlot == {f \in Files : job[f].at \notin {"none", "queued"}}
AtMostOne(S) == \A x, y \in S : x = y

---------------------------------------------------------------------------
Init ==
    /\ setting \in Settings
    /\ folders = [d \in Folders |-> <<>>]
    /\ extracted = {} /\ removed = {} /\ processed = {}
    /\ failed = [f \in Files |-> "none"]
    /\ ignored = {}
    /\ pending = [f \in Files |-> "none"]
    /\ paused = FALSE
    /\ cancelled = {} /\ running = {}
    /\ job = [f \in Files |-> NoJob]
    /\ row = [f \in Files |-> "none"]
    /\ asked = {}
    /\ local = [f \in Files |-> "none"]
    /\ scan = NoScan
    /\ offsets = [d \in Folders |-> 0]
    /\ overtaken = {}
    /\ resuming = {}
    /\ user = 0 /\ faults = 0

Act == user < MaxUser /\ user' = user + 1 /\ UNCHANGED faults
Fault == faults < MaxFaults /\ faults' = faults + 1 /\ UNCHANGED user
Calm == UNCHANGED <<user, faults>>
\* What the bound on the user's actions does not count.
Again == MaxUser > 0 /\ Calm

\* A new archive is listed first (user_ptime, descending).
Upload(f) ==
    /\ \A d \in Folders : f \notin In(d)
    /\ f \notin removed
    /\ folders' = [folders EXCEPT ![Home[f]] = <<f>> \o @]
    /\ Calm /\ UNCHANGED <<setting, extracted, removed, state, workers, copies, scanner, cancelled, resuming>>

\* The files of a folder that a request with this offset returns.
Page(folder, offset) ==
    LET end == offset + PageSize
    IN  SubSeq(folders[folder], offset + 1, IF end < Len(folders[folder]) THEN end ELSE Len(folders[folder]))

\* refresh115Fallback: CloudDrive2 lists the folder anew and the handler of
\* its events looks for the file.
Refreshes(some) == asked' = asked \cup (some \ ignored)

---------------------------------------------------------------------------
(* The scans.                                                              *)

ScanStart(full) ==
    /\ ~paused
    /\ scan.at = "idle"          \* n115SyncMu.TryLock
    /\ scan' = [NoScan EXCEPT !.at = "page", !.full = full]
    /\ UNCHANGED <<cloud, state, workers, copies, offsets, overtaken, cancelled>>

\* The ticker, the button of the task page, and the first step of a resume,
\* which goes on without a scan when one is under way.
TimerScan == ScanStart(TRUE) /\ Calm /\ UNCHANGED resuming
UserScan == Act /\ ScanStart(FALSE) /\ UNCHANGED resuming
ResumeScan ==
    /\ "poll" \in resuming
    /\ resuming' = (resuming \ {"poll"}) \cup {"failure"}
    /\ \/ ScanStart(TRUE) /\ Calm
       \/ /\ paused \/ scan.at # "idle"
          /\ Calm /\ UNCHANGED <<cloud, state, workers, copies, scanner, cancelled>>

\* Mutant: the folder's offset is not reset at its end.
ScanPageStuck ==
    LET start == offsets[scan.folder]
        batch == Page(scan.folder, start + scan.page * PageSize)
        ends == Len(batch) < PageSize \/ scan.page + 1 = PageBudget
    IN  /\ scan.at = "page"
        /\ scan' = [scan EXCEPT !.todo = @ \cup ToSet(batch),
                                !.at = IF ends THEN "file" ELSE @,
                                !.page = IF ends THEN 0 ELSE @ + 1]
        /\ offsets' = IF ends THEN [offsets EXCEPT ![scan.folder] = @ + Len(batch)] ELSE offsets
        /\ Calm /\ UNCHANGED <<cloud, state, workers, copies, overtaken, cancelled, resuming>>

\* scan115Pages: one page.  A short page is the last; otherwise the next scan
\* goes on where the budget ended.
ScanPage ==
    LET start == offsets[scan.folder]
        batch == Page(scan.folder, start + scan.page * PageSize)
        short == Len(batch) < PageSize
        last == scan.page + 1 = PageBudget
    IN  /\ scan.at = "page"
        /\ scan' = [scan EXCEPT !.todo = @ \cup ToSet(batch),
                                !.at = IF short \/ last THEN "file" ELSE @,
                                !.page = IF short \/ last THEN 0 ELSE @ + 1]
        /\ offsets' = IF short THEN [offsets EXCEPT ![scan.folder] = 0]
                      ELSE IF last THEN [offsets EXCEPT ![scan.folder] = start + PageBudget * PageSize]
                      ELSE offsets
        /\ Calm /\ UNCHANGED <<cloud, state, workers, copies, overtaken, cancelled, resuming>>

\* A failed request: what this scan has read of the folder is forgotten.
ScanPageFails ==
    /\ scan.at = "page" /\ Fault
    /\ scan' = [scan EXCEPT !.at = "file", !.page = 0, !.todo = {}]
    /\ UNCHANGED <<cloud, state, workers, copies, offsets, overtaken, cancelled, resuming>>

\* The archive is of no interest: ignored, on record, cancelled or waiting.  Of
\* failures and cancellations the daily downloads take no notice.
Skipped(f) ==
    \/ f \in ignored \cup processed
    \/ pending[f] # "none"
    \/ scan.folder = "source" /\ (failed[f] # "none" \/ f \in cancelled)

ScanSkips(f) ==
    /\ scan.at = "file" /\ f \in scan.todo \ scan.asked
    /\ Skipped(f)
    /\ scan' = [scan EXCEPT !.todo = @ \ {f}]
    /\ Calm /\ UNCHANGED <<cloud, state, workers, copies, offsets, overtaken, cancelled, resuming>>

\* The questions are asked one after the other, before n115Running is.
ScanAsks(f) ==
    /\ scan.at = "file" /\ f \in scan.todo /\ scan.asked = {}
    /\ ~Skipped(f)
    /\ scan' = [scan EXCEPT !.asked = {f}]
    /\ Calm /\ UNCHANGED <<cloud, state, workers, copies, offsets, overtaken, cancelled, resuming>>

\* n115Running.LoadOrStore, and what follows when it was free: a goroutine, or
\* the download task, whose folder is refreshed in the scan itself.
ScanQueues(f) ==
    /\ scan.at = "file" /\ f \in scan.asked
    /\ IF f \in running
       THEN /\ scan' = [scan EXCEPT !.todo = @ \ {f}, !.asked = {}]
            /\ UNCHANGED <<pending, running, job, row>>
       ELSE /\ running' = running \cup {f}
            /\ IF scan.folder = "source"
               THEN /\ scan' = [scan EXCEPT !.todo = @ \ {f}, !.asked = {}]
                    /\ job' = [job EXCEPT ![f] = [NoJob EXCEPT !.at = "queued"]]
                    /\ row' = [row EXCEPT ![f] = "shown"]
                    /\ UNCHANGED pending
               ELSE /\ scan' = [scan EXCEPT !.todo = @ \ {f}, !.at = "refresh"]
                    /\ pending' = [pending EXCEPT ![f] = IF setting.approval THEN "approval" ELSE "approved"]
                    /\ row' = [row EXCEPT ![f] = IF setting.approval THEN "offer" ELSE "shown"]
                    /\ UNCHANGED job
    /\ overtaken' = IF f \notin running \cup In(scan.folder) THEN overtaken \cup {f} ELSE overtaken
    /\ Calm /\ UNCHANGED <<cloud, processed, failed, ignored, paused, copies, offsets, cancelled, resuming>>

ScanRefreshes(f) ==
    /\ scan.at = "refresh" /\ f \in scan.asked
    /\ scan' = [scan EXCEPT !.at = "file", !.asked = {}]
    /\ running' = running \ {f}
    /\ Refreshes(IF setting.approval THEN {} ELSE {f})
    /\ Calm /\ UNCHANGED <<cloud, state, job, row, local, offsets, overtaken, cancelled, resuming>>

\* The daily-download folder comes after the sources, unless the user asked
\* for the sources only.
ScanNext ==
    /\ scan.at = "file" /\ scan.todo = {} /\ scan.asked = {}
    /\ scan' = IF scan.full /\ scan.folder = "source"
               THEN [scan EXCEPT !.at = "page", !.folder = "download"]
               ELSE NoScan
    /\ Calm /\ UNCHANGED <<cloud, state, workers, copies, offsets, overtaken, cancelled, resuming>>

---------------------------------------------------------------------------
(* The goroutine of an archive.                                            *)

At(f, step) == job[f].at = step
Goes(f, step) == job' = [job EXCEPT ![f].at = step]
Ends(f) == job' = [job EXCEPT ![f] = NoJob] /\ running' = running \ {f}
Shows(f, what) == row' = [row EXCEPT ![f] = what]

\* Steps of one goroutine; each names what it changes of the rest.
Alone == UNCHANGED <<setting, ignored, paused, copies, scanner, cancelled, resuming>>
NothingDone == UNCHANGED <<folders, extracted, removed, processed, failed, pending>>

Unwanted(f) == f \in ignored \cup cancelled

\* Mutant: no queue.
TakesAnySlot(f) ==
    /\ At(f, "queued")
    /\ Goes(f, "ready")
    /\ Calm /\ Alone /\ NothingDone /\ UNCHANGED <<running, row>>

\* The only slot of n115Queue.
TakesSlot(f) ==
    /\ At(f, "queued") /\ InSlot = {}
    /\ Goes(f, "ready")
    /\ Calm /\ Alone /\ NothingDone /\ UNCHANGED <<running, row>>

\* What the goroutine asks when it has the slot: the one of a scan asks for
\* the pause only, and a retry goes on where the record says.
Starts(f) ==
    /\ At(f, "ready")
    /\ IF paused \/ (job[f].by # "scan" /\ Unwanted(f))
       THEN Ends(f) /\ Shows(f, "none")
       ELSE /\ \/ job[f].by = "scan" /\ Goes(f, "try")
               \/ job[f].by = "pending" /\ Goes(f, "list")
               \/ job[f].by = "history" /\ failed[f] = "cleanup" /\ Goes(f, "finish")
               \/ job[f].by = "history" /\ failed[f] = "move" /\ Goes(f, "move")
               \/ /\ job[f].by = "history" /\ failed[f] \notin {"cleanup", "move"}
                  /\ Goes(f, "try") \/ Goes(f, "list")
            /\ UNCHANGED <<running, row>>
    /\ Calm /\ Alone /\ NothingDone

\* refreshRetry115File: a retry needs the pick code of the archive and reads
\* the first page of its folder.  The record of a pending task goes before
\* the attempts start.
Lists(f) ==
    /\ At(f, "list")
    /\ LET folder == IF job[f].by = "pending" THEN "failure" ELSE Home[f]
       IN  f \in ToSet(Page(folder, 0))
    /\ Goes(f, "try")
    /\ pending' = IF job[f].by = "pending" THEN [pending EXCEPT ![f] = "none"] ELSE pending
    /\ Calm /\ Alone /\ UNCHANGED <<folders, extracted, removed, processed, failed, running, row>>

ListFails(f) ==
    /\ At(f, "list")
    /\ LET folder == IF job[f].by = "pending" THEN "failure" ELSE Home[f]
       IN  IF f \in ToSet(Page(folder, 0)) THEN Fault ELSE Calm
    /\ Ends(f)
    /\ IF job[f].by = "pending"
       THEN Shows(f, "offer") /\ UNCHANGED failed
       ELSE Shows(f, "shown") /\ failed' = [failed EXCEPT ![f] = IF @ = "none" THEN "cloud" ELSE @]
    /\ Alone /\ UNCHANGED <<folders, extracted, removed, processed, pending>>

\* The head of the loop in run115CloudExtract.
Attempts(f) ==
    /\ At(f, "try")
    /\ IF paused \/ Unwanted(f)
       THEN Ends(f) /\ Shows(f, "none")
       ELSE /\ job' = [job EXCEPT ![f].at = "cloud", ![f].try = @ + 1]
            /\ Shows(f, "cloud")
            /\ UNCHANGED running
    /\ Calm /\ Alone /\ NothingDone

\* n115SeparateExtract: the archive is read, a folder made, the extraction
\* submitted and, with each password, waited for.  The answer of a task that
\* was cancelled meanwhile counts for nothing.
Succeeds(f) ==
    /\ At(f, "cloud")
    /\ \E d \in Folders : f \in In(d)
    /\ extracted' = extracted \cup {f}
    /\ IF Unwanted(f) THEN Goes(f, "cool") /\ Shows(f, "none") ELSE Goes(f, "mark") /\ UNCHANGED row
    /\ Calm /\ Alone /\ UNCHANGED <<folders, removed, processed, failed, pending, running>>

\* Mutant: an answer counts as success whatever its status.
FailsUnseen(f) ==
    /\ At(f, "cloud")
    /\ IF Unwanted(f) THEN Ends(f) /\ Shows(f, "none") ELSE Goes(f, "mark") /\ UNCHANGED <<running, row>>
    /\ Calm /\ Alone /\ NothingDone

\* Mutant: one attempt more than the retries.
FailsOnceMore(f) ==
    /\ At(f, "cloud")
    /\ IF Unwanted(f) THEN Ends(f) /\ Shows(f, "none")
       ELSE IF job[f].try <= Retries THEN Goes(f, "sleep") /\ Shows(f, "shown") /\ UNCHANGED running
       ELSE Goes(f, "final") /\ UNCHANGED <<running, row>>
    /\ Calm /\ Alone /\ NothingDone

\* A bad archive fails every time, a request now and then.
Fails(f) ==
    /\ At(f, "cloud")
    /\ IF Unwanted(f) THEN Ends(f) /\ Shows(f, "none")
       ELSE IF job[f].try < Retries THEN Goes(f, "sleep") /\ Shows(f, "shown") /\ UNCHANGED running
       ELSE Goes(f, "final") /\ UNCHANGED <<running, row>>
    /\ Calm /\ Alone /\ NothingDone

Wakes(f) ==
    /\ At(f, "sleep") /\ Goes(f, "try")
    /\ Calm /\ Alone /\ NothingDone /\ UNCHANGED <<running, row>>

Marks(f) ==
    /\ At(f, "mark")
    /\ processed' = processed \cup {f}
    /\ failed' = [failed EXCEPT ![f] = "none"]
    /\ Goes(f, "finish") /\ Shows(f, "none")
    /\ Calm /\ Alone /\ UNCHANGED <<folders, extracted, removed, pending, running>>

\* finish115Source: the source is kept or removed.  The cooldown between two
\* tasks (n115_task_interval) is spent in the slot.
Place(f, s) == CHOOSE i \in DOMAIN s : s[i] = f
WithoutFile(f) ==
    [d \in Folders |-> IF f \in In(d) THEN RemoveAt(folders[d], Place(f, folders[d])) ELSE folders[d]]
Disposes(f) ==
    IF setting.success = "keep" THEN UNCHANGED <<folders, removed>>
    ELSE /\ \E d \in Folders : f \in In(d)
         /\ folders' = WithoutFile(f)
         /\ removed' = removed \cup {f}

Finishes(f) ==
    /\ At(f, "finish")
    /\ Disposes(f)
    /\ failed' = [failed EXCEPT ![f] = "none"]
    /\ Goes(f, "cool") /\ Shows(f, "none")
    /\ Calm /\ Alone /\ UNCHANGED <<extracted, processed, pending, running>>

FinishFails(f) ==
    /\ At(f, "finish") /\ setting.success # "keep"
    /\ IF \E d \in Folders : f \in In(d) THEN Fault ELSE Calm
    /\ failed' = [failed EXCEPT ![f] = "cleanup"]
    /\ Goes(f, "cool") /\ Shows(f, "none")
    /\ Alone /\ UNCHANGED <<folders, extracted, removed, processed, pending, running>>

Cools(f) ==
    /\ At(f, "cool") /\ Ends(f)
    /\ Calm /\ Alone /\ NothingDone /\ UNCHANGED row

\* All attempts failed.  When the service is to blame, not the archive, it
\* stays where it is.  A retry of a pending task records the failure folder as
\* the source of the archive.
GivesUp(f) ==
    /\ At(f, "final")
    /\ failed' = [failed EXCEPT ![f] = IF job[f].by = "pending" THEN "retried" ELSE "cloud"]
    /\ \/ Fault /\ Ends(f) /\ Shows(f, "none")
       \/ Calm /\ Goes(f, "move") /\ Shows(f, "shown") /\ UNCHANGED running
    /\ Alone /\ UNCHANGED <<folders, extracted, removed, processed, pending>>

\* move115FailedSource: first the file, then its record, then the failure.
Moves(f) ==
    /\ At(f, "move")
    /\ IF f \in In("failure") THEN UNCHANGED folders
       ELSE folders' = [WithoutFile(f) EXCEPT !["failure"] = <<f>> \o @]
    /\ \E d \in Folders : f \in In(d)
    /\ Goes(f, "save")
    /\ Calm /\ Alone /\ UNCHANGED <<extracted, removed, processed, failed, pending, running, row>>

MoveFails(f) ==
    /\ At(f, "move") /\ f \notin In("failure")
    /\ IF \E d \in Folders : f \in In(d) THEN Fault ELSE Calm
    /\ failed' = [failed EXCEPT ![f] = "move"]
    /\ Ends(f) /\ Shows(f, "none")
    /\ Alone /\ UNCHANGED <<folders, extracted, removed, processed, pending>>

Saves(f) ==
    /\ At(f, "save")
    /\ pending' = [pending EXCEPT ![f] = IF setting.auto THEN "approved" ELSE "approval"]
    /\ Goes(f, "hand")
    /\ Calm /\ Alone /\ UNCHANGED <<folders, extracted, removed, processed, failed, running, row>>

HandsOver(f) ==
    /\ At(f, "hand")
    /\ failed' = [failed EXCEPT ![f] = "none"]
    /\ Ends(f)
    /\ Shows(f, IF setting.auto THEN "shown" ELSE "offer")
    /\ Refreshes(IF setting.auto THEN {f} ELSE {})
    /\ Calm /\ UNCHANGED <<cloud, processed, ignored, pending, paused, local, scanner, cancelled, resuming>>

---------------------------------------------------------------------------
(* Downloads: CloudDrive2 copies an archive it was asked for and the folder *)
(* pipeline extracts it (CD2Monitor, CD2Cache, FolderPipeline).             *)

Local(f, step) == local' = [local EXCEPT ![f] = step]
Aside == UNCHANGED <<setting, ignored, paused, running, job, scanner, cancelled, resuming>>

Extracts(f) ==
    /\ f \in asked /\ f \in In("failure") \cup In("download")
    /\ ~paused
    /\ asked' = asked \ {f}
    /\ extracted' = extracted \cup {f}
    /\ processed' = processed \cup {f}
    /\ failed' = [failed EXCEPT ![f] = "none"]
    /\ IF pending[f] = "none" THEN UNCHANGED local ELSE Local(f, "mark")
    /\ Calm /\ Aside /\ UNCHANGED <<folders, removed, pending, row>>

\* Copy or extraction failed, or there was nothing to copy.
Drops(f) ==
    /\ f \in asked
    /\ IF paused \/ f \notin In("failure") \cup In("download") THEN Calm ELSE Fault
    /\ asked' = asked \ {f}
    /\ Aside /\ UNCHANGED <<folders, extracted, removed, processed, failed, pending, local, row>>

\* handle115FallbackLocalSuccess.
LocalMarks(f) ==
    /\ local[f] = "mark" /\ Local(f, "file")
    /\ processed' = processed \cup {f}
    /\ failed' = [failed EXCEPT ![f] = "none"]
    /\ Calm /\ Aside /\ UNCHANGED <<folders, extracted, removed, pending, asked, row>>

LocalDisposes(f) ==
    /\ local[f] = "file" /\ Local(f, "forget")
    /\ Disposes(f)
    /\ Calm /\ Aside /\ UNCHANGED <<extracted, processed, failed, pending, asked, row>>

LocalDisposeFails(f) ==
    /\ local[f] = "file" /\ Local(f, "forget")
    /\ setting.success # "keep"
    /\ IF \E d \in Folders : f \in In(d) THEN Fault ELSE Calm
    /\ failed' = [failed EXCEPT ![f] = "cleanup"]
    /\ Aside /\ UNCHANGED <<folders, extracted, removed, processed, pending, asked, row>>

LocalForgets(f) ==
    /\ local[f] = "forget" /\ Local(f, "none")
    /\ pending' = [pending EXCEPT ![f] = "none"]
    /\ Shows(f, "none")
    /\ Calm /\ Aside /\ UNCHANGED <<folders, extracted, removed, processed, failed, asked>>

---------------------------------------------------------------------------
(* The user.  An approval and a retry in the cloud ask for the record alone, *)
(* so that a page that was read before is as good as a new one; the other  *)
(* steps are those the task page offers.                                   *)

\* The row of cd2Tasks, or without one the record, decides about the buttons.
Offered(f) == IF row[f] = "none" THEN pending[f] = "approval" ELSE row[f] = "offer"
Cancellable(f) == IF row[f] = "none" THEN pending[f] = "approved" ELSE row[f] \in {"shown", "cloud"}

\* approve115Task asks neither for the button nor for n115Running.
Approve(f) ==
    /\ Act /\ ~paused
    /\ pending[f] = "approval" /\ ~Unwanted(f)
    /\ pending' = [pending EXCEPT ![f] = "approved"]
    /\ Shows(f, "shown")
    /\ Refreshes({f})
    /\ overtaken' = IF job[f].at \in {"queued", "ready", "list"} THEN overtaken \cup {f} ELSE overtaken
    /\ UNCHANGED <<cloud, processed, failed, ignored, paused, running, job, local, scan, offsets, cancelled, resuming>>

\* retryPending115Cloud.
RetryCloud(f) ==
    /\ Again /\ ~paused
    /\ pending[f] = "approval" /\ Home[f] = "source" /\ ~Unwanted(f)
    /\ f \notin running
    /\ running' = running \cup {f}
    /\ job' = [job EXCEPT ![f] = [NoJob EXCEPT !.at = "queued", !.by = "pending"]]
    /\ Shows(f, "shown")
    /\ UNCHANGED <<cloud, state, copies, scanner, cancelled, resuming>>

\* retryHistory: a cancelled download waits for approval again, all else goes to
\* retry115History, which refuses archives of the failure folder unless only
\* their cleanup failed.
RetryHistory(f) ==
    /\ Act /\ ~paused
    /\ IF failed[f] = "none" THEN f \in processed \ In("failure") ELSE failed[f] # "retried"
    /\ f \notin ignored \cup running /\ pending[f] = "none"
    /\ cancelled' = cancelled \ {f}
    /\ IF failed[f] = "download"
       THEN /\ pending' = [pending EXCEPT ![f] = "approval"]
            /\ Shows(f, "offer")
            /\ UNCHANGED <<running, job>>
       ELSE /\ running' = running \cup {f}
            /\ job' = [job EXCEPT ![f] = [NoJob EXCEPT !.at = "queued", !.by = "history"]]
            /\ Shows(f, "shown")
            /\ UNCHANGED pending
    /\ UNCHANGED <<cloud, processed, failed, ignored, paused, copies, scanner, resuming>>

\* handleTaskMutation.  The row of a task that runs stays until it has ended.
Drop(f) ==
    /\ cancelled' = cancelled \cup {f}
    /\ pending' = [pending EXCEPT ![f] = "none"]
    /\ asked' = asked \ {f}
    /\ Shows(f, IF f \in running THEN "off" ELSE "none")

Cancel(f) ==
    /\ Act /\ Cancellable(f) /\ local[f] = "none"
    /\ \E stage \in IF pending[f] = "none" THEN {"cancelled"} ELSE {"cancelled", "download"} :
        failed' = [failed EXCEPT ![f] = stage]
    /\ Drop(f)
    /\ UNCHANGED <<cloud, processed, ignored, paused, running, job, local, scanner, resuming>>

Ignore(f) ==
    /\ Act /\ (Cancellable(f) \/ Offered(f)) /\ local[f] = "none"
    /\ ignored' = ignored \cup {f}
    /\ Drop(f)
    /\ UNCHANGED <<cloud, processed, failed, paused, running, job, local, scanner, resuming>>

Unignore(f) ==
    /\ f \in ignored
    /\ ignored' = ignored \ {f} /\ cancelled' = cancelled \ {f}
    /\ Calm /\ UNCHANGED <<cloud, processed, failed, pending, paused, workers, copies, scanner, resuming>>

\* stop_clear: extractions under way in the cloud go on.
StopClear ==
    LET cleared == {f \in Files : row[f] \notin {"none", "cloud"}}
    IN  /\ Act /\ ~paused /\ paused' = TRUE
        /\ cancelled' = cancelled \cup cleared
        /\ row' = [f \in Files |-> IF f \in cleared THEN "none" ELSE row[f]]
        /\ pending' = [f \in Files |-> "none"]
        /\ asked' = {}
        /\ UNCHANGED <<cloud, processed, failed, ignored, running, job, local, scanner, resuming>>

Resume ==
    /\ paused /\ paused' = FALSE
    /\ cancelled' = {}
    /\ resuming' = resuming \cup {"poll"}
    /\ Calm /\ UNCHANGED <<cloud, processed, failed, ignored, pending, workers, copies, scanner>>

ResetHistory ==
    /\ paused
    /\ processed' = {} /\ ignored' = {} /\ cancelled' = {}
    /\ failed' = [f \in Files |-> "none"]
    /\ Calm /\ UNCHANGED <<cloud, pending, paused, workers, copies, scanner, resuming>>

---------------------------------------------------------------------------
(* After a resume and after a start.                                       *)

\* scan115FailureFolder: the first page of the failure folder ...
FailureLists ==
    /\ "failure" \in resuming
    /\ resuming' = (resuming \ {"failure"})
                     \cup IF setting.rescan /\ ~paused THEN ToSet(Page("failure", 0)) ELSE {}
    /\ Calm /\ UNCHANGED <<cloud, state, workers, copies, scanner, cancelled>>

\* ... and each file that is neither on record nor waiting.
FailureAsks(f) ==
    /\ f \in resuming /\ resuming' = resuming \ {f}
    /\ IF f \in ignored \cup processed \/ pending[f] # "none"
       THEN UNCHANGED <<pending, row, asked>>
       ELSE /\ pending' = [pending EXCEPT ![f] = IF setting.auto THEN "approved" ELSE "approval"]
            /\ Shows(f, IF setting.auto THEN "shown" ELSE "offer")
            /\ Refreshes(IF setting.auto THEN {f} ELSE {})
    /\ Calm /\ UNCHANGED <<cloud, processed, failed, ignored, paused, running, job, local, scanner, cancelled>>

\* A crash, and the start after it: the state is read, all else begins anew.
Crash ==
    /\ Fault
    /\ cancelled' = {} /\ running' = {} /\ asked' = {}
    /\ job' = [f \in Files |-> NoJob]
    /\ row' = [f \in Files |-> "none"]
    /\ local' = [f \in Files |-> "none"]
    /\ scan' = NoScan
    /\ offsets' = [d \in Folders |-> 0]
    /\ overtaken' = {}
    /\ resuming' = {"start"}
    /\ UNCHANGED <<cloud, state>>

\* Mutant: a restart asks for every download on record, approved or not.
ResumeAllDownloads ==
    /\ "start" \in resuming /\ resuming' = resuming \ {"start"}
    /\ Refreshes(IF paused THEN {} ELSE {f \in Files : pending[f] # "none"})
    /\ Calm /\ UNCHANGED <<cloud, state, workers, local, scanner, cancelled>>

\* resume115LocalDownloads: downloads that need no approval, or have it.
ResumeDownloads ==
    /\ "start" \in resuming /\ resuming' = resuming \ {"start"}
    /\ Refreshes(IF paused THEN {} ELSE {f \in Files : pending[f] = "approved"})
    /\ Calm /\ UNCHANGED <<cloud, state, workers, local, scanner, cancelled>>

---------------------------------------------------------------------------
Scanning ==
    \/ TimerScan \/ ResumeScan \/ ScanPage \/ ScanNext
    \/ \E f \in Files : ScanSkips(f) \/ ScanAsks(f) \/ ScanQueues(f) \/ ScanRefreshes(f)

Working(f) ==
    \/ Starts(f) \/ Lists(f) \/ ListFails(f) \/ Attempts(f) \/ Succeeds(f) \/ Fails(f) \/ Wakes(f)
    \/ Marks(f) \/ Finishes(f) \/ FinishFails(f) \/ Cools(f) \/ GivesUp(f) \/ Moves(f) \/ MoveFails(f)
    \/ Saves(f) \/ HandsOver(f)

Downloading(f) ==
    Extracts(f) \/ LocalMarks(f) \/ LocalDisposes(f) \/ LocalDisposeFails(f) \/ LocalForgets(f)

Resuming == FailureLists \/ ResumeDownloads \/ \E f \in Files : FailureAsks(f)

User ==
    \/ UserScan \/ StopClear \/ ResetHistory
    \/ \E f \in Files : Approve(f) \/ RetryCloud(f) \/ RetryHistory(f) \/ Cancel(f) \/ Ignore(f) \/ Unignore(f)

Next ==
    \/ Scanning \/ Resuming \/ User \/ Resume \/ ScanPageFails \/ Crash
    \/ \E f \in Files : Upload(f) \/ TakesSlot(f) \/ Working(f) \/ Downloading(f) \/ Drops(f)

Spec == Init /\ [][Next]_vars

\* The ticker and the scans go on, requests end within their timeouts, the
\* goroutines run, and the slot goes round those that wait for it: a Go channel
\* serves its senders in their order.
FairSpec ==
    /\ Spec
    /\ WF_vars(Scanning)
    /\ \A f \in Files : SF_vars(TakesSlot(f)) /\ WF_vars(Working(f))

---------------------------------------------------------------------------
(* Properties.                                                             *)

\* The variables hold what the code can put there.
TypeOK ==
    /\ setting \in Settings
    /\ \A d \in Folders : folders[d] \in Seq(Files) /\ IsInjective(folders[d])
    /\ extracted \subseteq Files /\ removed \subseteq Files
    /\ processed \subseteq Files /\ ignored \subseteq Files /\ cancelled \subseteq Files
    /\ failed \in [Files -> Stages]
    /\ pending \in [Files -> {"none", "approval", "approved"}]
    /\ paused \in BOOLEAN
    /\ job \in [Files -> Jobs]
    /\ row \in [Files -> {"none", "shown", "cloud", "offer", "off"}]
    /\ asked \subseteq Files
    /\ local \in [Files -> {"none", "mark", "file", "forget"}]
    /\ offsets \in [Folders -> Nat] /\ overtaken \subseteq Files

\* One archive at a time is in the slot of n115Queue, whoever started it and
\* however it ends; and n115Running, set and cleared by many hands, has exactly
\* the archives that a goroutine or the scan is at work on, so that none is
\* worked on twice and none is locked for ever.
OneSlot ==
    /\ AtMostOne(InSlot)
    /\ running = {f \in Files : ~At(f, "none")}
                    \cup (IF scan.at = "refresh" THEN scan.asked ELSE {})

\* An archive counts as processed only once its extraction was accepted, and
\* its source in the cloud is removed only once it was extracted: what
\* CloudArchive promises (run115CloudExtract, handle115FallbackLocalSuccess).
Promise == INSTANCE CloudArchive WITH Versions <- Files
KeepsPromise == Promise!Spec

\* The user's retry in the cloud never runs beside a download of the archive: of
\* the two ways out of a failure the user gets one.  This rests on the order in
\* which records come and go, and on a restart that only goes on with approved
\* downloads.  Three steps of the code do break it, each left out by name: the
\* user approves the download of an archive while a retry waits for the slot or
\* for its listing, with the record still there (approve115Task asks for the
\* record and not for n115Running, and retryPending115Cloud removes the record
\* late); a scan queues an archive that was moved away since the folder was read
\* (ScanAsks, ScanQueues); and a rescan of the failure folder offers what a retry
\* is at work on.
OneUnpacker ==
    setting.rescan \/ \A f \in asked \ overtaken : ~(job[f].at = "cloud" /\ job[f].by = "pending")

\* An archive in a source folder is scanned, however many pages the folder
\* has, and ends up on record: processed, failed, ignored or waiting.
OnRecord(f) == f \in processed \cup ignored \/ failed[f] # "none" \/ pending[f] # "none"
EventuallySettled ==
    \A f \in Files : f \in In("source") ~> (OnRecord(f) \/ f \notin In("source") \/ paused)

=============================================================================
