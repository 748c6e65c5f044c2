----------------------------- MODULE StarrQueue -----------------------------
(***************************************************************************)
(* The downloads of Starr applications (handlers.go, apps.go, sonarr.go    *)
(* and its siblings).  A client such as Sonarr lists its downloads; the    *)
(* main loop polls the list, extracts what is complete, takes a download   *)
(* that leaves the list for imported, and cleans up after it.              *)
(*                                                                         *)
(* Nothing of this is kept in files: after a crash the list says it all.   *)
(* A title stands for its download and names its entry in u.Map.  Each     *)
(* title is on a server of its own.  Delays may be of any length.          *)
(*                                                                         *)
(* To a download of a client ignoring does what cancelling does.  The      *)
(* records that updateQueueStatus makes of failures are left out: a retry  *)
(* from the history finds no file named like a title and gives up.         *)
(***************************************************************************)
EXTENDS Naturals, Sequences, FiniteSets

CONSTANTS
    Titles,      \* downloads
    Workers,     \* xtractr's processQueue goroutines
    MaxRetries,  \* max_retries; 0 retries without end
    DeleteOrig,  \* titles whose server has delete_orig
    MaxWorld     \* bound: steps of clients, users, and crashes

ASSUME StarrAssumption ==
    /\ MaxRetries \in Nat
    /\ DeleteOrig \subseteq Titles
    /\ MaxWorld \in Nat

Statuses == {"ABSENT", "WAITING", "QUEUED", "EXTRACTING", "EXTRACTFAILED",
             "EXTRACTED", "IMPORTED", "DELETED"}

Submitted == {"QUEUED", "EXTRACTING"}

\* What a client says of a download.
Listings == {"none", "downloading", "completed"}

VARIABLES
    client,     \* the list of the client
    listed,     \* server.Queue, as last polled
    source,     \* titles with archives at their path
    map,        \* status in u.Map
    orphans,    \* entries of u.Map made by updateQueueStatus, as Folder tasks
    retries,    \* retries in u.Map
    cancelled,  \* u.cancelled
    paused,     \* taskSystemPaused
    queue,      \* xtractr's queue
    running,    \* jobs of the workers: [worker, title]
    updates,    \* u.updates: [title, done, ok]
    deletes,    \* u.delChan: titles whose path is to be deleted
    \* what the properties look back on
    attempts,   \* submissions since a client or a user last touched the title,
                \* up to one more than the code should make
    loosed,     \* titles whose entry was taken away from a job in flight
    muted,      \* titles whose last answer met a cancellation
    world       \* steps of clients, users, and crashes taken

lists == <<client, listed, source>>
owned == <<map, orphans, retries>>
pool == <<queue, running, updates>>
ghosts == <<attempts, loosed, muted>>
vars == <<lists, owned, cancelled, paused, pool, deletes, ghosts, world>>

Finished(i) == updates[i].done

InFlight(t) ==
    \/ \E i \in DOMAIN queue : queue[i] = t
    \/ \E j \in running : j.title = t
    \/ \E i \in DOMAIN updates : Finished(i) /\ updates[i].title = t

Jobs(t) ==
    Cardinality({i \in DOMAIN queue : queue[i] = t})
      + Cardinality({j \in running : j.title = t})
      + Cardinality({i \in DOMAIN updates : Finished(i) /\ updates[i].title = t})

Init ==
    /\ client \in [Titles -> Listings]
    /\ listed = [t \in Titles |-> "none"]
    /\ source = {t \in Titles : client[t] = "completed"}
    /\ map = [t \in Titles |-> "ABSENT"]
    /\ orphans = {}
    /\ retries = [t \in Titles |-> 0]
    /\ cancelled = {} /\ paused = FALSE
    /\ queue = <<>> /\ running = {} /\ updates = <<>> /\ deletes = <<>>
    /\ attempts = [t \in Titles |-> 0]
    /\ loosed = {} /\ muted = {}
    /\ world = 0

-----------------------------------------------------------------------------
(***************************************************************************)
(* The poller: retrieveAppQueues, then checkQueueChanges.                  *)
(***************************************************************************)
\* checkSonarrQueue: a completed download without an entry gets one.
Appears(t, listing) ==
    IF map[t] = "ABSENT" /\ listing = "completed" THEN "WAITING" ELSE map[t]

\* Mutant: a download that waits is kept when it leaves the list.
GoneKeepsWaiting(status) ==
    IF status \in Submitted \cup {"EXTRACTFAILED", "EXTRACTED"} THEN "IMPORTED"
    ELSE status

\* checkQueueChanges, when the download is not in the list ...
Gone(status) ==
    CASE status = "WAITING" -> "ABSENT"
      [] status \in Submitted \cup {"EXTRACTFAILED", "EXTRACTED"} -> "IMPORTED"
      [] OTHER -> status

\* ... and when it is.
\* Mutant: an imported download that is back is left to its deletion.
ThereStillImported(status) == IF status = "DELETED" THEN "WAITING" ELSE status

There(status) ==
    CASE status = "IMPORTED" -> "EXTRACTED"
      [] status = "DELETED" -> "WAITING"
      [] OTHER -> status

Checked(t, listing) ==
    IF t \in orphans THEN map[t]
    ELSE IF listing = "none" THEN Gone(Appears(t, listing))
    ELSE There(Appears(t, listing))

\* Entries of jobs in flight that this step takes away.
Loose(newmap) ==
    loosed' = loosed \cup {t \in Titles : /\ map[t] \in Submitted
                                          /\ newmap[t] \notin Submitted
                                          /\ InFlight(t)}

\* A server that cannot be reached keeps its last list.
Poll(down) ==
    LET list == [t \in Titles |-> IF t \in down THEN listed[t] ELSE client[t]]
        newmap == [t \in Titles |-> Checked(t, list[t])]
    IN  /\ listed' = list
        /\ map' = newmap
        /\ retries' = [t \in Titles |-> IF map[t] = "ABSENT" THEN 0 ELSE retries[t]]
        /\ Loose(newmap)
        /\ UNCHANGED <<client, source, orphans, cancelled, paused, pool, deletes,
                       attempts, muted, world>>

-----------------------------------------------------------------------------
(***************************************************************************)
(* extractCompletedDownload.  Cancellations are not asked for.             *)
(***************************************************************************)
\* Mutant: the status is compared with <= instead of <.
StartableTwice(t) == map[t] \in {"WAITING", "QUEUED"}

Startable(t) == map[t] = "WAITING"

ExtractCompleted(t) ==
    /\ ~paused
    /\ t \notin orphans
    /\ Startable(t)
    /\ t \in source
    /\ map' = [map EXCEPT ![t] = "QUEUED"]
    /\ queue' = Append(queue, t)
    /\ attempts' = [attempts EXCEPT ![t] = IF @ > MaxRetries + 1 THEN @ ELSE @ + 1]
    /\ loosed' = IF InFlight(t) THEN loosed ELSE loosed \ {t}
    /\ muted' = muted \ {t}
    /\ UNCHANGED <<lists, orphans, retries, cancelled, paused, running, updates,
                   deletes, world>>

(***************************************************************************)
(* checkExtractDone, one entry of a pass at a time.                        *)
(***************************************************************************)
ExpireDeleted(t) ==
    /\ map[t] = "DELETED"
    /\ map' = [map EXCEPT ![t] = "ABSENT"]
    /\ orphans' = orphans \ {t}
    /\ UNCHANGED <<lists, retries, cancelled, paused, pool, deletes, ghosts, world>>

Due(t, status) == t \notin orphans /\ map[t] = status

\* Mutant: the limit is compared with <= instead of <.
MayRetryOnceMore(t) == MaxRetries = 0 \/ retries[t] <= MaxRetries

MayRetry(t) == MaxRetries = 0 \/ retries[t] < MaxRetries

\* Retries without end are not counted here.
RetryFailed(t) ==
    /\ Due(t, "EXTRACTFAILED")
    /\ MayRetry(t)
    /\ map' = [map EXCEPT ![t] = "WAITING"]
    /\ retries' = [retries EXCEPT ![t] = IF MaxRetries = 0 THEN @ ELSE @ + 1]
    /\ UNCHANGED <<lists, orphans, cancelled, paused, pool, deletes, ghosts, world>>

GiveUp(t) ==
    /\ Due(t, "EXTRACTFAILED")
    /\ ~MayRetry(t)
    /\ map' = [map EXCEPT ![t] = "DELETED"]
    /\ UNCHANGED <<lists, orphans, retries, cancelled, paused, pool, deletes, ghosts,
                   world>>

\* With delete_orig all of the download goes, else what was extracted from it.
CleanImported(t) ==
    /\ Due(t, "IMPORTED")
    /\ map' = [map EXCEPT ![t] = "DELETED"]
    /\ deletes' = IF t \in DeleteOrig THEN Append(deletes, t) ELSE deletes
    /\ UNCHANGED <<lists, orphans, retries, cancelled, paused, pool, ghosts, world>>

CheckDone(t) ==
    \/ ExpireDeleted(t)
    \/ RetryFailed(t)
    \/ GiveUp(t)
    \/ CleanImported(t)

\* watchDeleteChannel: the files go, or stay without permission.
DeleteFiles ==
    /\ deletes # <<>>
    /\ deletes' = Tail(deletes)
    /\ source' \in {source, source \ {Head(deletes)}}
    /\ UNCHANGED <<client, listed, owned, cancelled, paused, pool, ghosts, world>>

-----------------------------------------------------------------------------
(***************************************************************************)
(* xtractr's workers.                                                      *)
(***************************************************************************)
Answer(t, done, ok) == [title |-> t, done |-> done, ok |-> ok]

Idle(w) == \A j \in running : j.worker # w

TakeJob(w) ==
    /\ Idle(w)
    /\ queue # <<>>
    /\ queue' = Tail(queue)
    /\ UNCHANGED <<lists, owned, cancelled, paused, deletes, ghosts, world>>

StartJob(w) ==
    /\ TakeJob(w)
    /\ Head(queue) \in source
    /\ running' = running \cup {[worker |-> w, title |-> Head(queue)]}
    /\ updates' = Append(updates, Answer(Head(queue), FALSE, TRUE))

\* ErrNoCompressedFiles is an error like any other to the Starr handler.
FindNothing(w) ==
    /\ TakeJob(w)
    /\ Head(queue) \notin source
    /\ updates' = Append(updates, Answer(Head(queue), TRUE, FALSE))
    /\ UNCHANGED running

FinishJob(w, ok) ==
    \E j \in running :
        /\ j.worker = w
        /\ running' = running \ {j}
        /\ updates' = Append(updates, Answer(j.title, TRUE, ok))
        /\ UNCHANGED <<lists, owned, cancelled, paused, queue, deletes, ghosts, world>>

Work(w) == StartJob(w) \/ FindNothing(w) \/ \E ok \in BOOLEAN : FinishJob(w, ok)

-----------------------------------------------------------------------------
(***************************************************************************)
(* handleXtractrCallback.                                                  *)
(***************************************************************************)
Receive(a) ==
    /\ updates # <<>>
    /\ a = Head(updates)
    /\ updates' = Tail(updates)
    /\ UNCHANGED <<lists, retries, cancelled, paused, queue, running, deletes,
                   attempts, loosed, world>>

\* The output is deleted, and nothing becomes of the entry.
CallbackCancelled(a) ==
    /\ Receive(a)
    /\ a.title \in cancelled
    /\ muted' = IF a.done THEN muted \cup {a.title} ELSE muted
    /\ UNCHANGED <<map, orphans>>

\* updateQueueStatus, which makes an entry of a Folder task if there is none.
UpdateQueueStatus(t, status) ==
    /\ map' = [map EXCEPT ![t] = status]
    /\ orphans' = IF map[t] = "ABSENT" THEN orphans \cup {t} ELSE orphans

\* Mutant: an error changes nothing.
OutcomeForgotten(a) == IF ~a.done \/ ~a.ok THEN "EXTRACTING" ELSE "EXTRACTED"

Outcome(a) ==
    IF ~a.done THEN "EXTRACTING" ELSE IF a.ok THEN "EXTRACTED" ELSE "EXTRACTFAILED"

CallbackAccepted(a) ==
    /\ Receive(a)
    /\ a.title \notin cancelled
    /\ UpdateQueueStatus(a.title, Outcome(a))
    /\ UNCHANGED muted

Callback ==
    /\ updates # <<>>
    /\ CallbackCancelled(Head(updates)) \/ CallbackAccepted(Head(updates))

-----------------------------------------------------------------------------
(***************************************************************************)
(* Users, clients, time, and crashes.                                      *)
(***************************************************************************)
World ==
    /\ world < MaxWorld
    /\ world' = world + 1

\* handleTaskMutation, for a task of the list.
UserCancel(t) ==
    /\ World
    /\ map[t] \notin {"ABSENT", "EXTRACTED"}
    /\ cancelled' = cancelled \cup {t}
    /\ map' = [map EXCEPT ![t] = IF @ \in Submitted THEN @ ELSE "ABSENT"]
    /\ orphans' = IF map[t] \in Submitted THEN orphans ELSE orphans \ {t}
    /\ attempts' = [attempts EXCEPT ![t] = 0]
    /\ UNCHANGED <<lists, retries, paused, pool, deletes, loosed, muted>>

\* handleTaskMutation, "unignore".
UserUnignore(t) ==
    /\ World
    /\ cancelled' = cancelled \ {t}
    /\ attempts' = [attempts EXCEPT ![t] = 0]
    /\ UNCHANGED <<lists, owned, paused, pool, deletes, loosed, muted>>

StopClear ==
    LET cleared == {t \in Titles : map[t] \notin {"ABSENT", "EXTRACTING"}}
        newmap == [t \in Titles |-> IF t \in cleared THEN "ABSENT" ELSE map[t]]
    IN  /\ World
        /\ paused' = TRUE
        /\ cancelled' = cancelled \cup cleared
        /\ map' = newmap
        /\ orphans' = orphans \ cleared
        /\ Loose(newmap)
        /\ attempts' = [t \in Titles |-> 0]
        /\ UNCHANGED <<lists, retries, pool, deletes, muted>>

Resume ==
    /\ World
    /\ paused' = FALSE
    /\ cancelled' = {}
    /\ attempts' = [t \in Titles |-> 0]
    /\ UNCHANGED <<lists, owned, pool, deletes, loosed, muted>>

\* The download starts, completes, or is imported or removed with or without
\* its files.
ClientLists(t, listing) ==
    /\ World
    /\ client[t] # listing
    /\ client' = [client EXCEPT ![t] = listing]
    /\ source' \in CASE listing = "completed" -> {source \cup {t}}
                     [] listing = "downloading" -> {source}
                     [] listing = "none" -> {source, source \ {t}}
    /\ attempts' = [attempts EXCEPT ![t] = 0]
    /\ UNCHANGED <<listed, owned, cancelled, paused, pool, deletes, loosed, muted>>

\* staleItemTimeout: a day without news of an entry.
Stale(t) ==
    /\ World
    /\ t \notin orphans
    /\ map[t] \in Submitted \cup {"EXTRACTED"}
    /\ map' = [map EXCEPT ![t] = "DELETED"]
    /\ Loose(map')
    /\ attempts' = [attempts EXCEPT ![t] = 0]
    /\ UNCHANGED <<lists, orphans, retries, cancelled, paused, pool, deletes, muted>>

Restart ==
    /\ World
    /\ listed' = [t \in Titles |-> "none"]
    /\ map' = [t \in Titles |-> "ABSENT"]
    /\ retries' = [t \in Titles |-> 0]
    /\ orphans' = {} /\ cancelled' = {} /\ running' = {}
    /\ queue' = <<>> /\ updates' = <<>> /\ deletes' = <<>>
    /\ attempts' = [t \in Titles |-> 0]
    /\ loosed' = {} /\ muted' = {}
    /\ UNCHANGED <<client, source, paused>>

Environment ==
    \/ \E t \in Titles : \/ UserCancel(t)
                         \/ UserUnignore(t)
                         \/ Stale(t)
                         \/ \E listing \in Listings : ClientLists(t, listing)
    \/ StopClear
    \/ Resume
    \/ Restart

Next ==
    \/ \E down \in SUBSET Titles : Poll(down)
    \/ \E t \in Titles : ExtractCompleted(t) \/ CheckDone(t)
    \/ \E w \in Workers : Work(w)
    \/ Callback
    \/ DeleteFiles
    \/ Environment

Spec == Init /\ [][Next]_vars

\* The tickers, channels and goroutines are served, and servers that are down
\* come back.
Fairness ==
    /\ WF_vars(Poll({}))
    /\ \A t \in Titles : WF_vars(ExtractCompleted(t)) /\ WF_vars(CheckDone(t))
    /\ \A w \in Workers : WF_vars(Work(w))
    /\ WF_vars(Callback)
    /\ WF_vars(DeleteFiles)

FairSpec == Spec /\ Fairness

-----------------------------------------------------------------------------
(***************************************************************************)
(* Properties.                                                             *)
(***************************************************************************)
\* Types, the retry count within its limit, and entries of Folder tasks that
\* are entries (handlers.go, folder.go).
TypeOK ==
    /\ client \in [Titles -> Listings] /\ listed \in [Titles -> Listings]
    /\ source \subseteq Titles
    /\ map \in [Titles -> Statuses]
    /\ orphans \subseteq {t \in Titles : map[t] # "ABSENT"}
    /\ retries \in [Titles -> 0 .. MaxRetries]
    /\ cancelled \subseteq Titles /\ paused \in BOOLEAN
    /\ queue \in Seq(Titles)
    /\ running \subseteq [worker : Workers, title : Titles]
    /\ updates \in Seq([title : Titles, done : BOOLEAN, ok : BOOLEAN])
    /\ deletes \in Seq(DeleteOrig)
    /\ attempts \in [Titles -> 0 .. MaxRetries + 2]
    /\ loosed \subseteq Titles /\ muted \subseteq Titles
    /\ world \in 0 .. MaxWorld

\* Two extractions of one download never compete for its output folder, whatever
\* the polls, retries and cancellations do in between: the status in u.Map is the
\* only lock.  It holds as long as no poll, stop or time limit took the entry
\* away from a job in flight.
SingleJob == \A t \in Titles \ loosed : Jobs(t) <= 1

\* An entry that waits for xtractr (QUEUED, EXTRACTING) waits for an answer that
\* is still to come, unless a cancellation met the answer; nothing but the time
\* limit of a day frees it otherwise, while the client keeps listing it.
NoStuckTask == \A t \in Titles : map[t] \in Submitted => InFlight(t) \/ t \in muted

\* checkExtractDone asks for the deletion of a download (delete_orig) only while
\* the list last polled is without it: a download that came back during
\* delete_delay is not deleted under its client.
OnlyGoneDeleted ==
    [][Len(deletes') > Len(deletes) => listed[deletes'[Len(deletes')]] = "none"]_vars

\* The entry of a download that its client has dropped for good leaves u.Map,
\* whatever its extraction came to; but for the Folder entries that late answers
\* make, which nothing on this side takes away.
EventuallyForgotten ==
    \A t \in Titles :
        <>[](client[t] = "none") => <>[](map[t] = "ABSENT" \/ t \in orphans)

\* What max_retries says: a failed extraction is retried so many times, until the
\* client or a user does something about it (definitions.yml, max_retries).
RetryLimit == MaxRetries > 0 => \A t \in Titles : attempts[t] <= MaxRetries + 1

=============================================================================
