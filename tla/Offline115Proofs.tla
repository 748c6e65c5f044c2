--------------------------- MODULE Offline115Proofs ---------------------------
(***************************************************************************)
(* The four invariants of the offline downloads, for any links, chunks,    *)
(* batches and interleaving of imports, refreshes, retries, triggers,      *)
(* clears, failed writes and crashes.  They rest on one another: a retry   *)
(* hands 115 a link that is on record because no import touches a link     *)
(* that is, and a text file stays filed durably because what the file has  *)
(* the memory has too, unless the user has cleared it.                     *)
(***************************************************************************)
EXTENDS Offline115, TLAPS

---------------------------------------------------------------------------
(* The inductive invariant, in parts.                                      *)

RemoteStates == {"none", "downloading", "success", "failed"}
SentStates == {"none", "submitted", "submit_failed"}

Imports == [at : {"none", "send", "done", "partial"}, txt : BOOLEAN, auto : BOOLEAN,
            todo : SUBSET Links, sent : [Links -> SentStates]]
Listings == [at : {"apply"}, batch : Batches, ok : {TRUE}, list : [Links -> RemoteStates]]
NoListings == [at : {"apply"}, batch : Batches, ok : {FALSE}]
Sending == [at : {"send"}, link : Links, batch : Batches, before : {"failed", "submit_failed"}]
Answered == [at : {"answer"}, link : Links, batch : Batches,
             status : {"submitted", "failed", "submit_failed"}]
Looking == [at : {"none", "ask", "files"}, files : SUBSET Links]
Queueing == [at : {"queue"}, files : SUBSET Links, file : Links]

\* What the goroutines know, and the store.
ImportOK == import \in Imports
CheckOK == check \in {NoCheck} \cup Listings \cup NoListings
RetryOK == retry \in {NoRetry} \cup Sending \cup Answered
TriggerOK == trigger \in [Batches -> Looking \cup Queueing]
StoreOK == memory \in Stores /\ disk \in Stores
CloudOK ==
    /\ remote \in [Links -> RemoteStates] /\ beyond \subseteq Links
    /\ visible \subseteq Links /\ taken \subseteq Links
    /\ job \subseteq Links /\ done \subseteq Links /\ fallback \subseteq Links /\ ignored \subseteq Links
    /\ txt \in {"none", "inbox", "done", "partial"}
Typed == ImportOK /\ CheckOK /\ RetryOK /\ TriggerOK /\ StoreOK /\ CloudOK

\* An import does not touch links on record, and has links only while it sends.
ImportApart ==
    /\ \A l \in import.todo \cup Sent : ~OnRecord(memory, l)
    /\ import.at # "send" => import.todo = {} /\ Sent = {}

\* The link of a retry is on record unless its record was cleared; and while its
\* task is being submitted, it is the one the retry has read.
RetryKept ==
    retry # NoRetry =>
        /\ OnRecord(memory, retry.link) \/ retry.link \in cleared
        /\ memory.task[retry.link].status = "submitting" => retry.link \in TasksOf(retry.batch)
OnlyRetried ==
    \A l \in Links : memory.task[l].status = "submitting"
                        => (retry # NoRetry /\ retry.link = l) \/ l \in lost

\* What the file has the memory has too, but for what was cleared.
NoMore == \A l \in Links : OnRecord(disk, l) => OnRecord(memory, l) \/ l \in cleared

\* The import of a text file has each of its links in one place or another.
Durable(l) == OnRecord(disk, l) \/ l \in cleared \cup unsaved
TxtKept ==
    /\ import.at = "send" /\ import.txt => \A l \in TxtLinks : Durable(l) \/ l \in import.todo \cup Sent
    /\ import.at = "done" => \A l \in TxtLinks : Durable(l)
    /\ txt = "done" => \A l \in TxtLinks : Durable(l)

\* Where an archive is that a task is bound to.
OnItsWay(l) == l \in job \cup done \cup fallback \cup Queued \cup withdrawn
BoundHanded(s) == \A l \in Archives : OnRecord(s, l) /\ s.task[l].bound => OnItsWay(l)

\* A goroutine that may end without a record is one that the user has stopped.
Stoppable == \A l \in job : paused \/ l \in ignored => l \in withdrawn

LinksInv == ImportApart /\ RetryKept /\ OnlyRetried /\ NoMore /\ TxtKept /\ AllOnRecord
IInv == Typed /\ LinksInv /\ BoundHanded(memory) /\ BoundHanded(disk) /\ Stoppable

---------------------------------------------------------------------------
(* What the operations make of the store.                                  *)

\* The step writes s: memory has it, and the file may have it.
Writes(s) == memory' = s /\ disk' \in {disk, s}

\* The records of s are those of memory, in their batches, and only a task that
\* was being submitted is.
SameRecords(s) ==
    \A l \in Links :
        /\ OnRecord(s, l) <=> OnRecord(memory, l)
        /\ OnRecord(s, l) => s.task[l].batch = memory.task[l].batch
        /\ s.task[l].status = "submitting" => memory.task[l].status = "submitting"

SameBound(s) ==
    \A l \in Archives : OnRecord(s, l) /\ s.task[l].bound => OnRecord(memory, l) /\ memory.task[l].bound

LEMMA StoreParts ==
  ASSUME NEW s \in Stores
  PROVE  /\ s = [task |-> s.task, batch |-> s.batch]
         /\ s.task \in [Links -> Tasks \cup {NoTask}]
         /\ s.batch \in [Batches -> [due : BOOLEAN, checks : 0 .. 2, auto : BOOLEAN]]
         /\ \A l \in Links : OnRecord(s, l) => s.task[l] \in Tasks
  BY DEF Stores, OnRecord

LEMMA MakeStore ==
  ASSUME NEW t \in [Links -> Tasks \cup {NoTask}],
         NEW b \in [Batches -> [due : BOOLEAN, checks : 0 .. 2, auto : BOOLEAN]]
  PROVE  [task |-> t, batch |-> b] \in Stores
  BY DEF Stores

LEMMA TaskIsOnRecord == NoTask \notin Tasks
  BY DEF NoTask, Tasks, Statuses

LEMMA WritesKeepStores ==
  ASSUME StoreOK, NEW s \in Stores, Writes(s)
  PROVE  StoreOK'
  BY DEF StoreOK, Writes

LEMMA SavesWrites ==
  ASSUME NEW s, Saves(s) \/ SaveFails(s)
  PROVE  Writes(s)
  BY DEF Saves, SaveFails, Writes

LEMMA RecordedStore ==
  ASSUME memory \in Stores, import \in Imports, NEW b \in Batches
  PROVE  /\ Recorded(b) \in Stores
         /\ \A l \in Links : IF l \in Sent THEN /\ OnRecord(Recorded(b), l)
                                                /\ Recorded(b).task[l].status # "submitting"
                                                /\ ~Recorded(b).task[l].bound
                             ELSE Recorded(b).task[l] = memory.task[l]
<1>1. \A l \in Links : import.sent[l] \in SentStates
  BY DEF Imports
<1>2. \A l \in Sent : [status |-> import.sent[l], batch |-> b, bound |-> FALSE] \in Tasks
  BY <1>1 DEF Sent, SentStates, Tasks, Statuses
<1>3. Recorded(b).task \in [Links -> Tasks \cup {NoTask}]
  BY <1>2, StoreParts DEF Recorded
<1>4. Recorded(b).batch \in [Batches -> [due : BOOLEAN, checks : 0 .. 2, auto : BOOLEAN]]
  BY StoreParts DEF Recorded, Imports
<1>5. Recorded(b) \in Stores
  BY <1>3, <1>4, MakeStore DEF Recorded
<1>6. \A l \in Sent : Recorded(b).task[l] = [status |-> import.sent[l], batch |-> b, bound |-> FALSE]
  BY DEF Recorded, Sent
<1>7. \A l \in Sent : import.sent[l] \in {"submitted", "submit_failed"}
  BY <1>1 DEF Sent, SentStates
<1> QED
  BY <1>2, <1>5, <1>6, <1>7, TaskIsOnRecord DEF Recorded, OnRecord

LEMMA ListedTask ==
  ASSUME memory \in Stores, check \in Listings \cup NoListings,
         NEW l \in Links, OnRecord(memory, l)
  PROVE  /\ Listed(l) \in Tasks
         /\ Listed(l).batch = memory.task[l].batch
         /\ Listed(l).status = "submitting" => memory.task[l].status = "submitting"
         /\ l \in Archives => Listed(l).bound = memory.task[l].bound
<1>1. memory.task[l] \in Tasks
  BY StoreParts
<1>2. CASE check \in NoListings
  <2>1. ~check.ok
    BY <1>2 DEF NoListings
  <2>2. Listed(l) = [memory.task[l] EXCEPT !.status = "unknown"] \/ Listed(l) = memory.task[l]
    BY <2>1 DEF Listed
  <2> QED
    BY <1>1, <2>2 DEF Tasks, Statuses
<1>3. CASE check \in Listings
  <2>1. check.ok /\ check.list[l] \in RemoteStates
    BY <1>3 DEF Listings
  <2> QED
    BY <1>1, <2>1 DEF Listed, Tasks, Statuses, RemoteStates
<1> QED
  BY <1>2, <1>3

LEMMA RefreshedStore ==
  ASSUME memory \in Stores, check \in Listings \cup NoListings, NEW b \in Batches
  PROVE  Refreshed(b) \in Stores /\ SameRecords(Refreshed(b)) /\ SameBound(Refreshed(b))
<1>1. \A l \in TasksOf(b) : l \in Links /\ OnRecord(memory, l)
  BY DEF TasksOf
<1>2. \A l \in TasksOf(b) : Listed(l) \in Tasks
  BY <1>1, ListedTask
<1>3. Refreshed(b).task \in [Links -> Tasks \cup {NoTask}]
  BY <1>2, StoreParts DEF Refreshed
<1>4. Refreshed(b).batch \in [Batches -> [due : BOOLEAN, checks : 0 .. 2, auto : BOOLEAN]]
  <2>1. ASSUME NEW x \in [due : BOOLEAN, checks : 0 .. 2, auto : BOOLEAN]
        PROVE  Rescheduled(x) \in [due : BOOLEAN, checks : 0 .. 2, auto : BOOLEAN]
    <3> DEFINE due == x.checks < 2 \/ Fallback
               checks == IF x.checks < 2 /\ ~Fallback THEN x.checks + 1 ELSE x.checks
    <3>1. Rescheduled(x) = [x EXCEPT !.checks = checks, !.due = due]
      BY Zenon DEF Rescheduled
    <3>2. checks \in 0 .. 2
      BY OfflineAssumption
    <3>3. due \in BOOLEAN
      OBVIOUS
    <3> HIDE DEF due, checks
    <3> QED
      BY <3>1, <3>2, <3>3
  <2>2. memory.batch \in [Batches -> [due : BOOLEAN, checks : 0 .. 2, auto : BOOLEAN]]
    BY StoreParts
  <2>3. Rescheduled(memory.batch[b]) \in [due : BOOLEAN, checks : 0 .. 2, auto : BOOLEAN]
    BY <2>1, <2>2
  <2> QED
    BY <2>2, <2>3 DEF Refreshed
<1>5. Refreshed(b) \in Stores
  BY <1>3, <1>4, MakeStore DEF Refreshed
<1>6. \A l \in Links : Refreshed(b).task[l] = IF l \in TasksOf(b) THEN Listed(l) ELSE memory.task[l]
  BY DEF Refreshed
<1>7. SameRecords(Refreshed(b))
  BY <1>1, <1>6, ListedTask, TaskIsOnRecord DEF SameRecords, OnRecord
<1>8. SameBound(Refreshed(b))
  BY <1>1, <1>6, ListedTask, OfflineAssumption DEF SameBound, OnRecord
<1> QED
  BY <1>5, <1>7, <1>8

LEMMA WithoutStore ==
  ASSUME memory \in Stores, NEW S \in SUBSET Links
  PROVE  /\ Without(S) \in Stores
         /\ \A l \in Links : Without(S).task[l] = IF l \in S THEN NoTask ELSE memory.task[l]
<1>1. Without(S) = [task |-> [l \in Links |-> IF l \in S THEN NoTask ELSE memory.task[l]], batch |-> memory.batch]
  BY StoreParts DEF Without
<1>2. Without(S).task \in [Links -> Tasks \cup {NoTask}]
  BY <1>1, StoreParts
<1> QED
  BY <1>1, <1>2, StoreParts, MakeStore

\* What bind115OfflineArchive leaves of a store is that of memory, but for l.
LEMMA BoundStore ==
  ASSUME memory \in Stores, NEW b \in Batches, NEW l \in Links
  PROVE  /\ Bound(b, l) \in Stores /\ SameRecords(Bound(b, l))
         /\ \A a \in Links \ {l} : Bound(b, l).task[a] = memory.task[a]
<1>1. CASE l \in TasksOf(b) \cap Sized /\ Is(l, {"success"})
  <2> DEFINE task == [memory.task[l] EXCEPT !.bound = TRUE]
             t == [memory.task EXCEPT ![l] = task]
  <2>1. OnRecord(memory, l) /\ memory.task[l] \in Tasks
    BY <1>1, StoreParts DEF TasksOf
  <2>2. task \in Tasks /\ task.status = memory.task[l].status /\ task.batch = memory.task[l].batch
    BY <2>1 DEF Tasks
  <2>3. t \in [Links -> Tasks \cup {NoTask}] /\ t[l] = task
    BY <2>2, StoreParts
  <2>4. \A a \in Links \ {l} : t[a] = memory.task[a]
    BY StoreParts
  <2>5. Bound(b, l) = [memory EXCEPT !.task = t]
    BY <1>1 DEF Bound
  <2>6. Bound(b, l) = [task |-> t, batch |-> memory.batch]
    BY <2>5, StoreParts
  <2>7. Bound(b, l).task = t
    BY <2>6
  <2>8. Bound(b, l) \in Stores
    <3>1. memory.batch \in [Batches -> [due : BOOLEAN, checks : 0 .. 2, auto : BOOLEAN]]
      BY StoreParts
    <3> HIDE DEF t
    <3> QED
      BY <2>3, <2>6, <3>1, MakeStore
  <2>9. SameRecords(Bound(b, l))
    <3>1. ASSUME NEW a \in Links
          PROVE  /\ t[a] # NoTask <=> memory.task[a] # NoTask
                 /\ t[a].batch = memory.task[a].batch /\ t[a].status = memory.task[a].status
      BY <2>1, <2>2, <2>3, <2>4, TaskIsOnRecord DEF OnRecord
    <3> QED
      BY <2>7, <3>1 DEF SameRecords, OnRecord
  <2> QED
    BY <2>4, <2>7, <2>8, <2>9
<1>2. CASE ~(l \in TasksOf(b) \cap Sized /\ Is(l, {"success"}))
  BY <1>2 DEF Bound, SameRecords
<1> QED
  BY <1>1, <1>2

LEMMA RetriedStore ==
  ASSUME memory \in Stores, NEW l \in Links, OnRecord(memory, l), NEW status \in Statuses,
         NEW s, s = [memory EXCEPT !.task[l].status = status]
  PROVE  /\ s \in Stores
         /\ s.task[l].status = status
         /\ \A a \in Links : /\ OnRecord(s, a) <=> OnRecord(memory, a)
                             /\ OnRecord(s, a) => s.task[a].batch = memory.task[a].batch
                             /\ s.task[a].bound = memory.task[a].bound
                             /\ a # l => s.task[a] = memory.task[a]
<1> DEFINE task == [memory.task[l] EXCEPT !.status = status]
           t == [memory.task EXCEPT ![l] = task]
<1>1. memory.task[l] \in Tasks /\ memory.task \in [Links -> Tasks \cup {NoTask}]
  BY StoreParts
<1>2. task \in Tasks /\ task.status = status /\ task.batch = memory.task[l].batch /\ task.bound = memory.task[l].bound
  BY <1>1 DEF Tasks
<1>3. s = [memory EXCEPT !.task = t]
  BY Zenon
<1> HIDE DEF task
<1>4. t \in [Links -> Tasks \cup {NoTask}] /\ t[l] = task /\ \A a \in Links \ {l} : t[a] = memory.task[a]
  BY <1>1, <1>2
<1> HIDE DEF t
<1>5. memory.batch \in [Batches -> [due : BOOLEAN, checks : 0 .. 2, auto : BOOLEAN]]
  BY StoreParts
<1>6. s = [task |-> t, batch |-> memory.batch] /\ s.task = t
  BY <1>3, StoreParts
<1>7. s \in Stores
  <2>1. [task |-> t, batch |-> memory.batch] \in Stores
    BY <1>4, <1>5, MakeStore
  <2> QED
    BY <2>1, <1>6, Zenon
<1>8. ASSUME NEW a \in Links
      PROVE  /\ OnRecord(s, a) <=> OnRecord(memory, a)
             /\ OnRecord(s, a) => s.task[a].batch = memory.task[a].batch
             /\ s.task[a].bound = memory.task[a].bound
             /\ a # l => s.task[a] = memory.task[a]
  BY <1>1, <1>2, <1>4, <1>6, TaskIsOnRecord DEF OnRecord
<1>9. s.task[l].status = status
  BY <1>2, <1>4, <1>6
<1> QED
  BY <1>7, <1>8, <1>9

---------------------------------------------------------------------------
(* Types.                                                                  *)

LEMMA InitTyped == Init => Typed
  BY DEF Init, Typed, ImportOK, CheckOK, RetryOK, TriggerOK, StoreOK, CloudOK, NoImport, Imports,
         SentStates, NoTrigger, Looking, Stores, NoBatch, RemoteStates

LEMMA StartsTyped == NoImport \in Imports /\ NoTrigger \in Looking
  BY DEF NoImport, Imports, SentStates, NoTrigger, Looking

LEMMA SubmitsTyped ==
  ASSUME CloudOK, NEW S, NEW ok, Submits(S, ok)
  PROVE  remote' \in [Links -> RemoteStates]
  BY DEF CloudOK, Submits, Handed, RemoteStates

ImportsPage == \E links \in (SUBSET Links) \ {{}}, auto \in BOOLEAN : ImportPage(links, auto)

LEMMA ImportingTyped ==
  ASSUME Typed, Importing \/ NoDateFolder \/ TxtArrives \/ ImportsPage
  PROVE  Typed'
<1> USE DEF Typed, CheckOK, RetryOK, TriggerOK
<1>1. ASSUME NEW links \in SUBSET Links, NEW isTxt \in BOOLEAN, NEW auto \in BOOLEAN,
             Import(links, isTxt, auto), UNCHANGED txt
      PROVE  Typed'
  <2>1. ImportOK'
    BY <1>1 DEF Import, ImportOK, Imports, NoImport, SentStates
  <2> QED
    BY <1>1, <2>1 DEF Import, CloudOK, StoreOK, store, cloud, extraction
<1>2. CASE ImportTxt
  BY <1>1, <1>2, OfflineAssumption DEF ImportTxt
<1>3. CASE ImportsPage
  BY <1>1, <1>3 DEF ImportsPage, ImportPage
<1>4. CASE NoDateFolder \/ TxtArrives
  BY <1>4 DEF NoDateFolder, TxtArrives, CloudOK, StoreOK, ImportOK, store, cloud, extraction
<1>5. CASE ImportSends
  <2>1. PICK S \in SUBSET import.todo, ok \in BOOLEAN :
          /\ Submits(S, ok)
          /\ import' = [import EXCEPT !.todo = @ \ S,
                                      !.sent = [l \in Links |-> IF l \notin S THEN @[l]
                                                                ELSE IF ok THEN "submitted" ELSE "submit_failed"]]
    BY <1>5 DEF ImportSends
  <2>2. ImportOK'
    <3> DEFINE sent == [l \in Links |-> IF l \notin S THEN import.sent[l]
                                        ELSE IF ok THEN "submitted" ELSE "submit_failed"]
    <3>1. import' = [import EXCEPT !.todo = import.todo \ S, !.sent = sent]
      BY <2>1
    <3>2. sent \in [Links -> SentStates]
      BY DEF ImportOK, Imports, SentStates
    <3> HIDE DEF sent
    <3> QED
      BY <3>1, <3>2 DEF ImportOK, Imports
  <2>3. CloudOK'
    BY <1>5, <2>1, SubmitsTyped DEF ImportSends, CloudOK, extraction
  <2> QED
    BY <1>5, <2>2, <2>3 DEF ImportSends, StoreOK, store
<1>6. CASE ImportSaves
  <2>1. ImportOK'
    <3>1. \/ import' = NoImport
          \/ import' = [NoImport EXCEPT !.at = "done"]
          \/ import' = [NoImport EXCEPT !.at = "partial"]
      BY <1>6 DEF ImportSaves, ImportEnds
    <3> QED
      BY <3>1, StartsTyped DEF ImportOK, Imports
  <2>2. StoreOK'
    <3>1. CASE Sent = {}
      BY <1>6, <3>1 DEF ImportSaves, store, StoreOK
    <3>2. CASE Sent # {}
      <4>1. PICK b \in Batches : Saves(Recorded(b)) \/ SaveFails(Recorded(b))
        BY <1>6, <3>2 DEF ImportSaves
      <4> QED
        BY <4>1, RecordedStore, SavesWrites, WritesKeepStores DEF StoreOK, ImportOK
    <3> QED
      BY <3>1, <3>2
  <2> QED
    BY <1>6, <2>1, <2>2 DEF ImportSaves, CloudOK, cloud, extraction
<1>7. CASE TxtFiled
  BY <1>7 DEF TxtFiled, ImportOK, Imports, NoImport, SentStates, CloudOK, StoreOK, store, cloud, extraction
<1> QED
  BY <1>2, <1>3, <1>4, <1>5, <1>6, <1>7 DEF Importing

LEMMA ShownTyped ==
  ASSUME CloudOK
  PROVE  Shown \in [Links -> RemoteStates]
  BY DEF CloudOK, Shown, RemoteStates

LEMMA CheckTyped ==
  ASSUME Typed, Applies \/ \E b \in Batches : CheckDue(b) \/ CheckAsked(b)
  PROVE  Typed'
<1> USE DEF Typed, ImportOK, RetryOK, CloudOK, cloud, extraction
<1>1. ASSUME NEW b \in Batches, Fetches(b)
      PROVE  Typed'
  <2>1. \/ check' = [at |-> "apply", batch |-> b, ok |-> TRUE, list |-> Shown]
        \/ check' = [at |-> "apply", batch |-> b, ok |-> FALSE]
    BY <1>1 DEF Fetches
  <2>2. CheckOK'
    <3>1. CASE check' = [at |-> "apply", batch |-> b, ok |-> TRUE, list |-> Shown]
      <4>1. check' \in Listings
        BY <3>1, ShownTyped DEF Listings
      <4> QED
        BY <4>1 DEF CheckOK
    <3>2. CASE check' = [at |-> "apply", batch |-> b, ok |-> FALSE]
      <4>1. check' \in NoListings
        BY <3>2 DEF NoListings
      <4> QED
        BY <4>1 DEF CheckOK
    <3> QED
      BY <2>1, <3>1, <3>2
  <2> QED
    BY <1>1, <2>2 DEF Fetches, StoreOK, store, TriggerOK
<1>2. CASE Applies
  <2> DEFINE b == check.batch
  <2>0. check \in Listings \cup NoListings
    BY <1>2 DEF Applies, CheckOK, NoCheck
  <2>1. check \in Listings \cup NoListings /\ b \in Batches
    BY <2>0 DEF Listings, NoListings
  <2>2. CheckOK'
    BY <1>2 DEF Applies, CheckOK
  <2>3. StoreOK' /\ TriggerOK'
    <3>1. CASE TasksOf(b) = {}
      BY <1>2, <3>1 DEF Applies, StoreOK, store, TriggerOK
    <3>2. CASE TasksOf(b) # {}
      <4>1. Saves(Refreshed(b)) \/ SaveFails(Refreshed(b))
        BY <1>2, <3>2 DEF Applies
      <4>2. StoreOK'
        BY <2>1, <4>1, RefreshedStore, SavesWrites, WritesKeepStores DEF StoreOK
      <4>3. trigger' = trigger \/ (trigger[b] = NoTrigger /\ trigger' = [trigger EXCEPT ![b].at = "ask"])
        BY <1>2, <3>2 DEF Applies
      <4>4. TriggerOK'
        BY <2>1, <4>3 DEF TriggerOK, NoTrigger, Looking, Queueing
      <4> QED
        BY <4>2, <4>4
    <3> QED
      BY <3>1, <3>2
  <2> QED
    BY <1>2, <2>2, <2>3 DEF Applies
<1> QED
  BY <1>1, <1>2 DEF CheckDue, CheckAsked

LEMMA RetryTyped ==
  ASSUME Typed, RetrySends \/ RetryEnds \/ \E l \in Links : RetryStarts(l)
  PROVE  Typed'
<1> USE DEF Typed, ImportOK, CheckOK, TriggerOK, cloud, extraction
<1>1. ASSUME NEW l \in Links, RetryStarts(l)
      PROVE  Typed'
  <2>1. memory.task[l].status \in {"failed", "submit_failed"} /\ OnRecord(memory, l) /\ memory.task[l] \in Tasks
    <3>1. memory.task[l].status \in {"failed", "submit_failed"}
      BY <1>1 DEF RetryStarts, Is
    <3>2. memory \in Stores
      BY DEF StoreOK
    <3> HIDE DEF Typed, ImportOK, CheckOK, TriggerOK
    <3>3. OnRecord(memory, l)
      BY <3>1 DEF OnRecord, NoTask
    <3> QED
      BY <3>1, <3>2, <3>3, StoreParts
  <2>2. memory' \in Stores
    BY <1>1, <2>1, RetriedStore DEF RetryStarts, StoreOK, Statuses
  <2>3. retry' \in Sending
    BY <1>1, <2>1 DEF RetryStarts, Sending, Tasks
  <2> QED
    BY <1>1, <2>2, <2>3 DEF RetryStarts, StoreOK, RetryOK, CloudOK
<1>2. CASE RetrySends
  <2>1. retry \in Sending
    BY <1>2 DEF RetrySends, RetryOK, NoRetry, Answered
  <2>2. retry' \in Answered
    BY <1>2, <2>1 DEF RetrySends, Sending, Answered
  <2>3. CloudOK'
    BY <1>2, SubmitsTyped DEF RetrySends, CloudOK
  <2> QED
    BY <1>2, <2>2, <2>3 DEF RetrySends, StoreOK, store, RetryOK
<1>3. CASE RetryEnds
  <2> DEFINE l == retry.link
             b == retry.batch
             t == IF l \in TasksOf(b) THEN [memory.task EXCEPT ![l].status = retry.status] ELSE memory.task
             c == IF retry.status = "submitted" THEN [memory.batch EXCEPT ![b].due = TRUE] ELSE memory.batch
  <2>1. retry \in Answered
    BY <1>3 DEF RetryEnds, RetryOK, NoRetry, Sending
  <2>2. retry.link \in Links /\ retry.batch \in Batches /\ retry.status \in Statuses
    BY <2>1 DEF Answered, Statuses
  <2>3. UNCHANGED store \/ Saves([task |-> t, batch |-> c]) \/ SaveFails([task |-> t, batch |-> c])
    BY <1>3 DEF RetryEnds
  <2>4. t \in [Links -> Tasks \cup {NoTask}]
    <3>1. ASSUME l \in TasksOf(b)
          PROVE  memory.task[l] \in Tasks
      BY <2>2, <3>1, StoreParts DEF TasksOf, StoreOK
    <3> QED
      BY <2>2, <3>1, StoreParts DEF StoreOK, Tasks
  <2>5. c \in [Batches -> [due : BOOLEAN, checks : 0 .. 2, auto : BOOLEAN]]
    <3>1. memory.batch \in [Batches -> [due : BOOLEAN, checks : 0 .. 2, auto : BOOLEAN]]
      BY StoreParts DEF StoreOK
    <3>2. [memory.batch[b] EXCEPT !.due = TRUE] \in [due : BOOLEAN, checks : 0 .. 2, auto : BOOLEAN]
      BY <2>2, <3>1
    <3> QED
      BY <2>2, <3>1, <3>2
  <2> HIDE DEF t, c
  <2>6. StoreOK'
    BY <2>3, <2>4, <2>5, MakeStore, SavesWrites, WritesKeepStores DEF store, StoreOK
  <2> QED
    BY <1>3, <2>6 DEF RetryEnds, RetryOK, CloudOK
<1> QED
  BY <1>1, <1>2, <1>3

LEMMA TriggerTyped ==
  ASSUME Typed, NEW b \in Batches, Triggered(b)
  PROVE  Typed'
<1> USE DEF Typed, ImportOK, CheckOK, RetryOK, cloud, extraction
<1>1. trigger[b] \in Looking \cup Queueing
  BY DEF TriggerOK
<1>2. CASE TriggerLists(b)
  BY <1>1, <1>2 DEF TriggerLists, TriggerOK, CloudOK, StoreOK, store, NoTrigger, Looking
<1>3. CASE TriggerQueues(b)
  BY <1>1, <1>3 DEF TriggerQueues, Begins, TriggerOK, CloudOK, StoreOK, store, Looking, Queueing
<1>4. CASE TriggerEnds(b)
  <2>1. UNCHANGED store \/ Writes(memory)
    BY <1>4, SavesWrites DEF TriggerEnds
  <2> QED
    BY <1>4, <2>1, WritesKeepStores DEF TriggerEnds, TriggerOK, CloudOK, StoreOK, store, NoTrigger, Looking
<1>5. ASSUME NEW l \in Links, TriggerBinds(b, l)
      PROVE  Typed'
  <2>1. UNCHANGED store \/ Writes(Bound(b, l))
    BY <1>5, SavesWrites DEF TriggerBinds
  <2>2. StoreOK'
    BY <2>1, BoundStore, WritesKeepStores DEF StoreOK, store
  <2>3. trigger[b] \in Looking
    BY <1>1, <1>5 DEF TriggerBinds, Queueing
  <2>4. TriggerOK'
    <3>1. CASE l \in done \cup fallback
      <4>1. trigger' = [trigger EXCEPT ![b] = [trigger[b] EXCEPT !.files = trigger[b].files \ {l}]]
        BY <1>5, <3>1 DEF TriggerBinds
      <4> QED
        BY <2>3, <4>1 DEF TriggerOK, Looking
    <3>2. CASE l \notin done \cup fallback
      <4>1. trigger' = [trigger EXCEPT ![b] = [at |-> "queue", files |-> trigger[b].files, file |-> l]]
        BY <1>5, <3>2 DEF TriggerBinds
      <4> QED
        BY <2>3, <4>1 DEF TriggerOK, Looking, Queueing
    <3> QED
      BY <3>1, <3>2
  <2> QED
    BY <1>5, <2>2, <2>4 DEF TriggerBinds, CloudOK
<1> QED
  BY <1>2, <1>3, <1>4, <1>5 DEF Triggered

LEMMA ClearTyped ==
  ASSUME Typed, NEW S \in SUBSET Links, Clear(S)
  PROVE  Typed'
<1>1. StoreOK'
  BY WithoutStore DEF Clear, Typed, StoreOK
<1> QED
  BY <1>1 DEF Clear, Typed, ImportOK, CheckOK, RetryOK, TriggerOK, CloudOK, cloud, extraction

\* The sets that the user clears.
LEMMA ClearsLinks ==
  ASSUME ClearCompleted \/ ClearAll \/ \E l \in Links : ClearTask(l)
  PROVE  \E S \in SUBSET Links : Clear(S)
<1>1. UNION {TasksOf(b) : b \in {c \in Batches : Finished(c)}} \in SUBSET Links
  BY DEF TasksOf
<1> QED
  BY <1>1 DEF ClearCompleted, ClearAll, ClearTask

LEMMA CrashTyped ==
  ASSUME Typed, Crash
  PROVE  Typed'
<1>1. TriggerOK'
  BY StartsTyped DEF Crash, TriggerOK
<1>2. CloudOK'
  BY DEF Crash, Typed, CloudOK, cloud
<1>3. ImportOK' /\ CheckOK' /\ RetryOK' /\ StoreOK'
  BY StartsTyped DEF Crash, Typed, ImportOK, CheckOK, RetryOK, StoreOK
<1> QED
  BY <1>1, <1>2, <1>3 DEF Typed

\* What 115 does, and the ends of extractions and downloads, on their own and by
\* the user.
World == \E l \in Links : RemoteEnds(l) \/ Appears(l) \/ PushedOut(l) \/ ComesBack(l)
Ends(l) == ExtractionEnds(l) \/ DownloadEnds(l) \/ RetryCloud(l) \/ Cancel(l) \/ Ignore(l) \/ Unignore(l)
Others == World \/ StopClear \/ Resume \/ ResetHistory \/ \E l \in Links : Ends(l)

LEMMA OtherTyped ==
  ASSUME Typed, Others
  PROVE  Typed'
<1> USE DEF Typed, ImportOK, CheckOK, RetryOK, StoreOK, store, Aside, Stays
<1>1. CASE StopClear
  BY <1>1 DEF StopClear, TriggerOK, CloudOK
<1>2. CASE Resume
  BY <1>2 DEF Resume, TriggerOK, CloudOK, NoTrigger, Looking, extraction
<1>3. CASE World
  BY <1>3 DEF World, RemoteEnds, Appears, PushedOut, ComesBack, TriggerOK, CloudOK, RemoteStates, extraction
<1>4. CASE ResetHistory
  BY <1>4 DEF ResetHistory, TriggerOK, CloudOK
<1>5. ASSUME NEW l \in Links, Ends(l)
      PROVE  Typed'
  <2>1. UNCHANGED <<remote, beyond, store, txt, import, check, retry, trigger>>
    BY <1>5 DEF Ends, ExtractionEnds, DownloadEnds, RetryCloud, Cancel, Ignore, Unignore
  <2>2. visible' \subseteq Links /\ taken' \subseteq Links
    BY <1>5 DEF Ends, ExtractionEnds, DownloadEnds, RetryCloud, Cancel, Ignore, Unignore, CloudOK, Leaves
  <2>3. job' \subseteq Links /\ done' \subseteq Links /\ fallback' \subseteq Links /\ ignored' \subseteq Links
    BY <1>5 DEF Ends, ExtractionEnds, DownloadEnds, RetryCloud, Cancel, Ignore, Unignore, CloudOK, Leaves,
                Recorded115, Begins
  <2> QED
    BY <2>1, <2>2, <2>3 DEF CloudOK, TriggerOK
<1> QED
  BY <1>1, <1>2, <1>3, <1>4, <1>5 DEF Others

---------------------------------------------------------------------------
(* Links: what 115 was handed, the records, and the imports.               *)

LEMMA InitLinks == Init => LinksInv /\ BoundHanded(memory) /\ BoundHanded(disk) /\ Stoppable
<1> SUFFICES ASSUME Init PROVE LinksInv /\ BoundHanded(memory) /\ BoundHanded(disk) /\ Stoppable
  OBVIOUS
<1>1. \A l \in Links : memory.task[l] = NoTask /\ disk.task[l] = NoTask /\ remote[l] = "none"
  BY DEF Init
<1>2. import.at = "none" /\ import.todo = {} /\ Sent = {} /\ txt = "none" /\ retry = NoRetry
  BY DEF Init, NoImport, Sent
<1>3. BoundHanded(memory) /\ BoundHanded(disk)
  BY <1>1, OfflineAssumption DEF BoundHanded, OnRecord
<1>4. ImportApart /\ RetryKept /\ OnlyRetried /\ NoMore /\ TxtKept /\ AllOnRecord
  BY <1>1, <1>2 DEF ImportApart, RetryKept, OnlyRetried, NoMore, TxtKept, AllOnRecord, NoTask, OnRecord
<1>5. Stoppable
  BY DEF Init, Stoppable
<1> QED
  BY <1>3, <1>4, <1>5 DEF LinksInv

\* A step that writes the records there are, and hands 115 only links on record.
LEMMA QuietStep ==
  ASSUME LinksInv, ImportOK, NEW s, Writes(s) \/ UNCHANGED store, SameRecords(s),
         UNCHANGED <<txt, import, retry, history>>,
         \A l \in Links : remote'[l] # "none" => remote[l] # "none" \/ OnRecord(memory, l) \/ l \in cleared,
         retry # NoRetry => retry.link \in Links
  PROVE  LinksInv'
<1> USE DEF LinksInv
<1>0. UNCHANGED <<cleared, lost, unsaved>>
  BY DEF history
<1>1. \A l \in Links : /\ OnRecord(memory, l)' <=> OnRecord(memory, l)
                       /\ OnRecord(memory, l) => memory'.task[l].batch = memory.task[l].batch
                       /\ memory'.task[l].status = "submitting" => memory.task[l].status = "submitting"
  BY DEF Writes, SameRecords, OnRecord, store
<1>2. \A l \in Links : /\ OnRecord(disk, l)' => OnRecord(memory, l) \/ l \in cleared
                       /\ OnRecord(disk, l) => OnRecord(disk, l)' \/ l \in cleared
  BY DEF Writes, SameRecords, OnRecord, store, NoMore
<1>3. ImportApart'
  BY <1>1 DEF ImportApart, Sent, OnRecord, ImportOK, Imports
<1>4. RetryKept'
  BY <1>0, <1>1 DEF RetryKept, TasksOf, OnRecord
<1>5. NoMore'
  BY <1>0, <1>1, <1>2 DEF NoMore, OnRecord
<1>6. TxtKept'
  BY <1>0, <1>2, OfflineAssumption DEF TxtKept, Durable, Sent, OnRecord
<1>7. OnlyRetried'
  BY <1>0, <1>1 DEF OnlyRetried
<1>8. AllOnRecord'
  BY <1>0, <1>1 DEF AllOnRecord, Sent, OnRecord
<1> QED
  BY <1>3, <1>4, <1>5, <1>6, <1>7, <1>8

\* The link of a retry is a link.
LEMMA RetryLink ==
  ASSUME RetryOK, retry # NoRetry
  PROVE  retry.link \in Links /\ retry.batch \in Batches
  BY DEF RetryOK, Sending, Answered

LEMMA NothingWritten == SameRecords(memory) /\ SameBound(memory)
  BY DEF SameRecords, SameBound

\* All that archives on their way may do is to go on.
WayKept == \A l \in Links : OnItsWay(l) => OnItsWay(l)'

LEMMA StaysOnItsWay ==
  ASSUME BoundHanded(memory), BoundHanded(disk), WayKept, NEW s, Writes(s) \/ UNCHANGED store,
         SameBound(s)
  PROVE  BoundHanded(memory)' /\ BoundHanded(disk)'
<1>1. \A a \in Archives : a \in Links
  BY OfflineAssumption
<1>2. \A a \in Archives : OnRecord(memory, a)' /\ memory'.task[a].bound => OnItsWay(a)'
  BY <1>1 DEF Writes, store, SameBound, BoundHanded, WayKept, OnRecord
<1>3. \A a \in Archives : OnRecord(disk, a)' /\ disk'.task[a].bound => OnItsWay(a)'
  BY <1>1 DEF Writes, store, SameBound, BoundHanded, WayKept, OnRecord
<1> QED
  BY <1>2, <1>3 DEF BoundHanded, OnRecord

\* A step elsewhere.
LEMMA WayUnchanged ==
  ASSUME Stoppable, UNCHANGED <<extraction, trigger, paused>>
  PROVE  WayKept /\ Stoppable'
  BY DEF WayKept, OnItsWay, Queued, Stoppable, extraction

Preserved == LinksInv' /\ BoundHanded(memory)' /\ BoundHanded(disk)' /\ Stoppable'

LEMMA ImportKeeps ==
  ASSUME IInv, Importing \/ NoDateFolder \/ TxtArrives \/ ImportsPage
  PROVE  Preserved
<1> USE DEF IInv, Typed, LinksInv
<1>1. ASSUME NEW links \in SUBSET Links, NEW isTxt \in BOOLEAN, NEW auto \in BOOLEAN,
             Import(links, isTxt, auto), UNCHANGED txt, isTxt => links = TxtLinks /\ txt = "inbox"
      PROVE  Preserved
  <2>1. /\ import'.at = "send" /\ import'.txt = isTxt
        /\ import'.todo = {l \in links : ~OnRecord(memory, l)} /\ Sent' = {}
    BY <1>1 DEF Import, NoImport, Sent
  <2>2. /\ UNCHANGED <<remote, memory, disk, retry, cleared, lost, txt>>
        /\ unsaved' = IF isTxt THEN {l \in links : OnRecord(memory, l) /\ ~OnRecord(disk, l)} ELSE unsaved
        /\ UNCHANGED <<extraction, trigger, paused>> /\ UNCHANGED store
    BY <1>1 DEF Import, store, cloud, history
  <2>3. Sent = {}
    BY <1>1 DEF Import, NoImport, Sent
  <2>4. ImportApart' /\ AllOnRecord'
    BY <1>1, <2>1, <2>2, <2>3, OfflineAssumption DEF ImportApart, AllOnRecord, OnRecord
  <2>6. TxtKept'
    BY <1>1, <2>1, <2>2, <2>3, OfflineAssumption DEF TxtKept, Durable, OnRecord
  <2>5. RetryKept' /\ OnlyRetried' /\ NoMore'
    BY <2>2 DEF RetryKept, OnlyRetried, NoMore, TasksOf, OnRecord
  <2> QED
    BY <2>2, <2>4, <2>5, <2>6, WayUnchanged, NothingWritten, StaysOnItsWay DEF Preserved
<1>2. CASE ImportTxt
  BY <1>1, <1>2, OfflineAssumption DEF ImportTxt
<1>3. CASE ImportsPage
  BY <1>1, <1>3 DEF ImportsPage, ImportPage
<1>4. CASE NoDateFolder \/ TxtArrives
  <2>1. /\ UNCHANGED <<remote, memory, disk, retry, cleared, lost, unsaved, import>> /\ txt' # "done"
        /\ UNCHANGED <<extraction, trigger, paused>> /\ UNCHANGED store
    BY <1>4 DEF NoDateFolder, TxtArrives, store, cloud, history
  <2>2. LinksInv'
    BY <2>1 DEF ImportApart, TxtKept, AllOnRecord, RetryKept, OnlyRetried, NoMore, TasksOf,
                Durable, OnRecord, Sent
  <2> QED
    BY <2>1, <2>2, WayUnchanged, NothingWritten, StaysOnItsWay DEF Preserved
<1>5. CASE ImportSends
  <2>1. PICK S \in SUBSET import.todo, ok \in BOOLEAN :
          /\ Submits(S, ok)
          /\ import' = [import EXCEPT !.todo = @ \ S,
                                      !.sent = [l \in Links |-> IF l \notin S THEN @[l]
                                                                ELSE IF ok THEN "submitted" ELSE "submit_failed"]]
    BY <1>5 DEF ImportSends
  <2>2. /\ UNCHANGED <<memory, disk, retry, cleared, lost, unsaved, txt>> /\ import.at = "send"
        /\ UNCHANGED <<extraction, trigger, paused>> /\ UNCHANGED store
    BY <1>5 DEF ImportSends, store, history
  <2>3. S \in SUBSET Links
    BY DEF ImportOK, Imports
  <2>4. /\ import'.at = "send" /\ import'.txt = import.txt /\ import'.todo = import.todo \ S
        /\ Sent' = Sent \cup S
    BY <2>1, <2>2, <2>3 DEF Sent, ImportOK, Imports
  <2>5. \A l \in Links : remote'[l] # "none" => remote[l] # "none" \/ l \in S
    BY <2>1 DEF Submits, Handed, CloudOK
  <2>6. ImportApart' /\ AllOnRecord'
    BY <2>2, <2>4, <2>5 DEF ImportApart, AllOnRecord, OnRecord
  <2>7. TxtKept'
    BY <2>2, <2>4 DEF TxtKept, Durable, OnRecord
  <2>8. RetryKept' /\ OnlyRetried' /\ NoMore'
    BY <2>2 DEF RetryKept, OnlyRetried, NoMore, TasksOf, OnRecord
  <2>9. BoundHanded(memory)' /\ BoundHanded(disk)' /\ Stoppable'
    BY <2>2, WayUnchanged, NothingWritten, StaysOnItsWay
  <2> HIDE DEF IInv, Typed
  <2> QED
    BY <2>6, <2>7, <2>8, <2>9 DEF Preserved
<1>6. CASE TxtFiled
  <2>1. /\ UNCHANGED <<remote, memory, disk, retry, cleared, lost, unsaved>> /\ txt' \in {txt, import.at}
        /\ UNCHANGED <<extraction, trigger, paused>> /\ UNCHANGED store /\ import.at # "send"
    BY <1>6 DEF TxtFiled, store, cloud, history
  <2>2. import'.at = "none" /\ import'.todo = {} /\ Sent' = {} /\ Sent = {}
    BY <1>6, <2>1 DEF TxtFiled, NoImport, Sent, ImportApart
  <2>3. ImportApart' /\ TxtKept' /\ AllOnRecord'
    BY <2>1, <2>2 DEF ImportApart, TxtKept, AllOnRecord, Durable, OnRecord
  <2>4. RetryKept' /\ OnlyRetried' /\ NoMore'
    BY <2>1 DEF RetryKept, OnlyRetried, NoMore, TasksOf, OnRecord
  <2> QED
    BY <2>1, <2>3, <2>4, WayUnchanged, NothingWritten, StaysOnItsWay DEF Preserved
<1>7. CASE ImportSaves
  <2>1. /\ UNCHANGED <<remote, retry, txt>> /\ UNCHANGED <<extraction, trigger, paused>>
        /\ import.at = "send" /\ import.todo = {}
    BY <1>7 DEF ImportSaves, cloud
  <2>2. import'.at \in {"none", "done", "partial"} /\ import'.todo = {} /\ Sent' = {}
    <3>1. \/ import' = NoImport
          \/ import' = [NoImport EXCEPT !.at = "done"]
          \/ import' = [NoImport EXCEPT !.at = "partial"]
      BY <1>7 DEF ImportSaves, ImportEnds
    <3> QED
      BY <3>1 DEF NoImport, Sent
  <2>3. import'.at = "done" => import.txt
    BY <1>7 DEF ImportSaves, ImportEnds, NoImport
  <2>4. CASE Sent = {}
    <3>1. UNCHANGED <<memory, disk, cleared, lost, unsaved>> /\ UNCHANGED store
      BY <1>7, <2>4 DEF ImportSaves, store, history
    <3>2. ImportApart' /\ TxtKept' /\ AllOnRecord'
      BY <2>1, <2>2, <2>3, <2>4, <3>1 DEF ImportApart, TxtKept, AllOnRecord, Durable, OnRecord
    <3>3. RetryKept' /\ OnlyRetried' /\ NoMore'
      BY <2>1, <3>1 DEF RetryKept, OnlyRetried, NoMore, TasksOf, OnRecord
    <3> QED
      BY <2>1, <3>1, <3>2, <3>3, WayUnchanged, NothingWritten, StaysOnItsWay DEF Preserved
  <2>5. CASE Sent # {}
    <3>1. PICK b \in Batches :
            \/ Saves(Recorded(b)) /\ Renewed
            \/ SaveFails(Recorded(b)) /\ import'.at # "done" /\ UNCHANGED <<cleared, lost, unsaved>>
      BY <1>7, <2>5 DEF ImportSaves, ImportEnds, NoImport, history
    <3> DEFINE s == Recorded(b)
    <3>2. \A l \in Links : IF l \in Sent THEN OnRecord(s, l) /\ s.task[l].status # "submitting" /\ ~s.task[l].bound
                           ELSE s.task[l] = memory.task[l]
      BY RecordedStore DEF StoreOK, ImportOK
    <3> HIDE DEF s
    <3>3. memory' = s /\ Writes(s)
      BY <3>1, SavesWrites DEF Saves, SaveFails, s
    <3>4. \A l \in Links : OnRecord(memory, l)' <=> OnRecord(memory, l) \/ l \in Sent
      BY <3>2, <3>3 DEF OnRecord
    <3>5. /\ cleared \ Sent \subseteq cleared' /\ lost \ Sent \subseteq lost' /\ UNCHANGED unsaved
          /\ \A l \in Links : OnRecord(disk, l)' => OnRecord(memory, l)' \/ l \in cleared'
          /\ \A l \in Links : Durable(l) => Durable(l)'
          /\ import'.at = "done" => \A l \in Sent : OnRecord(disk, l)'
      <4>1. CASE Saves(s) /\ Renewed
        <5>1. disk' = memory'
          BY <4>1 DEF Saves
        <5>2. cleared' = cleared \ Sent /\ lost' = lost \ Sent /\ UNCHANGED unsaved
          BY <4>1 DEF Renewed
        <5>3. \A l \in Links : OnRecord(disk, l)' <=> OnRecord(memory, l) \/ l \in Sent
          BY <3>4, <5>1 DEF OnRecord
        <5>4. Sent \subseteq Links
          BY DEF Sent
        <5> QED
          BY <3>4, <5>1, <5>2, <5>3, <5>4 DEF NoMore, Durable, OnRecord
      <4>2. CASE SaveFails(s) /\ import'.at # "done" /\ UNCHANGED <<cleared, lost, unsaved>>
        BY <3>4, <4>2 DEF SaveFails, NoMore, Durable, OnRecord
      <4> QED
        BY <3>1, <4>1, <4>2 DEF s
    <3>6. ImportApart' /\ AllOnRecord' /\ NoMore'
      BY <2>1, <2>2, <3>4, <3>5 DEF ImportApart, AllOnRecord, NoMore, OnRecord
    <3>7. TxtKept'
      BY <2>1, <2>2, <2>3, <3>5, OfflineAssumption DEF TxtKept, Durable
    <3>8. RetryKept' /\ OnlyRetried'
      <4>1. \A l \in Sent : ~OnRecord(memory, l)
        BY DEF ImportApart
      <4>2. \A l \in Links : OnRecord(memory, l) => memory'.task[l] = memory.task[l]
        BY <3>2, <3>3, <4>1
      <4>3. \A l \in Links : memory'.task[l].status = "submitting" => memory.task[l].status = "submitting"
        BY <3>2, <3>3
      <4>4. \A l \in Sent : memory'.task[l].status # "submitting"
        BY <3>2, <3>3 DEF Sent
      <4>5. RetryKept'
        BY <2>1, <3>4, <3>5, <4>2, <4>3, <4>4, RetryLink DEF RetryKept, TasksOf, OnRecord
      <4> QED
        BY <2>1, <3>5, <4>3, <4>4, <4>5 DEF OnlyRetried
    <3>9. SameBound(s)
      BY <3>2, OfflineAssumption DEF SameBound, OnRecord
    <3> QED
      BY <2>1, <3>3, <3>6, <3>7, <3>8, <3>9, WayUnchanged, StaysOnItsWay DEF Preserved
  <2> QED
    BY <2>4, <2>5
<1> QED
  BY <1>2, <1>3, <1>4, <1>5, <1>6, <1>7 DEF Importing

LEMMA CheckKeeps ==
  ASSUME IInv, Applies \/ \E b \in Batches : CheckDue(b) \/ CheckAsked(b)
  PROVE  Preserved
<1> USE DEF IInv, Typed
<1>1. ASSUME NEW b \in Batches, Fetches(b)
      PROVE  Preserved
  <2>1. UNCHANGED <<remote, txt, import, retry, history>> /\ UNCHANGED store /\ UNCHANGED <<extraction, trigger, paused>>
    BY <1>1 DEF Fetches, cloud
  <2> QED
    BY <2>1, QuietStep, RetryLink, NothingWritten, WayUnchanged, StaysOnItsWay DEF Preserved
<1>2. CASE Applies
  <2> DEFINE b == check.batch
  <2>1. check \in Listings \cup NoListings
    BY <1>2 DEF Applies, CheckOK, NoCheck
  <2>2. b \in Batches
    BY <2>1 DEF Listings, NoListings
  <2>3. UNCHANGED <<remote, txt, import, retry, history>> /\ UNCHANGED <<extraction, paused>>
    BY <1>2 DEF Applies, cloud
  <2>4. UNCHANGED store \/ Writes(Refreshed(b))
    BY <1>2, SavesWrites DEF Applies
  <2>5. SameRecords(Refreshed(b)) /\ SameBound(Refreshed(b))
    BY <2>1, <2>2, RefreshedStore DEF StoreOK
  <2>6. WayKept /\ Stoppable'
    <3>1. trigger' = trigger \/ (trigger[b] = NoTrigger /\ trigger' = [trigger EXCEPT ![b].at = "ask"])
      BY <1>2 DEF Applies
    <3>2. \A c \in Batches : trigger[c].at = "queue" => trigger'[c] = trigger[c]
      BY <2>2, <3>1 DEF TriggerOK, NoTrigger
    <3> QED
      BY <2>3, <3>2 DEF WayKept, OnItsWay, Queued, Stoppable, extraction
  <2> QED
    BY <2>3, <2>4, <2>5, <2>6, QuietStep, RetryLink, StaysOnItsWay DEF Preserved
<1> QED
  BY <1>1, <1>2 DEF CheckDue, CheckAsked

LEMMA RetryStartsKeeps ==
  ASSUME IInv, NEW l \in Links, RetryStarts(l)
  PROVE  Preserved
<1> USE DEF IInv, Typed, LinksInv
<1>1. /\ memory.task[l].status \in {"failed", "submit_failed"} /\ OnRecord(memory, l) /\ retry = NoRetry
      /\ retry'.link = l /\ retry'.batch = memory.task[l].batch
      /\ UNCHANGED <<remote, disk, txt, import, cleared, lost, unsaved>> /\ UNCHANGED <<extraction, trigger, paused>>
  BY DEF RetryStarts, Is, OnRecord, NoTask, cloud, history
<1>2. /\ \A a \in Links : /\ OnRecord(memory, a)' <=> OnRecord(memory, a)
                          /\ OnRecord(memory, a) => memory'.task[a].batch = memory.task[a].batch
                          /\ memory'.task[a].bound = memory.task[a].bound
                          /\ a # l => memory'.task[a] = memory.task[a]
  <2> DEFINE status == "submitting"
  <2>1. memory \in Stores /\ OnRecord(memory, l) /\ status \in Statuses
    BY <1>1 DEF StoreOK, Statuses
  <2>2. memory' = [memory EXCEPT !.task[l].status = status]
    BY Zenon DEF RetryStarts
  <2> HIDE DEF status
  <2>3. \A a \in Links : /\ OnRecord(memory', a) <=> OnRecord(memory, a)
                         /\ OnRecord(memory', a) => memory'.task[a].batch = memory.task[a].batch
                         /\ memory'.task[a].bound = memory.task[a].bound
                         /\ a # l => memory'.task[a] = memory.task[a]
    BY <2>1, <2>2, RetriedStore
  <2> QED
    BY <2>3 DEF OnRecord
<1>3. ImportApart' /\ NoMore' /\ TxtKept' /\ AllOnRecord'
  BY <1>1, <1>2, OfflineAssumption
     DEF ImportApart, NoMore, TxtKept, Durable, AllOnRecord, Sent, OnRecord, ImportOK, Imports
<1>4. retry' # NoRetry
  BY DEF RetryStarts, NoRetry
<1>5. RetryKept'
  BY <1>1, <1>2 DEF RetryKept, TasksOf, OnRecord
<1>6. OnlyRetried'
  BY <1>1, <1>2, <1>4 DEF OnlyRetried
<1>7. Writes(memory') /\ SameBound(memory')
  BY <1>1, <1>2, OfflineAssumption DEF Writes, SameBound, OnRecord
<1> QED
  BY <1>1, <1>3, <1>5, <1>6, <1>7, WayUnchanged, StaysOnItsWay DEF Preserved

LEMMA RetrySendsKeeps ==
  ASSUME IInv, RetrySends
  PROVE  Preserved
<1> USE DEF IInv, Typed, LinksInv
<1>1. retry \in Sending
  BY DEF RetrySends, RetryOK, NoRetry, Answered
<1>2. /\ retry # NoRetry /\ retry' # NoRetry
      /\ retry'.link = retry.link /\ retry'.batch = retry.batch /\ retry.link \in Links
  BY <1>1 DEF RetrySends, Sending, NoRetry
<1>3. /\ UNCHANGED <<memory, disk, txt, import, cleared, lost, unsaved>>
      /\ UNCHANGED store /\ UNCHANGED <<extraction, trigger, paused>>
  BY DEF RetrySends, store, history
<1>4. \A l \in Links : remote'[l] # "none" => remote[l] # "none" \/ l = retry.link
  BY DEF RetrySends, Submits, Handed, CloudOK
<1>5. OnRecord(memory, retry.link) \/ retry.link \in cleared
  BY <1>2 DEF RetryKept
<1>6. ImportApart' /\ NoMore' /\ TxtKept' /\ AllOnRecord'
  BY <1>3, <1>4, <1>5 DEF ImportApart, NoMore, TxtKept, Durable, AllOnRecord, Sent, OnRecord
<1>7. RetryKept' /\ OnlyRetried'
  BY <1>2, <1>3 DEF RetryKept, OnlyRetried, TasksOf, OnRecord
<1> QED
  BY <1>3, <1>6, <1>7, NothingWritten, WayUnchanged, StaysOnItsWay DEF Preserved

LEMMA RetryEndsKeeps ==
  ASSUME IInv, RetryEnds
  PROVE  Preserved
<1> USE DEF IInv, Typed, LinksInv
<1> DEFINE l == retry.link
           b == retry.batch
           t == IF l \in TasksOf(b) THEN [memory.task EXCEPT ![l].status = retry.status] ELSE memory.task
           c == IF retry.status = "submitted" THEN [memory.batch EXCEPT ![b].due = TRUE] ELSE memory.batch
           s == [task |-> t, batch |-> c]
<1>1. retry \in Answered
  BY DEF RetryEnds, RetryOK, NoRetry, Sending
<1>2. retry # NoRetry /\ l \in Links /\ b \in Batches /\ retry.status \in {"submitted", "failed", "submit_failed"}
  BY <1>1 DEF Answered, NoRetry
<1>3. retry' = NoRetry /\ UNCHANGED <<remote, txt, import, cleared, lost, unsaved>> /\ UNCHANGED <<extraction, trigger, paused>>
  BY DEF RetryEnds, cloud, history
<1>4. (TasksOf(b) = {} /\ UNCHANGED store) \/ Saves(s) \/ SaveFails(s)
  BY DEF RetryEnds
<1>5. l \in TasksOf(b) => memory.task[l] \in Tasks
  BY <1>2, StoreParts DEF TasksOf, StoreOK
<1>6. memory.task \in [Links -> Tasks \cup {NoTask}]
  BY StoreParts DEF StoreOK
<1>7. ASSUME NEW a \in Links
      PROVE  /\ t[a] # NoTask <=> memory.task[a] # NoTask
             /\ t[a].batch = memory.task[a].batch /\ t[a].bound = memory.task[a].bound
             /\ t[a].status = IF a = l /\ l \in TasksOf(b) THEN retry.status ELSE memory.task[a].status
  <2>1. CASE a = l /\ l \in TasksOf(b)
    <3> DEFINE task == [memory.task[l] EXCEPT !.status = retry.status]
    <3>1. t[a] = task
      BY <1>6, <2>1
    <3>2. task \in Tasks /\ task.batch = memory.task[l].batch /\ task.bound = memory.task[l].bound
          /\ task.status = retry.status
      BY <1>2, <1>5, <2>1 DEF Tasks, Statuses
    <3> HIDE DEF task, t
    <3> QED
      BY <1>5, <2>1, <3>1, <3>2, TaskIsOnRecord
  <2>2. CASE ~(a = l /\ l \in TasksOf(b))
    <3>1. t[a] = memory.task[a]
      BY <1>6, <2>2
    <3> HIDE DEF t
    <3> QED
      BY <2>2, <3>1
  <2> QED
    BY <2>1, <2>2
<1>8. s.task = t
  OBVIOUS
<1> HIDE DEF s, t, c
<1>9. Writes(s) \/ UNCHANGED store
  BY <1>4, SavesWrites
<1>10. SameRecords(s)
  BY <1>2, <1>7, <1>8 DEF SameRecords, OnRecord
<1>11. SameBound(s)
  BY <1>7, <1>8, OfflineAssumption DEF SameBound, OnRecord
<1>12. /\ \A a \in Links : OnRecord(memory, a)' <=> OnRecord(memory, a)
       /\ \A a \in Links : /\ OnRecord(disk, a)' => OnRecord(memory, a) \/ a \in cleared
                           /\ OnRecord(disk, a) => OnRecord(disk, a)' \/ a \in cleared
  BY <1>9, <1>10 DEF Writes, SameRecords, NoMore, OnRecord, store
<1>13. ImportApart' /\ NoMore' /\ TxtKept' /\ AllOnRecord'
  BY <1>3, <1>12, OfflineAssumption
     DEF ImportApart, NoMore, TxtKept, Durable, AllOnRecord, Sent, OnRecord, ImportOK, Imports
<1>14. RetryKept'
  BY <1>3 DEF RetryKept
<1>15. OnlyRetried'
  <2> SUFFICES ASSUME NEW a \in Links, memory'.task[a].status = "submitting"
               PROVE  a \in lost
    BY <1>3 DEF OnlyRetried
  <2>1. memory.task[a].status = "submitting"
    BY <1>9, <1>10 DEF Writes, SameRecords, store
  <2>2. CASE a = l
    <3>1. l \in TasksOf(b)
      BY <1>2, <2>1, <2>2 DEF RetryKept
    <3> QED
      BY <1>2, <1>4, <1>7, <1>8, <2>2, <3>1 DEF Saves, SaveFails
  <2> QED
    BY <2>1, <2>2 DEF OnlyRetried
<1> QED
  BY <1>3, <1>9, <1>11, <1>13, <1>14, <1>15, WayUnchanged, StaysOnItsWay DEF Preserved

---------------------------------------------------------------------------
(* Archives on their way to the cloud extraction.                          *)

LEMMA TriggerKeeps ==
  ASSUME IInv, NEW b \in Batches, Triggered(b)
  PROVE  Preserved
<1> USE DEF IInv, Typed
<1>1. UNCHANGED <<remote, txt, import, retry, history>>
  BY DEF Triggered, TriggerLists, TriggerQueues, TriggerEnds, TriggerBinds, cloud
<1>2. ASSUME trigger[b].at # "queue", \A c \in Batches \ {b} : trigger'[c] = trigger[c],
             UNCHANGED <<extraction, paused>>
      PROVE  WayKept /\ Stoppable'
  BY <1>2 DEF WayKept, OnItsWay, Queued, Stoppable, extraction
<1>3. CASE TriggerLists(b)
  <2>1. UNCHANGED store /\ UNCHANGED <<extraction, paused>> /\ trigger[b].at # "queue"
    BY <1>3 DEF TriggerLists
  <2>2. \A c \in Batches \ {b} : trigger'[c] = trigger[c]
    BY <1>3 DEF TriggerLists, TriggerOK
  <2> QED
    BY <1>1, <1>2, <2>1, <2>2, QuietStep, RetryLink, NothingWritten, StaysOnItsWay DEF Preserved
<1>4. CASE TriggerQueues(b)
  <2> DEFINE l == trigger[b].file
  <2>1. /\ UNCHANGED store /\ UNCHANGED <<done, fallback, ignored, paused>>
        /\ \/ l \in job /\ UNCHANGED <<job, withdrawn>>
           \/ Begins(l)
    BY <1>4 DEF TriggerQueues
  <2>2. \A c \in Batches \ {b} : trigger'[c] = trigger[c]
    BY <1>4 DEF TriggerQueues, TriggerOK
  <2>3. \A a \in Queued : a \in Queued' \/ a = l
    BY <2>2 DEF Queued
  <2> HIDE DEF l
  <2>4. WayKept
    BY <2>1, <2>3 DEF WayKept, OnItsWay, Begins
  <2>5. Stoppable'
    BY <2>1 DEF Stoppable, Begins
  <2> QED
    BY <1>1, <2>1, <2>4, <2>5, QuietStep, RetryLink, NothingWritten, StaysOnItsWay DEF Preserved
<1>5. CASE TriggerEnds(b)
  <2>1. UNCHANGED <<extraction, paused>> /\ trigger[b].at # "queue" /\ (Writes(memory) \/ UNCHANGED store)
    BY <1>5, SavesWrites DEF TriggerEnds
  <2>2. \A c \in Batches \ {b} : trigger'[c] = trigger[c]
    BY <1>5 DEF TriggerEnds, TriggerOK
  <2> QED
    BY <1>1, <1>2, <2>1, <2>2, QuietStep, RetryLink, NothingWritten, StaysOnItsWay DEF Preserved
<1>6. ASSUME NEW l \in Links, TriggerBinds(b, l)
      PROVE  Preserved
  <2>1. UNCHANGED <<extraction, paused>> /\ trigger[b].at # "queue"
        /\ (Writes(Bound(b, l)) \/ UNCHANGED store)
    BY <1>6, SavesWrites DEF TriggerBinds
  <2>2. \A c \in Batches \ {b} : trigger'[c] = trigger[c]
    BY <1>6 DEF TriggerBinds, TriggerOK
  <2>3. WayKept /\ Stoppable'
    BY <1>2, <2>1, <2>2
  <2>4. SameRecords(Bound(b, l)) /\ \A a \in Links \ {l} : Bound(b, l).task[a] = memory.task[a]
    BY BoundStore DEF StoreOK
  <2>5. LinksInv'
    BY <1>1, <2>1, <2>4, QuietStep, RetryLink
  <2>6. OnItsWay(l)'
    <3>1. CASE l \in done \cup fallback
      BY <2>1, <3>1 DEF OnItsWay, extraction
    <3>2. CASE l \notin done \cup fallback
      <4>1. trigger'[b] = [at |-> "queue", files |-> trigger[b].files, file |-> l]
        BY <1>6, <3>2 DEF TriggerBinds, TriggerOK
      <4> QED
        BY <4>1 DEF OnItsWay, Queued
    <3> QED
      BY <3>1, <3>2
  <2>7. BoundHanded(memory)' /\ BoundHanded(disk)'
    <3>1. ASSUME NEW a \in Archives, a # l
          PROVE  /\ OnRecord(memory, a)' /\ memory'.task[a].bound => OnItsWay(a)'
                 /\ OnRecord(disk, a)' /\ disk'.task[a].bound => OnItsWay(a)'
      <4>1. a \in Links /\ memory'.task[a] = memory.task[a] /\ disk'.task[a] \in {disk.task[a], memory.task[a]}
        BY <2>1, <2>4, <3>1, OfflineAssumption DEF Writes, store
      <4> QED
        BY <2>3, <4>1 DEF BoundHanded, OnRecord, WayKept
    <3> QED
      BY <2>6, <3>1 DEF BoundHanded, OnRecord
  <2> QED
    BY <2>3, <2>5, <2>7 DEF Preserved
<1> QED
  BY <1>3, <1>4, <1>5, <1>6 DEF Triggered

LEMMA ClearKeeps ==
  ASSUME IInv, NEW S \in SUBSET Links, Clear(S)
  PROVE  Preserved
<1> USE DEF IInv, Typed, LinksInv
<1>1. /\ Writes(Without(S)) /\ cleared' = cleared \cup S /\ UNCHANGED <<lost, unsaved>>
      /\ UNCHANGED <<remote, txt, import, retry>> /\ UNCHANGED <<extraction, trigger, paused>>
  BY DEF Clear, Writes, cloud
<1>2. \A l \in Links : Without(S).task[l] = IF l \in S THEN NoTask ELSE memory.task[l]
  BY WithoutStore DEF StoreOK
<1>3. /\ \A l \in Links \ S : memory'.task[l] = memory.task[l]
      /\ \A l \in S : memory'.task[l] = NoTask
      /\ \A l \in Links \ S : disk'.task[l] \in {disk.task[l], memory.task[l]}
  BY <1>1, <1>2 DEF Writes
<1>4. ImportApart' /\ NoMore' /\ AllOnRecord'
  BY <1>1, <1>3 DEF ImportApart, NoMore, AllOnRecord, Sent, OnRecord, ImportOK, Imports
<1>8. TxtKept'
  <2>1. ASSUME NEW l \in Links, Durable(l)
        PROVE  Durable(l)'
    BY <1>1, <1>3, <2>1 DEF Durable, NoMore, OnRecord
  <2> QED
    BY <1>1, <2>1, OfflineAssumption DEF TxtKept, Sent
<1>5. RetryKept'
  BY <1>1, <1>3, RetryLink DEF RetryKept, TasksOf, OnRecord, NoTask
<1>6. OnlyRetried'
  BY <1>1, <1>3 DEF OnlyRetried, NoTask
<1>7. SameBound(Without(S))
  BY <1>2, OfflineAssumption DEF SameBound, OnRecord
<1> QED
  BY <1>1, <1>4, <1>5, <1>6, <1>7, <1>8, WayUnchanged, StaysOnItsWay DEF Preserved

LEMMA CrashKeeps ==
  ASSUME IInv, Crash
  PROVE  Preserved
<1> USE DEF IInv, Typed, LinksInv
<1>1. /\ memory' = disk /\ UNCHANGED <<remote, disk, txt, done, fallback, cleared, unsaved>> /\ retry' = NoRetry
      /\ import' = NoImport /\ job' = {}
      /\ withdrawn' = withdrawn \cup job \cup Queued
      /\ lost' = lost \cup Sent \cup {l \in Links : OnRecord(memory, l) /\ ~OnRecord(disk, l)}
                      \cup {l \in Links : disk.task[l].status = "submitting"}
  BY DEF Crash, cloud
<1>2. import'.at = "none" /\ import'.todo = {} /\ Sent' = {}
  BY <1>1 DEF NoImport, Sent
<1>3. ImportApart' /\ NoMore'
  BY <1>1, <1>2 DEF ImportApart, NoMore, OnRecord
<1>4. TxtKept'
  BY <1>1, <1>2, OfflineAssumption DEF TxtKept, Durable, OnRecord
<1>8. AllOnRecord'
  BY <1>1, <1>2 DEF AllOnRecord, OnRecord
<1>5. RetryKept' /\ OnlyRetried'
  BY <1>1 DEF RetryKept, OnlyRetried
<1>6. WayKept /\ Stoppable'
  BY <1>1 DEF WayKept, OnItsWay, Stoppable
<1>7. BoundHanded(memory)' /\ BoundHanded(disk)'
  BY <1>1, <1>6, OfflineAssumption DEF BoundHanded, WayKept, OnRecord
<1> QED
  BY <1>3, <1>4, <1>5, <1>6, <1>7, <1>8 DEF Preserved

\* What ends without a record was withdrawn, and what was on record goes on, or is
\* withdrawn.
LEMMA EndsKeep ==
  ASSUME NEW l \in Links, Ends(l), Stoppable
  PROVE  WayKept /\ Stoppable'
<1>1. CASE ExtractionEnds(l)
  BY <1>1 DEF ExtractionEnds, WayKept, OnItsWay, Queued, Stoppable
<1>2. CASE DownloadEnds(l) \/ Cancel(l) \/ Unignore(l)
  BY <1>2 DEF DownloadEnds, Cancel, Unignore, Recorded115, WayKept, OnItsWay, Queued, Stoppable
<1>3. CASE RetryCloud(l)
  BY <1>3 DEF RetryCloud, Begins, WayKept, OnItsWay, Queued, Stoppable
<1>4. CASE Ignore(l)
  BY <1>4 DEF Ignore, WayKept, OnItsWay, Queued, Stoppable
<1> QED
  BY <1>1, <1>2, <1>3, <1>4 DEF Ends

LEMMA OtherKeeps ==
  ASSUME IInv, Others
  PROVE  Preserved
<1> USE DEF IInv, Typed
<1>1. UNCHANGED <<txt, import, retry, history>> /\ UNCHANGED store
      /\ \A l \in Links : remote'[l] # "none" => remote[l] # "none"
  BY DEF Others, World, Ends, StopClear, Resume, ResetHistory, RemoteEnds, Appears, PushedOut, ComesBack,
         ExtractionEnds, DownloadEnds, RetryCloud, Cancel, Ignore, Unignore, Aside, CloudOK
<1>2. WayKept /\ Stoppable'
  <2>1. CASE StopClear
    BY <2>1 DEF StopClear, WayKept, OnItsWay, Queued, Stoppable
  <2>2. CASE ResetHistory
    BY <2>2 DEF ResetHistory, WayKept, OnItsWay, Queued, Stoppable
  <2>3. CASE Resume
    <3>1. \A b \in Batches : trigger[b].at = "queue" => trigger'[b] = trigger[b]
      BY <2>3 DEF Resume, NoTrigger
    <3>2. Queued \subseteq Queued'
      BY <3>1 DEF Queued
    <3> QED
      BY <2>3, <3>2 DEF Resume, WayKept, OnItsWay, Stoppable, extraction
  <2>4. CASE World
    <3>1. UNCHANGED <<extraction, trigger, paused>>
      BY <2>4 DEF World, RemoteEnds, Appears, PushedOut, ComesBack
    <3> QED
      BY <3>1, WayUnchanged
  <2> QED
    BY <2>1, <2>2, <2>3, <2>4, EndsKeep DEF Others
<1> QED
  BY <1>1, <1>2, QuietStep, RetryLink, NothingWritten, StaysOnItsWay DEF Preserved

---------------------------------------------------------------------------
(* The invariant, and the theorems.                                        *)

LEMMA InitIInv == Init => IInv
  BY InitTyped, InitLinks DEF IInv

LEMMA NextIInv ==
  ASSUME IInv, [Next]_vars
  PROVE  IInv'
<1>1. CASE UNCHANGED vars
  <2>1. UNCHANGED <<remote, beyond, visible, taken, memory, disk, txt, import, check, retry, trigger, job, done,
                    fallback, ignored, withdrawn, paused, history>>
    BY <1>1 DEF vars, cloud, store, extraction
  <2>2. Typed'
    BY <2>1 DEF IInv, Typed, ImportOK, CheckOK, RetryOK, TriggerOK, StoreOK, CloudOK
  <2>3. Preserved
    BY <2>1, QuietStep, RetryLink, NothingWritten, WayUnchanged, StaysOnItsWay DEF Preserved, IInv, Typed, store, extraction
  <2> QED
    BY <2>2, <2>3 DEF IInv, Preserved, BoundHanded, OnRecord
<1>2. CASE Next
  <2>1. \/ Importing \/ NoDateFolder \/ TxtArrives \/ ImportsPage
        \/ Applies \/ \E b \in Batches : CheckDue(b) \/ CheckAsked(b)
        \/ RetrySends \/ RetryEnds \/ \E l \in Links : RetryStarts(l)
        \/ \E b \in Batches : Triggered(b)
        \/ ClearCompleted \/ ClearAll \/ \E l \in Links : ClearTask(l)
        \/ Crash
        \/ Others
    BY <1>2 DEF Next, User, Others, World, Ends, ImportsPage
  <2>2. Typed'
    BY <2>1, ImportingTyped, CheckTyped, RetryTyped, TriggerTyped, ClearsLinks, ClearTyped, CrashTyped,
       OtherTyped DEF IInv
  <2>3. Preserved
    BY <2>1, ImportKeeps, CheckKeeps, RetryStartsKeeps, RetrySendsKeeps, RetryEndsKeeps, TriggerKeeps,
       ClearsLinks, ClearKeeps, CrashKeeps, OtherKeeps
  <2> QED
    BY <2>2, <2>3 DEF IInv, Preserved, BoundHanded, OnRecord
<1> QED
  BY <1>1, <1>2

LEMMA InvariantAlways == Spec => []IInv
  BY InitIInv, NextIInv, PTL DEF Spec

\* The variables of the offline downloads have their types, and a task shows as
\* being submitted only while retry115OfflineTask is under way, a crash aside.
THEOREM TypeCorrect == Spec => []TypeOK
<1>1. IInv => TypeOK
  BY DEF IInv, Typed, ImportOK, StoreOK, CloudOK, LinksInv, OnlyRetried, TypeOK, RemoteStates
<1> QED
  BY <1>1, InvariantAlways, PTL

\* What import115OfflineLinks and retry115OfflineTask hand to 115 is on record,
\* or about to be.
THEOREM AllOnRecordAlways == Spec => []AllOnRecord
<1>1. IInv => AllOnRecord
  BY DEF IInv, LinksInv
<1> QED
  BY <1>1, InvariantAlways, PTL

\* finish115OfflineTXT files a text file as done only with its links on disk, and
\* they stay there, those aside that the user has cleared and those that the import
\* took for duplicates of records in memory alone.
THEOREM FiledDurablyAlways == Spec => []FiledDurably
<1>1. IInv => FiledDurably
  BY OfflineAssumption DEF IInv, LinksInv, TxtKept, Durable, FiledDurably
<1> QED
  BY <1>1, InvariantAlways, PTL

\* A task that bind115OfflineArchive has bound is in the hands of the cloud
\* extraction, or on record there, unless the user or a crash took it from there:
\* by a stop, an ignore or a reset.
THEOREM HandedOverAlways == Spec => []HandedOver
<1>1. IInv => HandedOver
  BY DEF IInv, BoundHanded, OnItsWay, HandedOver
<1> QED
  BY <1>1, InvariantAlways, PTL

===============================================================================
