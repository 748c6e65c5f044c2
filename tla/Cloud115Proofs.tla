---------------------------- MODULE Cloud115Proofs ----------------------------
(***************************************************************************)
(* What holds of the cloud extraction for any number of archives, pages,   *)
(* attempts and user actions, and any interleaving of scans, goroutines,   *)
(* users and crashes: the slot holds one archive and n115Running exactly   *)
(* those that are worked on; no archive counts as processed, or loses its  *)
(* source, before it was extracted; the types; and no retry in the cloud   *)
(* runs beside the download of its archive.                                *)
(***************************************************************************)
EXTENDS Cloud115, SequenceTheorems, TLAPS

Goroutines == [at : Steps, try : Nat, by : {"scan", "pending", "history"}]
JobsOK == job \in [Files -> Goroutines]
Outside == {"none", "queued"}

LEMMA NoJobIsGoroutine == NoJob \in Goroutines
  BY DEF NoJob, Goroutines, Steps

(***************************************************************************)
(* What a step of the goroutine of f does to its job and to n115Running:   *)
(* it stays in the slot, or it ends and gives both back.                   *)
(***************************************************************************)
StaysInSlot(f) ==
    /\ \E g \in Goroutines : g.at \notin Outside /\ job' = [job EXCEPT ![f] = g]
    /\ UNCHANGED running

StepInSlot(f) ==
    /\ job[f].at \notin Outside
    /\ StaysInSlot(f) \/ Ends(f)
    /\ UNCHANGED scan

LEMMA GoesStays ==
  ASSUME JobsOK, NEW f \in Files, NEW step \in Steps \ Outside, Goes(f, step), UNCHANGED running
  PROVE  StaysInSlot(f)
<1> DEFINE g == [job[f] EXCEPT !.at = step]
<1>1. g \in Goroutines /\ g.at = step
  BY DEF JobsOK, Goroutines
<1>2. job' = [job EXCEPT ![f] = g]
  BY DEF Goes
<1> QED
  BY <1>1, <1>2 DEF StaysInSlot

LEMMA WorkingInSlot ==
  ASSUME JobsOK, NEW f \in Files, Working(f)
  PROVE  StepInSlot(f)
<1> USE DEF At, Outside, Alone, scanner
<1>1. CASE Starts(f)
  <2>1. Ends(f) \/ (UNCHANGED running /\ \E step \in Steps \ Outside : Goes(f, step))
    BY <1>1 DEF Starts, Steps
  <2> QED
    BY <1>1, <2>1, GoesStays DEF Starts, StepInSlot
<1>2. CASE Lists(f)
  BY <1>2, GoesStays DEF Lists, StepInSlot, Steps
<1>3. CASE ListFails(f)
  BY <1>3 DEF ListFails, StepInSlot
<1>4. CASE Attempts(f)
  <2>1. CASE Ends(f)
    BY <1>4, <2>1 DEF Attempts, StepInSlot
  <2>2. CASE ~Ends(f)
    <3> DEFINE g == [at |-> "cloud", try |-> job[f].try + 1, by |-> job[f].by]
    <3>1. job[f].try \in Nat /\ job[f].by \in {"scan", "pending", "history"}
      BY DEF JobsOK, Goroutines
    <3>2. g \in Goroutines /\ g.at = "cloud"
      BY <3>1 DEF Goroutines, Steps
    <3>3. job' = [job EXCEPT ![f] = g] /\ UNCHANGED running
      BY <1>4, <2>2 DEF Attempts, JobsOK, Goroutines
    <3>4. StaysInSlot(f)
      BY <3>2, <3>3 DEF StaysInSlot
    <3> QED
      BY <1>4, <3>4 DEF Attempts, StepInSlot
  <2> QED
    BY <2>1, <2>2
<1>5. CASE Succeeds(f)
  BY <1>5, GoesStays DEF Succeeds, StepInSlot, Steps
<1>6. CASE Fails(f)
  BY <1>6, GoesStays DEF Fails, StepInSlot, Steps
<1>7. CASE Wakes(f)
  BY <1>7, GoesStays DEF Wakes, StepInSlot, Steps
<1>8. CASE Marks(f)
  BY <1>8, GoesStays DEF Marks, StepInSlot, Steps
<1>9. CASE Finishes(f)
  BY <1>9, GoesStays DEF Finishes, StepInSlot, Steps
<1>10. CASE FinishFails(f)
  BY <1>10, GoesStays DEF FinishFails, StepInSlot, Steps
<1>11. CASE Cools(f)
  BY <1>11 DEF Cools, StepInSlot
<1>12. CASE GivesUp(f)
  BY <1>12, GoesStays DEF GivesUp, StepInSlot, Steps
<1>13. CASE Moves(f)
  BY <1>13, GoesStays DEF Moves, StepInSlot, Steps
<1>14. CASE MoveFails(f)
  BY <1>14 DEF MoveFails, StepInSlot
<1>15. CASE Saves(f)
  BY <1>15, GoesStays DEF Saves, StepInSlot, Steps
<1>16. CASE HandsOver(f)
  BY <1>16 DEF HandsOver, StepInSlot
<1> QED
  BY <1>1, <1>2, <1>3, <1>4, <1>5, <1>6, <1>7, <1>8, <1>9, <1>10, <1>11, <1>12, <1>13,
     <1>14, <1>15, <1>16 DEF Working

(***************************************************************************)
(* The slot and n115Running.                                               *)
(***************************************************************************)
Scans == {"idle", "page", "file", "refresh"}

\* The scan that refreshes a folder works on one archive, which has no goroutine.
ScanOK ==
    /\ DOMAIN scan = {"at", "folder", "page", "todo", "asked", "full"}
    /\ scan.at \in Scans
    /\ (\A x, y \in scan.asked : x = y) /\ (scan.at = "idle" => scan.asked = {})
    /\ scan.at = "refresh" => \E f \in Files : scan.asked = {f} /\ job[f].at = "none"

SlotInv == JobsOK /\ ScanOK /\ OneSlot

Busy == {f \in Files : job[f].at # "none"}
Refreshing == IF scan.at = "refresh" THEN scan.asked ELSE {}

LEMMA OneSlotParts == OneSlot <=> AtMostOne(InSlot) /\ running = Busy \cup Refreshing
  BY DEF OneSlot, Busy, Refreshing, At

LEMMA OneSlotPartsNext == OneSlot' <=> AtMostOne(InSlot)' /\ (running = Busy \cup Refreshing)'
  BY DEF OneSlot, Busy, Refreshing, At

LEMMA InitSlot == Init => SlotInv
  BY NoJobIsGoroutine
     DEF Init, SlotInv, JobsOK, ScanOK, OneSlot, AtMostOne, InSlot, At, NoJob, NoScan, Scans

\* Nobody enters the slot and nothing starts or ends.
LEMMA SlotUntouched ==
  ASSUME SlotInv, UNCHANGED <<running, job>>, ScanOK', Refreshing' = Refreshing
  PROVE  SlotInv'
<1>1. JobsOK' /\ InSlot' = InSlot /\ Busy' = Busy
  BY DEF SlotInv, JobsOK, InSlot, Busy
<1> QED
  BY <1>1, OneSlotParts, OneSlotPartsNext DEF SlotInv, AtMostOne

\* Whoever is in the slot was in it before.
LEMMA SlotShrinks ==
  ASSUME AtMostOne(InSlot), JobsOK, NEW f \in Files, NEW g \in Goroutines,
         g.at \in Outside \/ job[f].at \notin Outside,
         job' = [job EXCEPT ![f] = g]
  PROVE  JobsOK' /\ AtMostOne(InSlot)'
<1>1. JobsOK'
  BY DEF JobsOK
<1>2. InSlot' \subseteq InSlot
  BY DEF JobsOK, InSlot, Outside
<1> QED
  BY <1>1, <1>2 DEF AtMostOne

LEMMA StepKeepsSlot ==
  ASSUME SlotInv, NEW f \in Files, StepInSlot(f)
  PROVE  SlotInv'
<1>1. /\ JobsOK /\ ScanOK /\ AtMostOne(InSlot) /\ running = Busy \cup Refreshing
      /\ job[f].at \notin Outside /\ UNCHANGED scan
  BY OneSlotParts DEF SlotInv, StepInSlot
<1>2. Refreshing' = Refreshing /\ f \notin Refreshing
  BY <1>1 DEF Refreshing, ScanOK, Outside
<1>3. CASE StaysInSlot(f)
  <2>1. PICK g \in Goroutines : g.at \notin Outside /\ job' = [job EXCEPT ![f] = g]
    BY <1>3 DEF StaysInSlot
  <2>2. JobsOK' /\ AtMostOne(InSlot)'
    BY <1>1, <2>1, SlotShrinks
  <2>3. Busy' = Busy
    BY <1>1, <2>1 DEF Busy, JobsOK, Outside
  <2>4. ScanOK'
    BY <1>1, <2>1 DEF ScanOK, JobsOK, Outside
  <2> QED
    BY <1>1, <1>2, <1>3, <2>2, <2>3, <2>4, OneSlotPartsNext DEF SlotInv, StaysInSlot
<1>4. CASE Ends(f)
  <2>1. job' = [job EXCEPT ![f] = NoJob] /\ running' = running \ {f}
    BY <1>4 DEF Ends
  <2>2. JobsOK' /\ AtMostOne(InSlot)'
    BY <1>1, <2>1, NoJobIsGoroutine, SlotShrinks DEF NoJob, Outside
  <2>3. Busy' = Busy \ {f}
    BY <1>1, <2>1 DEF Busy, JobsOK, Outside, NoJob
  <2>4. ScanOK'
    BY <1>1, <2>1 DEF ScanOK, JobsOK, Outside, NoJob
  <2>5. (running = Busy \cup Refreshing)'
    BY <1>1, <1>2, <2>1, <2>3
  <2> QED
    BY <2>2, <2>4, <2>5, OneSlotPartsNext DEF SlotInv
<1> QED
  BY <1>3, <1>4 DEF StepInSlot

\* A free archive is queued, by a scan or by the user.
LEMMA QueuedKeepsSlot ==
  ASSUME SlotInv, NEW f \in Files, f \notin running, NEW g \in Goroutines, g.at = "queued",
         job' = [job EXCEPT ![f] = g], running' = running \cup {f},
         DOMAIN scan' = DOMAIN scan, scan'.at = scan.at,
         scan'.asked = scan.asked \/ (scan.at = "file" /\ scan'.asked = {})
  PROVE  SlotInv'
<1>1. JobsOK /\ ScanOK /\ AtMostOne(InSlot) /\ running = Busy \cup Refreshing
  BY OneSlotParts DEF SlotInv
<1>2. JobsOK' /\ AtMostOne(InSlot)'
  BY <1>1, SlotShrinks DEF Outside
<1>3. Refreshing' = Refreshing
  BY DEF Refreshing
<1>4. Busy' = Busy \cup {f}
  BY <1>1 DEF Busy, JobsOK
<1>5. ScanOK'
  BY <1>1 DEF ScanOK, JobsOK, Refreshing
<1>6. (running = Busy \cup Refreshing)'
  BY <1>1, <1>3, <1>4
<1> QED
  BY <1>2, <1>5, <1>6, OneSlotPartsNext DEF SlotInv

LEMMA TakesSlotKeepsSlot ==
  ASSUME SlotInv, NEW f \in Files, TakesSlot(f)
  PROVE  SlotInv'
<1> DEFINE g == [job[f] EXCEPT !.at = "ready"]
<1>1. /\ JobsOK /\ ScanOK /\ running = Busy \cup Refreshing
      /\ job[f].at = "queued" /\ InSlot = {} /\ UNCHANGED <<running, scan>>
  BY OneSlotParts DEF SlotInv, TakesSlot, At, Alone, scanner
<1>2. job' = [job EXCEPT ![f] = g]
  BY DEF TakesSlot, Goes
<1>3. g \in Goroutines /\ g.at = "ready"
  BY <1>1 DEF JobsOK, Goroutines, Steps
<1>4. JobsOK'
  BY <1>1, <1>2, <1>3 DEF JobsOK
<1>5. InSlot' \subseteq {f}
  BY <1>1, <1>2 DEF InSlot, JobsOK
<1>6. Busy' = Busy /\ Refreshing' = Refreshing
  BY <1>1, <1>2, <1>3 DEF Busy, Refreshing, JobsOK
<1>7. ScanOK'
  BY <1>1, <1>2, <1>3 DEF ScanOK, JobsOK
<1>8. AtMostOne(InSlot)'
  BY <1>5 DEF AtMostOne
<1> QED
  BY <1>1, <1>4, <1>6, <1>7, <1>8, OneSlotPartsNext DEF SlotInv

LEMMA ScanKeepsSlot ==
  ASSUME SlotInv, Scanning \/ ScanPageFails
  PROVE  SlotInv'
<1> USE DEF workers
<1>1. JobsOK /\ ScanOK /\ running = Busy \cup Refreshing
  BY OneSlotParts DEF SlotInv
<1>2. ASSUME NEW full \in BOOLEAN, ScanStart(full)
      PROVE  SlotInv'
  <2>1. ScanOK' /\ Refreshing' = Refreshing
    BY <1>1, <1>2 DEF ScanStart, ScanOK, Refreshing, NoScan, Scans
  <2> QED
    BY <1>2, <2>1, SlotUntouched DEF ScanStart
<1>3. CASE UNCHANGED <<scan, workers>>
  <2>1. ScanOK' /\ Refreshing' = Refreshing
    BY <1>1, <1>3 DEF ScanOK, Refreshing
  <2> QED
    BY <1>3, <2>1, SlotUntouched
<1>4. CASE TimerScan \/ ResumeScan
  BY <1>2, <1>3, <1>4 DEF TimerScan, ResumeScan, scanner
<1>5. CASE ScanPage \/ ScanPageFails
  <2>1. ScanOK' /\ Refreshing' = Refreshing /\ UNCHANGED workers
    BY <1>1, <1>5 DEF ScanPage, ScanPageFails, ScanOK, Refreshing, Scans
  <2> QED
    BY <2>1, SlotUntouched
<1>6. CASE ScanNext
  <2>1. ScanOK' /\ Refreshing' = Refreshing /\ UNCHANGED workers
    BY <1>1, <1>6 DEF ScanNext, ScanOK, Refreshing, Scans, NoScan
  <2> QED
    BY <2>1, SlotUntouched
<1>7. ASSUME NEW f \in Files, ScanSkips(f) \/ ScanAsks(f)
      PROVE  SlotInv'
  <2>1. ScanOK' /\ Refreshing' = Refreshing /\ UNCHANGED workers
    BY <1>1, <1>7 DEF ScanSkips, ScanAsks, ScanOK, Refreshing
  <2> QED
    BY <2>1, SlotUntouched
<1>8. ASSUME NEW f \in Files, ScanQueues(f)
      PROVE  SlotInv'
  <2>1. CASE f \in running
    <3>1. ScanOK' /\ Refreshing' = Refreshing /\ UNCHANGED <<running, job>>
      BY <1>1, <1>8, <2>1 DEF ScanQueues, ScanOK, Refreshing
    <3> QED
      BY <3>1, SlotUntouched
  <2>2. CASE f \notin running /\ scan.folder = "source"
    <3> DEFINE g == [NoJob EXCEPT !.at = "queued"]
    <3>1. g \in Goroutines /\ g.at = "queued"
      BY DEF NoJob, Goroutines, Steps
    <3>2. /\ scan.at = "file" /\ job' = [job EXCEPT ![f] = g] /\ running' = running \cup {f}
          /\ DOMAIN scan' = DOMAIN scan /\ scan'.at = scan.at /\ scan'.asked = {}
      BY <1>1, <1>8, <2>2 DEF ScanQueues, ScanOK
    <3> QED
      BY <2>2, <3>1, <3>2, QueuedKeepsSlot
  <2>3. CASE f \notin running /\ scan.folder # "source"
    <3>1. /\ scan.at = "file" /\ UNCHANGED job /\ running' = running \cup {f}
          /\ scan'.at = "refresh" /\ scan'.asked = scan.asked /\ DOMAIN scan' = DOMAIN scan
          /\ f \in scan.asked
      BY <1>1, <1>8, <2>3 DEF ScanQueues, ScanOK
    <3>2. scan.asked = {f} /\ job[f].at = "none"
      BY <1>1, <2>3, <3>1 DEF ScanOK, Busy
    <3>3. JobsOK' /\ InSlot' = InSlot /\ Busy' = Busy
      BY <1>1, <3>1 DEF JobsOK, InSlot, Busy
    <3>4. ScanOK'
      BY <1>1, <3>1, <3>2 DEF ScanOK, Scans
    <3>5. Refreshing' = {f} /\ Refreshing = {}
      BY <3>1, <3>2 DEF Refreshing
    <3>6. (running = Busy \cup Refreshing)'
      BY <1>1, <3>1, <3>3, <3>5
    <3> QED
      BY <3>3, <3>4, <3>6, OneSlotParts, OneSlotPartsNext DEF SlotInv, AtMostOne
  <2> QED
    BY <2>1, <2>2, <2>3
<1>9. ASSUME NEW f \in Files, ScanRefreshes(f)
      PROVE  SlotInv'
  <2>1. /\ scan.at = "refresh" /\ f \in scan.asked
        /\ scan' = [scan EXCEPT !.at = "file", !.asked = {}]
        /\ running' = running \ {f} /\ UNCHANGED job
    BY <1>9 DEF ScanRefreshes
  <2>2. scan.asked = {f} /\ job[f].at = "none"
    BY <1>1, <2>1 DEF ScanOK
  <2>3. JobsOK' /\ InSlot' = InSlot /\ Busy' = Busy
    BY <1>1, <2>1 DEF JobsOK, InSlot, Busy
  <2>4. scan'.at = "file" /\ ScanOK'
    BY <1>1, <2>1 DEF ScanOK, Scans
  <2>5. Refreshing' = {} /\ Refreshing = {f} /\ f \notin Busy
    BY <2>1, <2>2, <2>4 DEF Refreshing, Busy
  <2>6. (running = Busy \cup Refreshing)'
    BY <1>1, <2>1, <2>3, <2>5
  <2> QED
    BY <2>3, <2>4, <2>6, OneSlotParts, OneSlotPartsNext DEF SlotInv, AtMostOne
<1> QED
  BY <1>4, <1>5, <1>6, <1>7, <1>8, <1>9 DEF Scanning

LEMMA UserKeepsSlot ==
  ASSUME SlotInv, User
  PROVE  SlotInv'
<1> USE DEF scanner, workers
<1>1. ScanOK
  BY DEF SlotInv
<1>2. CASE UNCHANGED <<running, job, scan>>
  BY <1>1, <1>2, SlotUntouched DEF ScanOK, Refreshing
<1>3. CASE UserScan
  <2>1. ScanOK' /\ Refreshing' = Refreshing /\ UNCHANGED <<running, job>>
    BY <1>1, <1>3 DEF UserScan, ScanStart, ScanOK, Refreshing, NoScan, Scans
  <2> QED
    BY <2>1, SlotUntouched
<1>4. CASE StopClear \/ ResetHistory
  BY <1>2, <1>4 DEF StopClear, ResetHistory
<1>5. ASSUME NEW f \in Files, Approve(f) \/ Cancel(f) \/ Ignore(f) \/ Unignore(f)
      PROVE  SlotInv'
  BY <1>2, <1>5 DEF Approve, Cancel, Ignore, Unignore
<1>6. ASSUME NEW f \in Files, RetryCloud(f)
      PROVE  SlotInv'
  <2> DEFINE g == [NoJob EXCEPT !.at = "queued", !.by = "pending"]
  <2>1. g \in Goroutines /\ g.at = "queued"
    BY DEF NoJob, Goroutines, Steps
  <2>2. /\ f \notin running /\ running' = running \cup {f}
        /\ job' = [job EXCEPT ![f] = g] /\ UNCHANGED scan
    BY <1>6 DEF RetryCloud
  <2> QED
    BY <2>1, <2>2, QueuedKeepsSlot
<1>7. ASSUME NEW f \in Files, RetryHistory(f)
      PROVE  SlotInv'
  <2>1. CASE failed[f] = "download"
    BY <1>2, <1>7, <2>1 DEF RetryHistory
  <2>2. CASE failed[f] # "download"
    <3> DEFINE g == [NoJob EXCEPT !.at = "queued", !.by = "history"]
    <3>1. g \in Goroutines /\ g.at = "queued"
      BY DEF NoJob, Goroutines, Steps
    <3>2. /\ f \notin running /\ running' = running \cup {f}
          /\ job' = [job EXCEPT ![f] = g] /\ UNCHANGED scan
      BY <1>7, <2>2 DEF RetryHistory
    <3> QED
      BY <3>1, <3>2, QueuedKeepsSlot
  <2> QED
    BY <2>1, <2>2
<1> QED
  BY <1>3, <1>4, <1>5, <1>6, <1>7 DEF User

LEMMA RestKeepsSlot ==
  ASSUME SlotInv,
         \/ Resuming \/ Resume \/ UNCHANGED vars
         \/ \E f \in Files : Upload(f) \/ Downloading(f) \/ Drops(f)
  PROVE  SlotInv'
<1> USE DEF scanner, workers
<1>1. ScanOK
  BY DEF SlotInv
<1>2. SUFFICES UNCHANGED <<running, job, scan>>
  BY <1>1, <1>2, SlotUntouched DEF ScanOK, Refreshing
<1>3. CASE Resuming
  BY <1>3 DEF Resuming, FailureLists, ResumeDownloads, FailureAsks
<1>4. CASE Resume \/ UNCHANGED vars
  BY <1>4 DEF Resume, vars
<1>5. ASSUME NEW f \in Files, Upload(f) \/ Downloading(f) \/ Drops(f)
      PROVE  UNCHANGED <<running, job, scan>>
  BY <1>5 DEF Upload, Downloading, Drops, Extracts, LocalMarks, LocalDisposes,
              LocalDisposeFails, LocalForgets, Aside
<1> QED
  BY <1>3, <1>4, <1>5

LEMMA CrashKeepsSlot ==
  ASSUME Crash
  PROVE  SlotInv'
<1>1. /\ job' = [f \in Files |-> NoJob] /\ running' = {} /\ scan' = NoScan
  BY DEF Crash
<1>2. JobsOK' /\ ScanOK'
  BY <1>1, NoJobIsGoroutine DEF JobsOK, ScanOK, NoScan, Scans
<1>3. InSlot' = {} /\ Busy' = {} /\ Refreshing' = {}
  BY <1>1 DEF InSlot, Busy, Refreshing, NoJob, NoScan
<1> QED
  BY <1>1, <1>2, <1>3, OneSlotPartsNext DEF SlotInv, AtMostOne

\* In every reachable state one archive at most is in the slot of n115Queue,
\* and n115Running holds exactly the archives that are worked on (the claims
\* and releases of poll115ConfiguredFolders, retry115History and
\* retryPending115Cloud, and the slot of run115CloudExtract).
THEOREM OneSlotAlways == Spec => []OneSlot
<1>1. Init => SlotInv
  BY InitSlot
<1>2. SlotInv /\ [Next]_vars => SlotInv'
  <2> SUFFICES ASSUME SlotInv, [Next]_vars PROVE SlotInv'
    OBVIOUS
  <2>1. CASE Scanning \/ ScanPageFails
    BY <2>1, ScanKeepsSlot
  <2>2. CASE User
    BY <2>2, UserKeepsSlot
  <2>3. CASE Crash
    BY <2>3, CrashKeepsSlot
  <2>4. ASSUME NEW f \in Files, TakesSlot(f) PROVE SlotInv'
    BY <2>4, TakesSlotKeepsSlot
  <2>5. ASSUME NEW f \in Files, Working(f) PROVE SlotInv'
    BY <2>5, WorkingInSlot, StepKeepsSlot DEF SlotInv
  <2>6. CASE \/ Resuming \/ Resume \/ UNCHANGED vars
             \/ \E f \in Files : Upload(f) \/ Downloading(f) \/ Drops(f)
    BY <2>6, RestKeepsSlot
  <2> QED
    BY <2>1, <2>2, <2>3, <2>4, <2>5, <2>6 DEF Next
<1>3. SlotInv => OneSlot
  BY DEF SlotInv
<1> QED
  BY <1>1, <1>2, <1>3, PTL DEF Spec

(***************************************************************************)
(* Cloud115 implements CloudArchive.  Whatever leads to a record or to the *)
(* removal of a source belongs to an archive that was extracted: a         *)
(* goroutine past its attempts, the end of a local extraction, and a       *)
(* failure that was one of the cleanup only.                               *)
(***************************************************************************)
TypesOK ==
    /\ JobsOK
    /\ failed \in [Files -> Stages]
    /\ local \in [Files -> {"none", "mark", "file", "forget"}]

Earned ==
    \A f \in Files :
        /\ job[f].at \in {"mark", "finish"} => f \in extracted
        /\ local[f] # "none" => f \in extracted
        /\ failed[f] = "cleanup" => f \in extracted

EarnedInv == TypesOK /\ Earned

promised == <<extracted, processed, removed>>
PromiseStep == [Promise!Next]_promised

LEMMA Stutters ==
  ASSUME UNCHANGED promised
  PROVE  PromiseStep
  BY DEF PromiseStep

LEMMA Accepts ==
  ASSUME NEW f \in Files, extracted' = extracted \cup {f},
         processed' = processed \/ processed' = processed \cup {f}, UNCHANGED removed
  PROVE  PromiseStep
<1>1. Promise!Accept(f)
  BY DEF Promise!Accept
<1> QED
  BY <1>1 DEF PromiseStep, Promise!Next

LEMMA Removes ==
  ASSUME NEW f \in Files, f \in extracted, Disposes(f), UNCHANGED <<extracted, processed>>
  PROVE  PromiseStep
<1>1. CASE UNCHANGED removed
  BY <1>1, Stutters DEF promised
<1>2. CASE removed' = removed \cup {f}
  <2>1. Promise!Remove(f)
    BY <1>2 DEF Promise!Remove
  <2> QED
    BY <2>1 DEF PromiseStep, Promise!Next
<1> QED
  BY <1>1, <1>2 DEF Disposes

LEMMA InitEarned == Init => EarnedInv /\ Promise!Init
  BY NoJobIsGoroutine
     DEF Init, EarnedInv, TypesOK, JobsOK, Stages, Earned, NoJob, Promise!Init

\* Nothing but a job, a record or a local end that was not there before could
\* need an extraction.
LEMMA EarnedKept ==
  ASSUME EarnedInv, TypesOK', extracted \subseteq extracted',
         \A g \in Files :
            /\ job'[g].at \in {"mark", "finish"} => g \in extracted' \/ job'[g].at = job[g].at
            /\ local'[g] # "none" => g \in extracted' \/ local[g] # "none"
            /\ failed'[g] = "cleanup" => g \in extracted' \/ failed[g] = "cleanup"
  PROVE  EarnedInv'
  BY DEF EarnedInv, Earned

\* Steps that leave all of this alone.
LEMMA Unearning ==
  ASSUME EarnedInv, UNCHANGED <<job, local, failed, extracted>>
  PROVE  EarnedInv'
<1>1. TypesOK'
  BY DEF EarnedInv, TypesOK, JobsOK
<1> QED
  BY <1>1, EarnedKept

\* One archive gets a job that has still to extract it.
LEMMA StartingAnew ==
  ASSUME EarnedInv, NEW f \in Files, NEW g \in Goroutines, g.at \notin {"mark", "finish"},
         job' = [job EXCEPT ![f] = g], UNCHANGED <<local, failed, extracted>>
  PROVE  EarnedInv'
<1>1. TypesOK'
  BY DEF EarnedInv, TypesOK, JobsOK
<1> QED
  BY <1>1, EarnedKept DEF EarnedInv, TypesOK, JobsOK

LEMMA EndsAt ==
  ASSUME JobsOK, NEW f \in Files, Ends(f)
  PROVE  \A g \in Files : job'[g].at = IF g = f THEN "none" ELSE job[g].at
<1>1. job' = [job EXCEPT ![f] = NoJob] /\ NoJob.at = "none"
  BY DEF Ends, NoJob
<1> QED
  BY <1>1 DEF JobsOK

LEMMA GoesAt ==
  ASSUME JobsOK, NEW f \in Files, NEW step, Goes(f, step)
  PROVE  \A g \in Files : job'[g].at = IF g = f THEN step ELSE job[g].at
  BY DEF Goes, JobsOK, Goroutines

LEMMA WorkingEarns ==
  ASSUME EarnedInv, NEW f \in Files, Working(f)
  PROVE  EarnedInv' /\ PromiseStep
<1> USE DEF At, Alone, copies
<1>0. TypesOK /\ Earned /\ JobsOK /\ JobsOK'
  <2>1. JobsOK /\ StepInSlot(f)
    BY WorkingInSlot DEF EarnedInv, TypesOK
  <2> QED
    BY <2>1, NoJobIsGoroutine DEF EarnedInv, TypesOK, JobsOK, StepInSlot, StaysInSlot, Ends
<1>1. ASSUME UNCHANGED <<local, failed>>, extracted' = extracted,
             Ends(f) \/ \E step \in Steps \ {"mark", "finish"} : Goes(f, step)
      PROVE  EarnedInv'
  <2>1. TypesOK'
    BY <1>0, <1>1 DEF TypesOK
  <2>2. \A g \in Files : job'[g].at \in {"mark", "finish"} => job'[g].at = job[g].at
    BY <1>0, <1>1, EndsAt, GoesAt
  <2> QED
    BY <1>0, <1>1, <2>1, <2>2, EarnedKept
<1>2. CASE Starts(f)
  <2>1. UNCHANGED <<local, failed, extracted, processed, removed>>
    BY <1>2 DEF Starts, NothingDone
  <2>2. TypesOK'
    BY <1>0, <2>1 DEF TypesOK
  <2>3. \A g \in Files : job'[g].at \in {"mark", "finish"} => g \in extracted' \/ job'[g].at = job[g].at
    BY <1>0, <1>2, <2>1, EndsAt, GoesAt DEF Starts, Earned
  <2> QED
    BY <2>1, <2>2, <2>3, EarnedKept, Stutters DEF promised
<1>3. CASE Lists(f) \/ Wakes(f) \/ Moves(f) \/ Saves(f) \/ Cools(f)
  <2>1. UNCHANGED <<local, failed, extracted, processed, removed>>
    BY <1>3 DEF Lists, Wakes, Moves, Saves, Cools, NothingDone
  <2>2. Ends(f) \/ \E step \in Steps \ {"mark", "finish"} : Goes(f, step)
    BY <1>3 DEF Lists, Wakes, Moves, Saves, Cools, Steps
  <2> QED
    BY <1>1, <2>1, <2>2, Stutters DEF promised
<1>4. CASE Attempts(f)
  <2>1. UNCHANGED <<local, failed, extracted, processed, removed>>
    BY <1>4 DEF Attempts, NothingDone
  <2>2. TypesOK'
    BY <1>0, <2>1 DEF TypesOK
  <2>3. \A g \in Files : job'[g].at \in {"mark", "finish"} => job'[g].at = job[g].at
    <3>1. CASE Ends(f)
      BY <1>0, <3>1, EndsAt
    <3>2. CASE ~Ends(f)
      BY <1>0, <1>4, <3>2 DEF Attempts, JobsOK, Goroutines
    <3> QED
      BY <3>1, <3>2
  <2> QED
    BY <2>1, <2>2, <2>3, EarnedKept, Stutters DEF promised
<1>5. CASE Fails(f)
  <2>1. UNCHANGED <<local, failed, extracted, processed, removed>>
    BY <1>5 DEF Fails, NothingDone
  <2>2. Ends(f) \/ \E step \in Steps \ {"mark", "finish"} : Goes(f, step)
    BY <1>5 DEF Fails, Steps
  <2> QED
    BY <1>1, <2>1, <2>2, Stutters DEF promised
<1>6. CASE Succeeds(f)
  <2>1. /\ UNCHANGED <<local, failed, processed, removed>> /\ extracted' = extracted \cup {f}
        /\ Goes(f, "cool") \/ Goes(f, "mark")
    BY <1>6 DEF Succeeds
  <2>2. TypesOK'
    BY <1>0, <2>1 DEF TypesOK
  <2>3. \A g \in Files : job'[g].at \in {"mark", "finish"} => g \in extracted' \/ job'[g].at = job[g].at
    BY <1>0, <2>1 DEF Goes, JobsOK
  <2> QED
    BY <2>1, <2>2, <2>3, EarnedKept, Accepts
<1>7. CASE Marks(f)
  <2>1. /\ f \in extracted /\ UNCHANGED <<local, extracted, removed>>
        /\ processed' = processed \cup {f} /\ failed' = [failed EXCEPT ![f] = "none"]
        /\ Goes(f, "finish")
    BY <1>0, <1>7 DEF Marks, Earned
  <2>2. TypesOK'
    BY <1>0, <2>1 DEF TypesOK, Stages
  <2>3. \A g \in Files : /\ job'[g].at \in {"mark", "finish"} => g \in extracted' \/ job'[g].at = job[g].at
                         /\ failed'[g] = "cleanup" => failed[g] = "cleanup"
    BY <1>0, <2>1 DEF Goes, JobsOK, TypesOK
  <2> QED
    BY <2>1, <2>2, <2>3, EarnedKept, Accepts
<1>8. CASE Finishes(f)
  <2>1. /\ f \in extracted /\ UNCHANGED <<local, extracted, processed>>
        /\ Disposes(f) /\ failed' = [failed EXCEPT ![f] = "none"]
        /\ Goes(f, "cool")
    BY <1>0, <1>8 DEF Finishes, Earned
  <2>2. TypesOK'
    BY <1>0, <2>1 DEF TypesOK, Stages
  <2>3. \A g \in Files : /\ job'[g].at \in {"mark", "finish"} => job'[g].at = job[g].at
                         /\ failed'[g] = "cleanup" => failed[g] = "cleanup"
    BY <1>0, <2>1 DEF Goes, JobsOK, TypesOK
  <2> QED
    BY <2>1, <2>2, <2>3, EarnedKept, Removes
<1>9. CASE FinishFails(f)
  <2>1. /\ f \in extracted /\ UNCHANGED <<local, extracted, processed, removed>>
        /\ failed' = [failed EXCEPT ![f] = "cleanup"] /\ Goes(f, "cool")
    BY <1>0, <1>9 DEF FinishFails, Earned
  <2>2. TypesOK'
    BY <1>0, <2>1 DEF TypesOK, Stages
  <2>3. \A g \in Files : /\ job'[g].at \in {"mark", "finish"} => job'[g].at = job[g].at
                         /\ failed'[g] = "cleanup" => g \in extracted' \/ failed[g] = "cleanup"
    BY <1>0, <2>1 DEF Goes, JobsOK, TypesOK
  <2> QED
    BY <2>1, <2>2, <2>3, EarnedKept, Stutters DEF promised
<1>10. CASE ListFails(f) \/ GivesUp(f) \/ MoveFails(f) \/ HandsOver(f)
  <2>1. /\ UNCHANGED <<local, extracted, processed, removed>>
        /\ Ends(f) \/ Goes(f, "move")
    BY <1>10 DEF ListFails, GivesUp, MoveFails, HandsOver, cloud
  <2>2. UNCHANGED failed \/ \E stage \in Stages \ {"cleanup"} : failed' = [failed EXCEPT ![f] = stage]
    BY <1>0, <1>10 DEF ListFails, GivesUp, MoveFails, HandsOver, Stages, TypesOK
  <2>3. TypesOK'
    BY <1>0, <2>1, <2>2 DEF TypesOK
  <2>4. \A g \in Files : /\ job'[g].at \in {"mark", "finish"} => job'[g].at = job[g].at
                         /\ failed'[g] = "cleanup" => failed[g] = "cleanup"
    BY <1>0, <2>1, <2>2, EndsAt, GoesAt DEF TypesOK
  <2> QED
    BY <2>1, <2>3, <2>4, EarnedKept, Stutters DEF promised
<1> QED
  BY <1>2, <1>3, <1>4, <1>5, <1>6, <1>7, <1>8, <1>9, <1>10 DEF Working

LEMMA ScanEarns ==
  ASSUME EarnedInv, Scanning \/ ScanPageFails
  PROVE  EarnedInv' /\ PromiseStep
<1> USE DEF cloud, state, workers, copies
<1>1. UNCHANGED <<extracted, processed, removed, failed, local>>
  BY DEF Scanning, ScanPageFails, TimerScan, ResumeScan, ScanStart, ScanPage, ScanNext,
         ScanSkips, ScanAsks, ScanQueues, ScanRefreshes
<1>2. CASE UNCHANGED job
  BY <1>1, <1>2, Unearning, Stutters DEF promised
<1>3. ASSUME NEW f \in Files, ScanQueues(f)
      PROVE  EarnedInv'
  <2> DEFINE g == [NoJob EXCEPT !.at = "queued"]
  <2>1. g \in Goroutines /\ g.at = "queued"
    BY DEF NoJob, Goroutines, Steps
  <2>2. UNCHANGED job \/ job' = [job EXCEPT ![f] = g]
    BY <1>3 DEF ScanQueues
  <2> QED
    BY <1>1, <2>1, <2>2, Unearning, StartingAnew
<1>4. UNCHANGED job \/ \E f \in Files : ScanQueues(f)
  BY DEF Scanning, ScanPageFails, TimerScan, ResumeScan, ScanStart, ScanPage, ScanNext,
         ScanSkips, ScanAsks, ScanRefreshes
<1> QED
  BY <1>1, <1>2, <1>3, <1>4, Stutters DEF promised

LEMMA DownloadEarns ==
  ASSUME EarnedInv, NEW f \in Files, Downloading(f) \/ Drops(f)
  PROVE  EarnedInv' /\ PromiseStep
<1> USE DEF Aside
<1>0. TypesOK /\ Earned /\ UNCHANGED job
  BY DEF EarnedInv, Downloading, Drops, Extracts, LocalMarks, LocalDisposes,
         LocalDisposeFails, LocalForgets
<1>1. CASE Extracts(f)
  <2>1. /\ extracted' = extracted \cup {f} /\ processed' = processed \cup {f} /\ UNCHANGED removed
        /\ failed' = [failed EXCEPT ![f] = "none"]
        /\ UNCHANGED local \/ local' = [local EXCEPT ![f] = "mark"]
    BY <1>1 DEF Extracts, Local
  <2>2. TypesOK'
    BY <1>0, <2>1 DEF TypesOK, JobsOK, Stages
  <2>3. \A g \in Files : /\ local'[g] # "none" => g \in extracted' \/ local[g] # "none"
                         /\ failed'[g] = "cleanup" => failed[g] = "cleanup"
    BY <1>0, <2>1 DEF TypesOK
  <2> QED
    BY <1>0, <2>1, <2>2, <2>3, EarnedKept, Accepts
<1>2. CASE LocalMarks(f)
  <2>1. /\ f \in extracted /\ UNCHANGED <<extracted, removed>> /\ processed' = processed \cup {f}
        /\ failed' = [failed EXCEPT ![f] = "none"] /\ local' = [local EXCEPT ![f] = "file"]
    BY <1>0, <1>2 DEF LocalMarks, Local, Earned
  <2>2. TypesOK'
    BY <1>0, <2>1 DEF TypesOK, JobsOK, Stages
  <2>3. \A g \in Files : /\ local'[g] # "none" => g \in extracted' \/ local[g] # "none"
                         /\ failed'[g] = "cleanup" => failed[g] = "cleanup"
    BY <1>0, <2>1 DEF TypesOK
  <2> QED
    BY <1>0, <2>1, <2>2, <2>3, EarnedKept, Accepts
<1>3. CASE LocalDisposes(f)
  <2>1. /\ f \in extracted /\ Disposes(f) /\ UNCHANGED <<extracted, processed, failed>>
        /\ local' = [local EXCEPT ![f] = "forget"]
    BY <1>0, <1>3 DEF LocalDisposes, Local, Earned
  <2>2. TypesOK'
    BY <1>0, <2>1 DEF TypesOK, JobsOK
  <2>3. \A g \in Files : local'[g] # "none" => g \in extracted' \/ local[g] # "none"
    BY <1>0, <2>1 DEF TypesOK
  <2> QED
    BY <1>0, <2>1, <2>2, <2>3, EarnedKept, Removes
<1>4. CASE LocalDisposeFails(f)
  <2>1. /\ f \in extracted /\ UNCHANGED <<extracted, processed, removed>>
        /\ local' = [local EXCEPT ![f] = "forget"] /\ failed' = [failed EXCEPT ![f] = "cleanup"]
    BY <1>0, <1>4 DEF LocalDisposeFails, Local, Earned
  <2>2. TypesOK'
    BY <1>0, <2>1 DEF TypesOK, JobsOK, Stages
  <2>3. \A g \in Files : /\ local'[g] # "none" => g \in extracted' \/ local[g] # "none"
                         /\ failed'[g] = "cleanup" => g \in extracted' \/ failed[g] = "cleanup"
    BY <1>0, <2>1 DEF TypesOK
  <2> QED
    BY <1>0, <2>1, <2>2, <2>3, EarnedKept, Stutters DEF promised
<1>5. CASE LocalForgets(f) \/ Drops(f)
  <2>1. /\ UNCHANGED <<extracted, processed, removed, failed>>
        /\ UNCHANGED local \/ local' = [local EXCEPT ![f] = "none"]
    BY <1>5 DEF LocalForgets, Drops, Local
  <2>2. TypesOK'
    BY <1>0, <2>1 DEF TypesOK, JobsOK
  <2>3. \A g \in Files : local'[g] # "none" => local[g] # "none"
    BY <1>0, <2>1 DEF TypesOK
  <2> QED
    BY <1>0, <2>1, <2>2, <2>3, EarnedKept, Stutters DEF promised
<1> QED
  BY <1>1, <1>2, <1>3, <1>4, <1>5 DEF Downloading

LEMMA UserEarns ==
  ASSUME EarnedInv, User
  PROVE  EarnedInv' /\ PromiseStep
<1> USE DEF cloud, state, workers, copies, scanner
<1>0. TypesOK
  BY DEF EarnedInv
<1>1. CASE UNCHANGED <<job, local, failed, extracted, processed, removed>>
  BY <1>1, Unearning, Stutters DEF promised
<1>2. CASE UserScan \/ StopClear
  BY <1>1, <1>2 DEF UserScan, ScanStart, StopClear
<1>3. ASSUME NEW f \in Files, Approve(f) \/ Ignore(f) \/ Unignore(f)
      PROVE  EarnedInv' /\ PromiseStep
  BY <1>1, <1>3 DEF Approve, Ignore, Unignore
<1>4. CASE ResetHistory
  <2>1. /\ UNCHANGED <<job, local, extracted, removed>> /\ processed' = {}
        /\ failed' = [f \in Files |-> "none"]
    BY <1>4 DEF ResetHistory
  <2>2. TypesOK'
    BY <1>0, <2>1 DEF TypesOK, JobsOK, Stages
  <2>3. Promise!TakeBack(processed)
    BY <2>1 DEF Promise!TakeBack
  <2>4. PromiseStep
    BY <2>3 DEF PromiseStep, Promise!Next
  <2> QED
    BY <2>1, <2>2, <2>4, EarnedKept
<1>5. ASSUME NEW f \in Files, Cancel(f)
      PROVE  EarnedInv' /\ PromiseStep
  <2>1. UNCHANGED <<job, local, extracted, processed, removed>>
    BY <1>5 DEF Cancel
  <2>2. PICK stage \in {"cancelled", "download"} : failed' = [failed EXCEPT ![f] = stage]
    BY <1>5 DEF Cancel
  <2>3. TypesOK'
    BY <1>0, <2>1, <2>2 DEF TypesOK, JobsOK, Stages
  <2>4. \A g \in Files : failed'[g] = "cleanup" => failed[g] = "cleanup"
    BY <1>0, <2>2 DEF TypesOK
  <2> QED
    BY <2>1, <2>3, <2>4, EarnedKept, Stutters DEF promised
<1>6. ASSUME NEW f \in Files, RetryCloud(f) \/ RetryHistory(f)
      PROVE  EarnedInv' /\ PromiseStep
  <2> DEFINE g(by) == [NoJob EXCEPT !.at = "queued", !.by = by]
  <2>1. \A by \in {"pending", "history"} : g(by) \in Goroutines /\ g(by).at = "queued"
    BY DEF NoJob, Goroutines, Steps
  <2>2. /\ UNCHANGED <<local, failed, extracted, processed, removed>>
        /\ UNCHANGED job \/ \E by \in {"pending", "history"} : job' = [job EXCEPT ![f] = g(by)]
    BY <1>6 DEF RetryCloud, RetryHistory
  <2> HIDE DEF g
  <2> QED
    BY <2>1, <2>2, Unearning, StartingAnew, Stutters DEF promised
<1> QED
  BY <1>2, <1>3, <1>4, <1>5, <1>6 DEF User

LEMMA RestEarns ==
  ASSUME EarnedInv,
         \/ Resuming \/ Resume \/ Crash \/ UNCHANGED vars
         \/ \E f \in Files : Upload(f) \/ TakesSlot(f)
  PROVE  EarnedInv' /\ PromiseStep
<1> USE DEF cloud, state, workers, copies, scanner
<1>0. TypesOK /\ JobsOK
  BY DEF EarnedInv, TypesOK
<1>1. UNCHANGED <<failed, extracted, processed, removed>>
  BY DEF Resuming, FailureLists, ResumeDownloads, FailureAsks, Resume, Crash, vars,
         Upload, TakesSlot, NothingDone, Alone
<1>2. CASE UNCHANGED <<job, local>>
  BY <1>1, <1>2, Unearning, Stutters DEF promised
<1>3. CASE Crash
  <2>1. job' = [f \in Files |-> NoJob] /\ local' = [f \in Files |-> "none"] /\ NoJob.at = "none"
    BY <1>3 DEF Crash, NoJob
  <2>2. TypesOK'
    BY <1>0, <1>1, <2>1, NoJobIsGoroutine DEF TypesOK, JobsOK
  <2> QED
    BY <1>1, <2>1, <2>2, EarnedKept, Stutters DEF promised
<1>4. ASSUME NEW f \in Files, TakesSlot(f)
      PROVE  EarnedInv'
  <2>1. Goes(f, "ready") /\ UNCHANGED local
    BY <1>4 DEF TakesSlot, Alone
  <2>2. TypesOK'
    BY <1>0, <1>1, <2>1 DEF Goes, TypesOK, JobsOK, Goroutines, Steps
  <2> QED
    BY <1>0, <1>1, <2>1, <2>2, GoesAt, EarnedKept
<1>5. \/ UNCHANGED <<job, local>> \/ Crash
      \/ \E f \in Files : TakesSlot(f)
  BY DEF Resuming, FailureLists, ResumeDownloads, FailureAsks, Resume, vars, Upload
<1> QED
  BY <1>1, <1>2, <1>3, <1>4, <1>5, Stutters DEF promised

\* Whoever unpacks an archive, the servers of 115 or CloudDrive2 and the folder
\* pipeline, it counts as processed only after its extraction was accepted, and
\* only then does its source go: Cloud115 implements CloudArchive
\* (run115CloudExtract, finish115Source, handle115FallbackLocalSuccess).
THEOREM KeepsPromiseAlways == Spec => KeepsPromise
<1>1. Init => EarnedInv /\ Promise!Init
  BY InitEarned
<1>2. EarnedInv /\ [Next]_vars => EarnedInv' /\ PromiseStep
  <2> SUFFICES ASSUME EarnedInv, [Next]_vars PROVE EarnedInv' /\ PromiseStep
    OBVIOUS
  <2>1. CASE Scanning \/ ScanPageFails
    BY <2>1, ScanEarns
  <2>2. CASE User
    BY <2>2, UserEarns
  <2>3. ASSUME NEW f \in Files, Working(f) PROVE EarnedInv' /\ PromiseStep
    BY <2>3, WorkingEarns
  <2>4. ASSUME NEW f \in Files, Downloading(f) \/ Drops(f) PROVE EarnedInv' /\ PromiseStep
    BY <2>4, DownloadEarns
  <2>5. CASE \/ Resuming \/ Resume \/ Crash \/ UNCHANGED vars
             \/ \E f \in Files : Upload(f) \/ TakesSlot(f)
    BY <2>5, RestEarns
  <2> QED
    BY <2>1, <2>2, <2>3, <2>4, <2>5 DEF Next
<1>3. EarnedInv /\ [Next]_vars => EarnedInv' /\ [Promise!Next]_(Promise!vars)
  BY <1>2 DEF PromiseStep, promised, Promise!vars
<1> QED
  BY <1>1, <1>3, PTL DEF Spec, KeepsPromise, Promise!Spec

(***************************************************************************)
(* What 115 lists.                                                         *)
(***************************************************************************)
Listing(s) == s \in Seq(Files) /\ IsInjective(s)

LEMMA PageInFolder ==
  ASSUME NEW d \in Folders, NEW offset \in Nat, folders[d] \in Seq(Files), PageSize \in Nat
  PROVE  ToSet(Page(d, offset)) \subseteq In(d)
<1> DEFINE s == folders[d]
           end == IF offset + PageSize < Len(s) THEN offset + PageSize ELSE Len(s)
           t == SubSeq(s, offset + 1, end)
<1>1. Len(s) \in Nat /\ DOMAIN s = 1 .. Len(s) /\ \A i \in 1 .. Len(s) : s[i] \in Files
  BY LenProperties, ElementOfSeq
<1>2. end \in Int /\ end <= Len(s) /\ offset + 1 \in Int
  BY <1>1
<1>3. \A i \in offset + 1 .. end : s[i] \in Files
  BY <1>1, <1>2
<1> HIDE DEF end
<1>4. /\ t \in Seq(Files)
      /\ Len(t) = IF offset + 1 <= end THEN end - (offset + 1) + 1 ELSE 0
      /\ \A i \in 1 .. end - (offset + 1) + 1 : t[i] = s[offset + 1 + i - 1]
  BY <1>2, <1>3, SubSeqProperties
<1> HIDE DEF t
<1>5. DOMAIN t = 1 .. Len(t)
  BY <1>4, LenProperties
<1>6. ASSUME NEW i \in DOMAIN t PROVE t[i] \in ToSet(s)
  <2>1. i \in 1 .. end - (offset + 1) + 1 /\ offset + 1 + i - 1 \in 1 .. Len(s)
    BY <1>2, <1>4, <1>5
  <2>2. t[i] = s[offset + 1 + i - 1]
    BY <1>4, <2>1
  <2> QED
    BY <1>1, <2>1, <2>2 DEF ToSet
<1>7. Page(d, offset) = t
  BY DEF Page, t, end
<1> QED
  BY <1>6, <1>7 DEF In, ToSet

LEMMA PutFirst ==
  ASSUME NEW s, Listing(s), NEW f \in Files, f \notin ToSet(s)
  PROVE  Listing(<<f>> \o s) /\ ToSet(<<f>> \o s) = ToSet(s) \cup {f}
<1> DEFINE t == <<f>> \o s
<1>1. /\ s \in Seq(Files) /\ <<f>> \in Seq(Files) /\ Len(<<f>>) = 1 /\ <<f>>[1] = f
      /\ Len(s) \in Nat /\ DOMAIN s = 1 .. Len(s)
  BY LenProperties DEF Listing
<1>2. /\ t \in Seq(Files) /\ Len(t) = 1 + Len(s)
      /\ \A i \in 1 .. 1 + Len(s) : t[i] = IF i <= 1 THEN <<f>>[i] ELSE s[i - 1]
  BY <1>1, ConcatProperties
<1> HIDE DEF t
<1>3. DOMAIN t = 1 .. 1 + Len(s)
  BY <1>2, LenProperties
<1>4. t[1] = f /\ \A i \in 2 .. 1 + Len(s) : t[i] = s[i - 1] /\ i - 1 \in DOMAIN s
  BY <1>1, <1>2
<1>5. \A i \in DOMAIN s : s[i] = t[i + 1] /\ i + 1 \in DOMAIN t
  BY <1>1, <1>3, <1>4
<1>6. \A i \in DOMAIN s : s[i] # f
  BY DEF ToSet
<1>7. \A i \in DOMAIN t : i = 1 \/ i \in 2 .. 1 + Len(s)
  BY <1>1, <1>3
<1>8. ToSet(t) = ToSet(s) \cup {f}
  <2>1. \A i \in DOMAIN t : t[i] \in ToSet(s) \cup {f}
    BY <1>4, <1>7 DEF ToSet
  <2>2. \A i \in DOMAIN s : s[i] \in ToSet(t)
    BY <1>5 DEF ToSet
  <2>3. 1 \in DOMAIN t /\ f \in ToSet(t)
    BY <1>1, <1>3, <1>4 DEF ToSet
  <2> QED
    BY <2>1, <2>2, <2>3 DEF ToSet
<1>9. IsInjective(t)
  <2> SUFFICES ASSUME NEW i \in DOMAIN t, NEW j \in DOMAIN t, t[i] = t[j] PROVE i = j
    BY DEF IsInjective
  <2>1. CASE i = 1 /\ j = 1
    BY <2>1
  <2>2. CASE i = 1 /\ j \in 2 .. 1 + Len(s)
    BY <1>4, <1>6, <2>2
  <2>3. CASE i \in 2 .. 1 + Len(s) /\ j = 1
    BY <1>4, <1>6, <2>3
  <2>4. CASE i \in 2 .. 1 + Len(s) /\ j \in 2 .. 1 + Len(s)
    <3>1. i - 1 \in DOMAIN s /\ j - 1 \in DOMAIN s /\ s[i - 1] = s[j - 1]
      BY <1>4, <2>4
    <3>2. i - 1 = j - 1
      BY <3>1 DEF Listing, IsInjective
    <3> QED
      BY <2>4, <3>2, <1>1
  <2> QED
    BY <1>7, <2>1, <2>2, <2>3, <2>4
<1> QED
  BY <1>2, <1>8, <1>9 DEF Listing, t

LEMMA EndOfSeq ==
  ASSUME NEW s, NEW n \in Nat, NEW k \in Int, 1 <= k, k <= n, \A i \in 1 .. n : s[i] \in Files
  PROVE  /\ SubSeq(s, k + 1, n) \in Seq(Files)
         /\ Len(SubSeq(s, k + 1, n)) = n - k
         /\ \A i \in 1 .. n - k : SubSeq(s, k + 1, n)[i] = s[k + i]
<1> DEFINE b == SubSeq(s, k + 1, n)
           m == k + 1
<1>1. m \in Int /\ n \in Int /\ \A i \in m .. n : s[i] \in Files
  OBVIOUS
<1>2. m = k + 1
  OBVIOUS
<1> HIDE DEF m
<1>3. /\ SubSeq(s, m, n) \in Seq(Files)
      /\ Len(SubSeq(s, m, n)) = IF m <= n THEN n - m + 1 ELSE 0
      /\ \A i \in 1 .. n - m + 1 : SubSeq(s, m, n)[i] = s[m + i - 1]
  BY <1>1, SubSeqProperties
<1>4. (IF m <= n THEN n - m + 1 ELSE 0) = n - k /\ n - m + 1 = n - k
  BY <1>2
<1>5. \A i \in Int : m + i - 1 = k + i
  BY <1>2
<1>6. b = SubSeq(s, m, n)
  BY <1>2
<1> HIDE DEF b
<1>7. Len(b) = n - k
  BY <1>3, <1>4, <1>6
<1>8. ASSUME NEW i \in 1 .. n - k PROVE b[i] = s[k + i]
  <2>1. i \in 1 .. n - m + 1 /\ i \in Int
    BY <1>4
  <2>2. b[i] = s[m + i - 1]
    BY <1>3, <1>6, <2>1
  <2> QED
    BY <1>5, <2>1, <2>2
<1> QED
  BY <1>3, <1>6, <1>7, <1>8 DEF b

LEMMA TakeOut ==
  ASSUME NEW s, Listing(s), NEW f, f \in ToSet(s)
  PROVE  Listing(RemoveAt(s, Place(f, s))) /\ ToSet(RemoveAt(s, Place(f, s))) = ToSet(s) \ {f}
<1> DEFINE k == Place(f, s)
           a == SubSeq(s, 1, k - 1)
           b == SubSeq(s, k + 1, Len(s))
           t == a \o b
<1>1. /\ s \in Seq(Files) /\ Len(s) \in Nat /\ DOMAIN s = 1 .. Len(s)
      /\ \A i \in 1 .. Len(s) : s[i] \in Files
  BY LenProperties, ElementOfSeq DEF Listing
<1>2. k \in DOMAIN s /\ s[k] = f
  <2>1. \E i \in DOMAIN s : s[i] = f
    BY DEF ToSet
  <2> QED
    BY <2>1 DEF Place
<1> HIDE DEF k
<1>3. k \in Int /\ 1 <= k /\ k <= Len(s)
  BY <1>1, <1>2
<1>4. /\ a \in Seq(Files) /\ Len(a) = k - 1
      /\ \A i \in 1 .. k - 1 : a[i] = s[i]
  <2>1. \A i \in 1 .. k - 1 : s[i] \in Files
    BY <1>1, <1>3
  <2>2. k - 1 \in Int
    BY <1>3
  <2>3. /\ a \in Seq(Files) /\ Len(a) = IF 1 <= k - 1 THEN (k - 1) - 1 + 1 ELSE 0
        /\ \A i \in 1 .. (k - 1) - 1 + 1 : a[i] = s[1 + i - 1]
    BY <2>1, <2>2, SubSeqProperties, SMTT(30)
  <2> HIDE DEF a
  <2> QED
    BY <1>3, <2>3
<1>5. b \in Seq(Files) /\ Len(b) = Len(s) - k /\ \A i \in 1 .. Len(s) - k : b[i] = s[k + i]
  BY <1>1, <1>3, EndOfSeq
<1> HIDE DEF a, b
<1>6. /\ t \in Seq(Files) /\ Len(t) = Len(s) - 1
      /\ \A i \in 1 .. Len(s) - 1 : t[i] = IF i < k THEN s[i] ELSE s[i + 1]
  <2>1. /\ t \in Seq(Files) /\ Len(t) = Len(a) + Len(b)
        /\ \A i \in 1 .. Len(a) + Len(b) : t[i] = IF i <= Len(a) THEN a[i] ELSE b[i - Len(a)]
    BY <1>4, <1>5, ConcatProperties
  <2> HIDE DEF t
  <2>2. Len(t) = Len(s) - 1 /\ Len(a) + Len(b) = Len(s) - 1
    BY <1>1, <1>3, <1>4, <1>5, <2>1
  <2>3. ASSUME NEW i \in 1 .. Len(s) - 1 PROVE t[i] = IF i < k THEN s[i] ELSE s[i + 1]
    <3>1. CASE i < k
      <4>1. i \in 1 .. k - 1 /\ i <= Len(a)
        BY <1>3, <1>4, <3>1
      <4> QED
        BY <1>4, <2>1, <2>2, <2>3, <3>1, <4>1
    <3>2. CASE ~(i < k)
      <4>1. i - Len(a) \in 1 .. Len(s) - k /\ ~(i <= Len(a)) /\ k + (i - Len(a)) = i + 1
        BY <1>1, <1>3, <1>4, <2>3, <3>2
      <4>2. t[i] = b[i - Len(a)] /\ b[i - Len(a)] = s[k + (i - Len(a))]
        BY <1>5, <2>1, <2>2, <2>3, <4>1
      <4> QED
        BY <3>2, <4>1, <4>2
    <3> QED
      BY <3>1, <3>2
  <2> QED
    BY <2>1, <2>2, <2>3
<1> HIDE DEF t
<1>7. DOMAIN t = 1 .. Len(s) - 1
  BY <1>6, LenProperties
<1> DEFINE Old(i) == IF i < k THEN i ELSE i + 1
<1>8. \A i \in DOMAIN t : Old(i) \in DOMAIN s /\ t[i] = s[Old(i)] /\ Old(i) # k
  BY <1>1, <1>3, <1>6, <1>7
<1>9. \A i, j \in DOMAIN t : Old(i) = Old(j) => i = j
  BY <1>1, <1>3, <1>7
<1>10. \A j \in DOMAIN s : j # k => \E i \in DOMAIN t : Old(i) = j
  <2> SUFFICES ASSUME NEW j \in DOMAIN s, j # k PROVE \E i \in DOMAIN t : Old(i) = j
    OBVIOUS
  <2>1. CASE j < k
    BY <1>1, <1>3, <1>7, <2>1
  <2>2. CASE ~(j < k)
    <3>1. j - 1 \in DOMAIN t /\ ~(j - 1 < k) /\ (j - 1) + 1 = j
      BY <1>1, <1>3, <1>7, <2>2
    <3> QED
      BY <3>1
  <2> QED
    BY <2>1, <2>2
<1> HIDE DEF Old
<1>11. \A i, j \in DOMAIN s : s[i] = s[j] => i = j
  BY DEF Listing, IsInjective
<1>12. IsInjective(t)
  BY <1>8, <1>9, <1>11 DEF IsInjective
<1>13. ToSet(t) = ToSet(s) \ {f}
  <2>1. \A i \in DOMAIN t : t[i] \in ToSet(s) \ {f}
    BY <1>2, <1>8, <1>11 DEF ToSet
  <2>2. \A j \in DOMAIN s : s[j] # f => s[j] \in ToSet(t)
    BY <1>2, <1>8, <1>10 DEF ToSet
  <2> QED
    BY <2>1, <2>2 DEF ToSet
<1>14. RemoveAt(s, k) = t
  BY DEF RemoveAt, t, a, b
<1> QED
  BY <1>6, <1>12, <1>13, <1>14 DEF Listing, k

FoldersOK == folders \in [Folders -> Seq(Files)] /\ \A d \in Folders : Listing(folders[d])

LEMMA UploadLists ==
  ASSUME FoldersOK, NEW f \in Files, Upload(f)
  PROVE  FoldersOK' /\ \A d \in Folders : In(d)' = IF d = Home[f] THEN In(d) \cup {f} ELSE In(d)
<1>1. /\ \A d \in Folders : f \notin ToSet(folders[d])
      /\ folders' = [folders EXCEPT ![Home[f]] = <<f>> \o @]
  BY DEF Upload, In
<1>2. Home[f] \in Folders
  BY CloudAssumption DEF Folders
<1>3. Listing(<<f>> \o folders[Home[f]]) /\ ToSet(<<f>> \o folders[Home[f]]) = ToSet(folders[Home[f]]) \cup {f}
  BY <1>1, <1>2, PutFirst DEF FoldersOK
<1> DEFINE s == <<f>> \o folders[Home[f]]
<1> HIDE DEF s
<1>4. Listing(s) /\ ToSet(s) = ToSet(folders[Home[f]]) \cup {f} /\ folders' = [folders EXCEPT ![Home[f]] = s]
  BY <1>1, <1>3 DEF s
<1>5. \A d \in Folders : folders'[d] = IF d = Home[f] THEN s ELSE folders[d]
  BY <1>4 DEF FoldersOK
<1>6. FoldersOK'
  BY <1>4, <1>5 DEF FoldersOK, Listing
<1>7. ASSUME NEW d \in Folders
      PROVE  In(d)' = IF d = Home[f] THEN In(d) \cup {f} ELSE In(d)
  <2>1. In(d)' = ToSet(folders'[d]) /\ In(d) = ToSet(folders[d])
    BY DEF In
  <2>2. CASE d = Home[f]
    BY <1>4, <1>5, <2>1, <2>2
  <2>3. CASE d # Home[f]
    BY <1>5, <2>1, <2>3
  <2> QED
    BY <2>2, <2>3
<1> QED
  BY <1>6, <1>7

\* Every folder without f.
LEMMA WithoutLists ==
  ASSUME FoldersOK, NEW f \in Files
  PROVE  \A d \in Folders : /\ Listing(WithoutFile(f)[d])
                            /\ ToSet(WithoutFile(f)[d]) = In(d) \ {f}
<1> SUFFICES ASSUME NEW d \in Folders
             PROVE  Listing(WithoutFile(f)[d]) /\ ToSet(WithoutFile(f)[d]) = In(d) \ {f}
  OBVIOUS
<1>1. Listing(folders[d])
  BY DEF FoldersOK
<1>2. WithoutFile(f)[d] = IF f \in In(d) THEN RemoveAt(folders[d], Place(f, folders[d])) ELSE folders[d]
  BY DEF WithoutFile
<1>3. CASE f \in In(d)
  BY <1>1, <1>2, <1>3, TakeOut DEF In
<1>4. CASE f \notin In(d)
  BY <1>1, <1>2, <1>4 DEF In
<1> QED
  BY <1>3, <1>4

LEMMA DisposeLists ==
  ASSUME FoldersOK, NEW f \in Files, Disposes(f)
  PROVE  /\ FoldersOK'
         /\ \/ UNCHANGED <<folders, removed>>
            \/ removed' = removed \cup {f} /\ \A d \in Folders : In(d)' = In(d) \ {f}
<1>1. CASE setting.success = "keep"
  BY <1>1 DEF Disposes, FoldersOK
<1>2. CASE setting.success # "keep"
  <2>1. folders' = WithoutFile(f) /\ removed' = removed \cup {f}
    BY <1>2 DEF Disposes
  <2>2. \A d \in Folders : Listing(folders'[d]) /\ In(d)' = In(d) \ {f}
    BY <2>1, WithoutLists DEF In
  <2>3. FoldersOK'
    BY <2>1, <2>2 DEF FoldersOK, Listing, WithoutFile
  <2> QED
    BY <2>1, <2>2, <2>3
<1> QED
  BY <1>1, <1>2

LEMMA MoveLists ==
  ASSUME FoldersOK, NEW f \in Files, Moves(f)
  PROVE  /\ FoldersOK'
         /\ In("failure")' = In("failure") \cup {f}
         /\ \A d \in Folders \ {"failure"} :
                In(d)' = In(d) \/ In(d)' = In(d) \ {f}
         /\ f \in In("failure") => UNCHANGED folders
         /\ f \notin In("failure") => \A d \in Folders \ {"failure"} : f \notin In(d)'
<1>1. CASE f \in In("failure")
  BY <1>1 DEF Moves, FoldersOK, In
<1>2. CASE f \notin In("failure")
  <2> DEFINE s == <<f>> \o WithoutFile(f)["failure"]
  <2>1. folders' = [WithoutFile(f) EXCEPT !["failure"] = s] /\ "failure" \in Folders
    BY <1>2 DEF Moves, Folders
  <2>2. Listing(s) /\ ToSet(s) = In("failure") \cup {f}
    <3>1. Listing(WithoutFile(f)["failure"]) /\ ToSet(WithoutFile(f)["failure"]) = In("failure") \ {f}
      BY <2>1, WithoutLists
    <3> QED
      BY <3>1, PutFirst
  <2> HIDE DEF s
  <2>3. \A d \in Folders : folders'[d] = IF d = "failure" THEN s ELSE WithoutFile(f)[d]
    BY <2>1 DEF WithoutFile
  <2>4. \A d \in Folders : Listing(folders'[d])
    BY <2>2, <2>3, WithoutLists
  <2>5. FoldersOK'
    <3>1. DOMAIN folders' = Folders /\ folders' = [d \in Folders |-> folders'[d]]
      BY <2>1 DEF WithoutFile
    <3> QED
      BY <2>4, <3>1 DEF FoldersOK, Listing
  <2>6. \A d \in Folders \ {"failure"} : In(d)' = In(d) \ {f}
    BY <2>3, WithoutLists DEF In
  <2>7. In("failure")' = In("failure") \cup {f}
    BY <2>1, <2>2, <2>3 DEF In
  <2> QED
    BY <1>2, <2>5, <2>6, <2>7
<1> QED
  BY <1>1, <1>2

(***************************************************************************)
(* The types.  That no job exceeds its attempts needs that whoever is      *)
(* about to make one has one left.                                         *)
(***************************************************************************)
Early == {"queued", "ready", "list", "try", "sleep"}

GoroutinesOK ==
    /\ job \in [Files -> Jobs]
    /\ \A f \in Files : /\ job[f].at \in Early => job[f].try < Retries
                        /\ job[f].at = "none" => job[f] = NoJob

SetsOK ==
    /\ extracted \subseteq Files /\ removed \subseteq Files
    /\ processed \subseteq Files /\ ignored \subseteq Files /\ cancelled \subseteq Files
    /\ asked \subseteq Files /\ overtaken \subseteq Files

RecordsOK ==
    /\ setting \in Settings /\ paused \in BOOLEAN
    /\ failed \in [Files -> Stages]
    /\ pending \in [Files -> {"none", "approval", "approved"}]
    /\ row \in [Files -> {"none", "shown", "cloud", "offer", "off"}]
    /\ local \in [Files -> {"none", "mark", "file", "forget"}]

ScannerOK ==
    /\ DOMAIN scan = {"at", "folder", "page", "todo", "asked", "full"}
    /\ scan.at \in Scans /\ scan.folder \in {"source", "download"} /\ scan.page \in Nat
    /\ scan.todo \subseteq Files /\ scan.asked \subseteq Files
    /\ offsets \in [Folders -> Nat]

TypeInv == FoldersOK /\ GoroutinesOK /\ SetsOK /\ RecordsOK /\ ScannerOK

LEMMA TypeInvTypes == TypeInv => TypeOK
  BY DEF TypeInv, FoldersOK, Listing, GoroutinesOK, SetsOK, RecordsOK, ScannerOK, TypeOK

LEMMA TriesLeft == Retries \in Nat /\ 0 < Retries /\ 0 \in 0 .. Retries
  BY CloudAssumption

LEMMA InitTypes == Init => TypeInv
<1> SUFFICES ASSUME Init PROVE TypeInv
  OBVIOUS
<1>1. FoldersOK
  <2>1. folders = [d \in Folders |-> <<>>] /\ <<>> \in Seq(Files) /\ DOMAIN <<>> = {}
    BY EmptySeq DEF Init
  <2> QED
    BY <2>1 DEF FoldersOK, Listing, IsInjective
<1>2. GoroutinesOK
  BY TriesLeft DEF Init, GoroutinesOK, Jobs, Steps, NoJob, Early
<1>3. SetsOK /\ RecordsOK /\ ScannerOK
  BY DEF Init, SetsOK, RecordsOK, ScannerOK, Stages, NoScan, Scans
<1> QED
  BY <1>1, <1>2, <1>3 DEF TypeInv

\* What becomes of the jobs.
LEMMA GoesOn ==
  ASSUME GoroutinesOK, NEW f \in Files, NEW step \in Steps \ {"none"}, Goes(f, step),
         step \in Early => job[f].try < Retries
  PROVE  /\ GoroutinesOK'
         /\ job'[f].at = step /\ job'[f].by = job[f].by
         /\ \A g \in Files \ {f} : job'[g] = job[g]
<1> DEFINE j == [job[f] EXCEPT !.at = step]
<1>1. job[f] \in Jobs
  BY DEF GoroutinesOK
<1>2. j \in Jobs /\ j.at = step /\ j.by = job[f].by /\ j.try = job[f].try
  BY <1>1 DEF Jobs
<1>3. job' = [job EXCEPT ![f] = j]
  BY DEF Goes
<1> HIDE DEF j
<1>4. \A g \in Files : job'[g] = IF g = f THEN j ELSE job[g]
  BY <1>3 DEF GoroutinesOK
<1> QED
  BY <1>2, <1>3, <1>4 DEF GoroutinesOK

LEMMA EndsThere ==
  ASSUME GoroutinesOK, NEW f \in Files, Ends(f)
  PROVE  /\ GoroutinesOK'
         /\ job'[f] = NoJob /\ job'[f].at = "none" /\ job'[f].by = "scan"
         /\ \A g \in Files \ {f} : job'[g] = job[g]
<1>1. NoJob \in Jobs /\ NoJob.at = "none" /\ NoJob.by = "scan"
  BY TriesLeft DEF NoJob, Jobs, Steps
<1>2. \A g \in Files : job'[g] = IF g = f THEN NoJob ELSE job[g]
  BY DEF GoroutinesOK, Ends
<1>3. job' = [job EXCEPT ![f] = NoJob]
  BY DEF Ends
<1> QED
  BY <1>1, <1>2, <1>3 DEF GoroutinesOK, Early

LEMMA QueuesUp ==
  ASSUME GoroutinesOK, NEW f \in Files, NEW j \in Jobs, j.at = "queued", j.try = 0,
         job' = [job EXCEPT ![f] = j]
  PROVE  /\ GoroutinesOK'
         /\ job'[f] = j
         /\ \A g \in Files \ {f} : job'[g] = job[g]
<1>1. \A g \in Files : job'[g] = IF g = f THEN j ELSE job[g]
  BY DEF GoroutinesOK
<1> QED
  BY <1>1, TriesLeft DEF GoroutinesOK

LEMMA NewJobs ==
  /\ LET j == [NoJob EXCEPT !.at = "queued"]
     IN  j \in Jobs /\ j.at = "queued" /\ j.try = 0 /\ j.by = "scan"
  /\ \A by \in {"pending", "history"} :
        LET j == [NoJob EXCEPT !.at = "queued", !.by = by]
        IN  j \in Jobs /\ j.at = "queued" /\ j.try = 0 /\ j.by = by
  BY TriesLeft DEF NoJob, Jobs, Steps

LEMMA TriesOnce ==
  ASSUME GoroutinesOK, NEW f \in Files, job[f].at = "try",
         job' = [job EXCEPT ![f].at = "cloud", ![f].try = @ + 1]
  PROVE  /\ GoroutinesOK'
         /\ job'[f].at = "cloud" /\ job'[f].by = job[f].by
         /\ \A g \in Files \ {f} : job'[g] = job[g]
<1> DEFINE j == [at |-> "cloud", try |-> job[f].try + 1, by |-> job[f].by]
<1>1. job[f] \in Jobs /\ job[f].try < Retries
  BY DEF GoroutinesOK, Early
<1>2. j \in Jobs /\ j.at = "cloud" /\ j.by = job[f].by
  BY <1>1, TriesLeft DEF Jobs, Steps
<1>3. job' = [job EXCEPT ![f] = j]
  BY <1>1 DEF Jobs, GoroutinesOK
<1> HIDE DEF j
<1>4. \A g \in Files : job'[g] = IF g = f THEN j ELSE job[g]
  BY <1>3 DEF GoroutinesOK
<1> QED
  BY <1>2, <1>3, <1>4 DEF GoroutinesOK, Early

\* A step of a goroutine, as far as its job is concerned.
LEMMA WorkingGoes ==
  ASSUME GoroutinesOK, NEW f \in Files, Working(f) \/ TakesSlot(f)
  PROVE  /\ GoroutinesOK'
         /\ \A g \in Files \ {f} : job'[g] = job[g]
<1> USE DEF At
<1>1. CASE Ends(f)
  BY <1>1, EndsThere
<1>2. ASSUME NEW step \in Steps \ {"none"}, Goes(f, step), step \in Early => job[f].try < Retries
      PROVE  GoroutinesOK' /\ \A g \in Files \ {f} : job'[g] = job[g]
  BY <1>2, GoesOn
<1>3. job[f].at \in Early => job[f].try < Retries
  BY DEF GoroutinesOK
<1>4. CASE Starts(f)
  BY <1>1, <1>2, <1>3, <1>4 DEF Starts, Steps, Early
<1>5. CASE Attempts(f)
  BY <1>1, <1>5, TriesOnce DEF Attempts
<1>6. CASE Fails(f)
  BY <1>1, <1>2, <1>6 DEF Fails, Steps, Early
<1>7. CASE Lists(f) \/ Wakes(f) \/ TakesSlot(f)
  BY <1>2, <1>3, <1>7 DEF Lists, Wakes, TakesSlot, Steps, Early
<1>8. CASE \/ ListFails(f) \/ Succeeds(f) \/ Marks(f) \/ Finishes(f) \/ FinishFails(f) \/ Cools(f)
           \/ GivesUp(f) \/ Moves(f) \/ MoveFails(f) \/ Saves(f) \/ HandsOver(f)
  <2>1. Ends(f) \/ \E step \in Steps \ (Early \cup {"none"}) : Goes(f, step)
    BY <1>8 DEF ListFails, Succeeds, Marks, Finishes, FinishFails, Cools, GivesUp, Moves, MoveFails,
                Saves, HandsOver, Steps, Early
  <2> QED
    BY <1>1, <1>2, <2>1
<1> QED
  BY <1>4, <1>5, <1>6, <1>7, <1>8 DEF Working

\* The actions by what they leave alone.
LEMMA NextCases ==
  ASSUME [Next]_vars
  PROVE  \/ UNCHANGED vars
         \/ Scanning \/ Resuming \/ User \/ Resume \/ ScanPageFails \/ Crash
         \/ \E f \in Files : Upload(f) \/ TakesSlot(f) \/ Working(f) \/ Downloading(f) \/ Drops(f)
  BY DEF Next

LEMMA FoldersStep ==
  ASSUME FoldersOK, [Next]_vars
  PROVE  FoldersOK'
<1> USE DEF cloud, state, workers, copies, scanner
<1>1. CASE UNCHANGED folders
  BY <1>1 DEF FoldersOK
<1>2. CASE UNCHANGED vars \/ Scanning \/ ScanPageFails
  BY <1>1, <1>2 DEF vars, Scanning, ScanPageFails, TimerScan, ResumeScan, ScanStart, ScanPage, ScanNext,
         ScanSkips, ScanAsks, ScanQueues, ScanRefreshes
<1>3. CASE Resuming \/ Resume \/ Crash
  BY <1>1, <1>3 DEF Resuming, FailureLists, ResumeDownloads, FailureAsks, Resume, Crash
<1>4. CASE User
  BY <1>1, <1>4 DEF User, UserScan, ScanStart, StopClear, ResetHistory, Approve, RetryCloud, RetryHistory,
         Cancel, Ignore, Unignore
<1>5. ASSUME NEW f \in Files, Upload(f)
      PROVE  FoldersOK'
  BY <1>5, UploadLists
<1>6. ASSUME NEW f \in Files, Working(f) \/ TakesSlot(f)
      PROVE  FoldersOK'
  <2>1. CASE Finishes(f)
    BY <2>1, DisposeLists DEF Finishes
  <2>2. CASE Moves(f)
    BY <2>2, MoveLists
  <2>3. CASE ~Finishes(f) /\ ~Moves(f)
    BY <1>1, <1>6, <2>3 DEF Working, TakesSlot, Starts, Lists, ListFails, Attempts, Succeeds, Fails, Wakes,
           Marks, FinishFails, Cools, GivesUp, MoveFails, Saves, HandsOver, NothingDone
  <2> QED
    BY <2>1, <2>2, <2>3
<1>7. ASSUME NEW f \in Files, Downloading(f) \/ Drops(f)
      PROVE  FoldersOK'
  <2>1. CASE LocalDisposes(f)
    BY <2>1, DisposeLists DEF LocalDisposes
  <2>2. CASE ~LocalDisposes(f)
    BY <1>1, <1>7, <2>2 DEF Downloading, Drops, Extracts, LocalMarks, LocalDisposeFails, LocalForgets
  <2> QED
    BY <2>1, <2>2
<1> QED
  BY <1>2, <1>3, <1>4, <1>5, <1>6, <1>7, NextCases

LEMMA GoroutinesStep ==
  ASSUME GoroutinesOK, [Next]_vars
  PROVE  GoroutinesOK'
<1> USE DEF cloud, state, workers, copies, scanner
<1>1. CASE UNCHANGED job
  BY <1>1 DEF GoroutinesOK
<1>2. CASE UNCHANGED vars \/ ScanPageFails \/ (Scanning /\ ~\E f \in Files : ScanQueues(f))
  BY <1>1, <1>2 DEF vars, Scanning, ScanPageFails, TimerScan, ResumeScan, ScanStart, ScanPage, ScanNext,
         ScanSkips, ScanAsks, ScanRefreshes
<1>3. CASE Resuming \/ Resume
  BY <1>1, <1>3 DEF Resuming, FailureLists, ResumeDownloads, FailureAsks, Resume
<1>4. CASE Crash
  <2>1. NoJob \in Jobs /\ NoJob.at = "none"
    BY TriesLeft DEF NoJob, Jobs, Steps
  <2>2. job' = [f \in Files |-> NoJob]
    BY <1>4 DEF Crash
  <2> QED
    BY <2>1, <2>2 DEF GoroutinesOK, Early
<1>5. ASSUME NEW f \in Files, ScanQueues(f)
      PROVE  GoroutinesOK'
  <2>1. UNCHANGED job \/ job' = [job EXCEPT ![f] = [NoJob EXCEPT !.at = "queued"]]
    BY <1>5 DEF ScanQueues
  <2> QED
    BY <1>1, <2>1, NewJobs, QueuesUp
<1>6. ASSUME NEW f \in Files, RetryCloud(f) \/ RetryHistory(f)
      PROVE  GoroutinesOK'
  <2>1. UNCHANGED job \/ \E by \in {"pending", "history"} :
            job' = [job EXCEPT ![f] = [NoJob EXCEPT !.at = "queued", !.by = by]]
    BY <1>6 DEF RetryCloud, RetryHistory
  <2> QED
    BY <1>1, <2>1, NewJobs, QueuesUp
<1>7. CASE User /\ ~\E f \in Files : RetryCloud(f) \/ RetryHistory(f)
  BY <1>1, <1>7 DEF User, UserScan, ScanStart, StopClear, ResetHistory, Approve, Cancel, Ignore, Unignore
<1>8. ASSUME NEW f \in Files, Upload(f) \/ Downloading(f) \/ Drops(f)
      PROVE  GoroutinesOK'
  BY <1>1, <1>8 DEF Upload, Downloading, Drops, Extracts, LocalMarks, LocalDisposes, LocalDisposeFails,
         LocalForgets, Aside
<1>9. ASSUME NEW f \in Files, Working(f) \/ TakesSlot(f)
      PROVE  GoroutinesOK'
  BY <1>9, WorkingGoes
<1> QED
  BY <1>2, <1>3, <1>4, <1>5, <1>6, <1>7, <1>8, <1>9, NextCases

LEMMA SetsStep ==
  ASSUME SetsOK, ScannerOK, [Next]_vars
  PROVE  SetsOK'
<1> USE DEF cloud, state, workers, copies, scanner
<1>1. CASE UNCHANGED <<extracted, removed, processed, ignored, cancelled, asked, overtaken>>
  BY <1>1 DEF SetsOK
<1>2. CASE UNCHANGED vars \/ ScanPageFails \/ TimerScan \/ ResumeScan \/ ScanPage \/ ScanNext
  BY <1>1, <1>2 DEF vars, ScanPageFails, TimerScan, ResumeScan, ScanStart, ScanPage, ScanNext
<1>3. ASSUME NEW f \in Files, ScanSkips(f) \/ ScanAsks(f) \/ ScanQueues(f) \/ ScanRefreshes(f)
      PROVE  SetsOK'
  BY <1>3 DEF ScanSkips, ScanAsks, ScanQueues, ScanRefreshes, Refreshes, SetsOK
<1>4. CASE Resuming \/ Resume \/ Crash
  BY <1>4 DEF Resuming, FailureLists, ResumeDownloads, FailureAsks, Resume, Crash, Refreshes, SetsOK
<1>5. CASE User
  <2>1. CASE UserScan \/ StopClear \/ ResetHistory
    BY <2>1 DEF UserScan, ScanStart, StopClear, ResetHistory, SetsOK
  <2>2. ASSUME NEW f \in Files, Approve(f) \/ RetryCloud(f) \/ RetryHistory(f)
        PROVE  SetsOK'
    BY <2>2 DEF Approve, RetryCloud, RetryHistory, Refreshes, SetsOK
  <2>3. ASSUME NEW f \in Files, Cancel(f) \/ Ignore(f) \/ Unignore(f)
        PROVE  SetsOK'
    BY <2>3 DEF Cancel, Ignore, Unignore, Drop, SetsOK
  <2> QED
    BY <1>5, <2>1, <2>2, <2>3 DEF User
<1>6. ASSUME NEW f \in Files, Upload(f) \/ TakesSlot(f)
      PROVE  SetsOK'
  BY <1>1, <1>6 DEF Upload, TakesSlot, Alone, NothingDone
<1>7. ASSUME NEW f \in Files, Working(f)
      PROVE  SetsOK'
  BY <1>7 DEF Working, Starts, Lists, ListFails, Attempts, Succeeds, Fails, Wakes,
           Marks, Finishes, Disposes, FinishFails, Cools, GivesUp, Moves, MoveFails, Saves, HandsOver,
           NothingDone, Alone, Refreshes, SetsOK
<1>8. ASSUME NEW f \in Files, Downloading(f) \/ Drops(f)
      PROVE  SetsOK'
  BY <1>8 DEF Downloading, Drops, Extracts, LocalMarks, LocalDisposes, Disposes, LocalDisposeFails,
         LocalForgets, Aside, SetsOK
<1> QED
  BY <1>2, <1>3, <1>4, <1>5, <1>6, <1>7, <1>8, NextCases DEF Scanning

LEMMA RecordsStep ==
  ASSUME RecordsOK, [Next]_vars
  PROVE  RecordsOK'
<1> USE DEF cloud, state, workers, copies, scanner, Shows, Stages
<1>1. CASE UNCHANGED <<setting, paused, failed, pending, row, local>>
  BY <1>1 DEF RecordsOK
<1>2. CASE UNCHANGED vars \/ ScanPageFails \/ TimerScan \/ ResumeScan \/ ScanPage \/ ScanNext
  BY <1>1, <1>2 DEF vars, ScanPageFails, TimerScan, ResumeScan, ScanStart, ScanPage, ScanNext
<1>3. ASSUME NEW f \in Files, ScanSkips(f) \/ ScanAsks(f) \/ ScanRefreshes(f)
      PROVE  RecordsOK'
  BY <1>1, <1>3 DEF ScanSkips, ScanAsks, ScanRefreshes
<1>4. ASSUME NEW f \in Files, ScanQueues(f)
      PROVE  RecordsOK'
  BY <1>4 DEF ScanQueues, RecordsOK
<1>5. CASE Resuming \/ Resume \/ Crash
  <2>1. CASE FailureLists \/ ResumeDownloads
    BY <1>1, <2>1 DEF FailureLists, ResumeDownloads
  <2>3. CASE Resume
    BY <2>3 DEF Resume, RecordsOK
  <2>4. CASE Crash
    BY <2>4 DEF Crash, RecordsOK
  <2>2. ASSUME NEW f \in Files, FailureAsks(f)
        PROVE  RecordsOK'
    BY <2>2 DEF FailureAsks, RecordsOK
  <2> QED
    BY <1>5, <2>1, <2>2, <2>3, <2>4 DEF Resuming
<1>6. CASE User
  <2>1. CASE UserScan \/ StopClear \/ ResetHistory
    <3>1. CASE UserScan
      BY <3>1 DEF UserScan, ScanStart, RecordsOK
    <3>2. CASE StopClear
      BY <3>2 DEF StopClear, RecordsOK
    <3>3. CASE ResetHistory
      BY <3>3 DEF ResetHistory, RecordsOK
    <3> QED
      BY <2>1, <3>1, <3>2, <3>3
  <2>2. ASSUME NEW f \in Files, Approve(f) \/ RetryCloud(f) \/ RetryHistory(f)
        PROVE  RecordsOK'
    BY <2>2 DEF Approve, RetryCloud, RetryHistory, RecordsOK
  <2>3. ASSUME NEW f \in Files, Cancel(f) \/ Ignore(f) \/ Unignore(f)
        PROVE  RecordsOK'
    BY <2>3 DEF Cancel, Ignore, Unignore, Drop, RecordsOK
  <2> QED
    BY <1>6, <2>1, <2>2, <2>3 DEF User
<1>7. ASSUME NEW f \in Files, Upload(f) \/ TakesSlot(f)
      PROVE  RecordsOK'
  BY <1>1, <1>7 DEF Upload, TakesSlot, Alone, NothingDone
<1>8. ASSUME NEW f \in Files, Working(f)
      PROVE  RecordsOK'
  <2>1. CASE \/ Starts(f) \/ Attempts(f) \/ Succeeds(f) \/ Fails(f) \/ Wakes(f) \/ Cools(f) \/ Moves(f)
    BY <2>1 DEF Starts, Attempts, Succeeds, Fails, Wakes, Cools, Moves, NothingDone, Alone, RecordsOK
  <2>2. CASE \/ Lists(f) \/ ListFails(f) \/ Saves(f) \/ HandsOver(f)
    BY <2>2 DEF Lists, ListFails, Saves, HandsOver, Alone, RecordsOK
  <2>3. CASE \/ Marks(f) \/ Finishes(f) \/ FinishFails(f) \/ GivesUp(f) \/ MoveFails(f)
    BY <2>3 DEF Marks, Finishes, FinishFails, GivesUp, MoveFails, Alone, RecordsOK
  <2> QED
    BY <1>8, <2>1, <2>2, <2>3 DEF Working
<1>9. ASSUME NEW f \in Files, Downloading(f) \/ Drops(f)
      PROVE  RecordsOK'
  BY <1>9 DEF Downloading, Drops, Extracts, LocalMarks, LocalDisposes, LocalDisposeFails,
         LocalForgets, Aside, Local, RecordsOK
<1> QED
  BY <1>2, <1>3, <1>4, <1>5, <1>6, <1>7, <1>8, <1>9, NextCases DEF Scanning

LEMMA ScannerStep ==
  ASSUME ScannerOK, FoldersOK, [Next]_vars
  PROVE  ScannerOK'
<1> USE DEF cloud, state, workers, copies, scanner
<1>1. CASE UNCHANGED <<scan, offsets>>
  BY <1>1 DEF ScannerOK
<1>2. ASSUME NEW full \in BOOLEAN, ScanStart(full)
      PROVE  ScannerOK'
  BY <1>2 DEF ScanStart, ScannerOK, NoScan, Scans
<1>3. CASE TimerScan \/ UserScan \/ ResumeScan
  BY <1>1, <1>2, <1>3 DEF TimerScan, UserScan, ResumeScan
<1>4. CASE ScanPage
  <2> DEFINE start == offsets[scan.folder]
             batch == Page(scan.folder, start + scan.page * PageSize)
  <2>1. /\ scan.folder \in Folders /\ start \in Nat /\ scan.page \in Nat
        /\ PageSize \in Nat /\ PageBudget \in Nat
    BY CloudAssumption DEF ScannerOK, Folders
  <2>2. start + scan.page * PageSize \in Nat /\ start + PageBudget * PageSize \in Nat
    <3>1. scan.page * PageSize \in Nat /\ PageBudget * PageSize \in Nat
      BY <2>1
    <3> QED
      BY <2>1, <3>1
  <2>3. ToSet(batch) \subseteq Files
    <3>1. folders[scan.folder] \in Seq(Files)
      BY <2>1 DEF FoldersOK
    <3>2. In(scan.folder) \subseteq Files
      BY <3>1, LenProperties, ElementOfSeq DEF In, ToSet
    <3> QED
      BY <2>1, <2>2, <3>1, <3>2, PageInFolder
  <2> DEFINE todo == scan.todo \cup ToSet(batch)
             ends == Len(batch) < PageSize \/ scan.page + 1 = PageBudget
             s == [scan EXCEPT !.todo = todo, !.at = IF ends THEN "file" ELSE @, !.page = IF ends THEN 0 ELSE @ + 1]
             next == start + PageBudget * PageSize
  <2>4. /\ scan' = s
        /\ \/ UNCHANGED offsets
           \/ offsets' = [offsets EXCEPT ![scan.folder] = 0]
           \/ offsets' = [offsets EXCEPT ![scan.folder] = next]
    BY <1>4 DEF ScanPage
  <2>5. todo \subseteq Files
    BY <2>3 DEF ScannerOK
  <2> HIDE DEF todo, ends
  <2>6. /\ DOMAIN s = {"at", "folder", "page", "todo", "asked", "full"}
        /\ s.at \in Scans /\ s.folder \in {"source", "download"} /\ s.page \in Nat
        /\ s.todo \subseteq Files /\ s.asked \subseteq Files
    BY <2>1, <2>5 DEF ScannerOK, Scans
  <2> HIDE DEF start, batch, s, next
  <2>7. next \in Nat
    BY <2>2 DEF next
  <2>8. offsets' \in [Folders -> Nat]
    BY <2>1, <2>4, <2>7 DEF ScannerOK
  <2> QED
    BY <2>4, <2>6, <2>8 DEF ScannerOK
<1>5. CASE ScanPageFails \/ ScanNext
  <2>1. CASE ScanPageFails
    BY <2>1 DEF ScanPageFails, ScannerOK, Scans
  <2>2. CASE ScanNext /\ scan' = NoScan
    BY <2>2 DEF ScanNext, ScannerOK, Scans, NoScan
  <2>3. CASE ScanNext /\ scan' = [scan EXCEPT !.at = "page", !.folder = "download"]
    BY <2>3 DEF ScanNext, ScannerOK, Scans
  <2> QED
    BY <1>5, <2>1, <2>2, <2>3 DEF ScanNext
<1>6. ASSUME NEW f \in Files, ScanSkips(f) \/ ScanAsks(f) \/ ScanQueues(f) \/ ScanRefreshes(f)
      PROVE  ScannerOK'
  <2>1. CASE ScanSkips(f)
    BY <2>1 DEF ScanSkips, ScannerOK, Scans
  <2>2. CASE ScanAsks(f)
    BY <2>2 DEF ScanAsks, ScannerOK, Scans
  <2>3. CASE ScanQueues(f) \/ ScanRefreshes(f)
    <3>1. /\ \/ scan' = [scan EXCEPT !.todo = @ \ {f}, !.asked = {}]
             \/ scan' = [scan EXCEPT !.todo = @ \ {f}, !.at = "refresh"]
             \/ scan' = [scan EXCEPT !.at = "file", !.asked = {}]
          /\ offsets' = offsets
      BY <2>3, Zenon DEF ScanQueues, ScanRefreshes
    <3> QED
      BY <3>1 DEF ScannerOK, Scans
  <2> QED
    BY <1>6, <2>1, <2>2, <2>3
<1>7. CASE Crash
  BY <1>7 DEF Crash, ScannerOK, NoScan, Scans
<1>8. CASE \/ UNCHANGED vars \/ Resuming \/ Resume
           \/ \E f \in Files : Upload(f) \/ Downloading(f) \/ Drops(f)
  BY <1>1, <1>8 DEF vars, Resuming, FailureLists, ResumeDownloads, FailureAsks, Resume, Upload, Downloading,
         Drops, Extracts, LocalMarks, LocalDisposes, LocalDisposeFails, LocalForgets, Aside
<1>9. CASE User /\ ~UserScan
  BY <1>1, <1>9 DEF User, StopClear, ResetHistory, Approve, RetryCloud, RetryHistory, Cancel, Ignore, Unignore
<1>10. ASSUME NEW f \in Files, Working(f) \/ TakesSlot(f)
       PROVE  ScannerOK'
  BY <1>1, <1>10 DEF Working, TakesSlot, Starts, Lists, ListFails, Attempts, Succeeds, Fails, Wakes,
           Marks, Finishes, FinishFails, Cools, GivesUp, Moves, MoveFails, Saves, HandsOver, Alone
<1> QED
  BY <1>3, <1>4, <1>5, <1>6, <1>7, <1>8, <1>9, <1>10, NextCases DEF Scanning

LEMMA TypesInductive == TypeInv /\ [Next]_vars => TypeInv'
  BY FoldersStep, GoroutinesStep, SetsStep, RecordsStep, ScannerStep DEF TypeInv

LEMMA TypesHold == Spec => []TypeInv
  BY InitTypes, TypesInductive, PTL DEF Spec

\* In every reachable state the variables hold what the code can put there: no
\* folder lists an archive twice, and no goroutine exceeds n115_retry_count
\* (run115CloudExtract, move115FailedSource).
THEOREM TypeCorrect == Spec => []TypeOK
  BY TypesHold, TypeInvTypes, PTL

(***************************************************************************)
(* One unpacker.  An archive of a source folder is asked of CloudDrive2    *)
(* only once it is in the failure folder or gone, and what its records and *)
(* its goroutine may be then depends on how it got there.                  *)
(***************************************************************************)
Source(f) == Home[f] = "source"
Gone(f) == f \in In("failure") \cup removed

\* An archive is in one place, a retry of a failure is one of a source folder,
\* and nothing waits or runs for a download before the archive was moved.
Placed(f) ==
    /\ f \in In("source") => ~Gone(f)
    /\ f \in removed => \A d \in Folders : f \notin In(d)
    /\ f \in In("download") => ~Source(f)
    /\ job[f].by = "pending" => Source(f)
    /\ f \notin resuming
    /\ Source(f) /\ ~Gone(f) =>
         /\ pending[f] = "none" /\ f \notin asked /\ local[f] = "none" /\ failed[f] # "download"
         /\ job[f].at \notin {"save", "hand"}
    /\ Source(f) /\ local[f] # "none" => failed[f] # "download"

\* The download folder has archives of its own.
ScanPlaced ==
    /\ scan.folder = "download" => \A f \in scan.todo \cup scan.asked : ~Source(f)
    /\ scan.at = "refresh" => scan.folder = "download"

\* Before its move a goroutine of a scan is at these steps.
Unmoved == {"queued", "ready", "list", "try", "cloud", "sleep", "mark", "finish", "final", "move"}

\* The goroutine, the record of the download and what was asked agree: a retry
\* holds the archive back until it hands it over; an archive that waits for
\* approval was not asked for; and one that was asked for has lost its record
\* only to what ends the download.
Agreed(f) ==
    /\ job[f].by = "pending" /\ job[f].at # "hand" => f \notin asked
    /\ pending[f] = "approval" => f \notin asked
    /\ job[f].at = "hand" /\ setting.auto => pending[f] # "approval"
    /\ job[f].at \notin {"none", "hand"} =>
         \/ pending[f] = "none"
         \/ /\ job[f].by = "pending" /\ job[f].at \in {"queued", "ready", "list"}
            /\ pending[f] = "approval"
    /\ f \in asked /\ failed[f] = "download" => pending[f] # "none"
    /\ local[f] # "none" /\ pending[f] # "none" /\ job[f].at # "hand" => failed[f] \in {"none", "cleanup"}
    /\ job[f].by = "scan" /\ job[f].at \in Unmoved => ~Gone(f)

\* What holds when every download waits for approval (n115_auto_fallback off):
\* the retry of a failure that was moved finds it asked for only when there is
\* nothing left to move.
Approved(f) ==
    /\ paused => f \notin asked
    /\ f \in asked /\ pending[f] = "none" => local[f] = "none"
    /\ f \in asked /\ pending[f] = "none" /\ job[f].at # "hand" =>
         f \in removed \/ failed[f] \in {"none", "cleanup"}
    /\ job[f].by = "history" /\ f \in asked /\ job[f].at # "none" =>
         \/ job[f].at \in {"finish", "cool", "hand"}
         \/ job[f].at \in {"queued", "ready"} /\ failed[f] = "cleanup"
         \/ f \in removed /\ job[f].at # "save"
    /\ job[f].at = "save" => f \notin asked

Fine(f) ==
    /\ Placed(f)
    /\ Source(f) /\ f \notin overtaken => Agreed(f) /\ (setting.auto \/ Approved(f))

UnpackInv == setting.rescan \/ (ScanPlaced /\ \A f \in Files : Fine(f))

\* What a step may have changed of an archive without touching it.
SamePlace(g) ==
    /\ \A d \in Folders : g \in In(d)' <=> g \in In(d)
    /\ g \in removed' <=> g \in removed

Same(g) ==
    /\ SamePlace(g)
    /\ job'[g] = job[g] /\ pending'[g] = pending[g] /\ failed'[g] = failed[g]
    /\ local'[g] = local[g]
    /\ g \in asked' <=> g \in asked

Quiet == UNCHANGED <<setting, paused, scan, resuming>> /\ overtaken \subseteq overtaken'

LEMMA PlacesKept ==
  ASSUME NEW g, SamePlace(g)
  PROVE  /\ Gone(g)' <=> Gone(g)
         /\ \A d \in Folders : (g \in In(d))' <=> g \in In(d)
         /\ (g \in removed)' <=> g \in removed
  BY DEF SamePlace, Gone, Folders

LEMMA SameKept ==
  ASSUME NEW g \in Files, Fine(g), Same(g), UNCHANGED <<setting, paused>>,
         g \in overtaken => g \in overtaken', g \in resuming' => g \in resuming
  PROVE  Fine(g)'
<1>1. /\ Gone(g)' <=> Gone(g)
      /\ \A d \in Folders : (g \in In(d))' <=> g \in In(d)
      /\ (g \in removed)' <=> g \in removed
  BY PlacesKept DEF Same
<1>2. Placed(g)'
  BY <1>1 DEF Fine, Same, Placed, Source, Folders
<1>3. Agreed(g) => Agreed(g)'
  BY <1>1 DEF Same, Agreed
<1>4. Approved(g) => Approved(g)'
  BY <1>1 DEF Same, Approved
<1> QED
  BY <1>2, <1>3, <1>4 DEF Fine, Source

\* One archive is touched, and neither the scan nor the pause.
LEMMA OneTouched ==
  ASSUME UnpackInv, NEW f \in Files, Quiet, \A g \in Files \ {f} : Same(g),
         ~setting.rescan => Fine(f)'
  PROVE  UnpackInv'
<1> SUFFICES ASSUME ~setting.rescan PROVE UnpackInv'
  BY DEF UnpackInv, Quiet
<1>1. ScanPlaced'
  BY DEF UnpackInv, ScanPlaced, Quiet, Source
<1>2. ASSUME NEW g \in Files \ {f} PROVE Fine(g)'
  <2>1. /\ Fine(g) /\ Same(g) /\ UNCHANGED <<setting, paused, resuming>>
        /\ g \in overtaken => g \in overtaken'
    BY DEF UnpackInv, Quiet
  <2> QED
    BY <2>1, SameKept
<1> QED
  BY <1>1, <1>2 DEF UnpackInv

\* Nothing of the archives changes.
LEMMA NoneTouched ==
  ASSUME UnpackInv, UNCHANGED <<cloud, failed, pending, paused, job, copies>>, overtaken \subseteq overtaken',
         resuming' \cap Files \subseteq resuming, ScanPlaced'
  PROVE  UnpackInv'
<1> USE DEF cloud, copies
<1>1. ASSUME NEW g \in Files PROVE Same(g)
  BY DEF Same, SamePlace, In
<1>2. ASSUME NEW g \in Files, Fine(g) PROVE Fine(g)'
  BY <1>1, <1>2, SameKept
<1> QED
  BY <1>2 DEF UnpackInv

\* A goroutine goes on or ends, and the records stay.
OnlyJob(f) ==
    /\ \A d \in Folders : In(d)' = In(d)
    /\ UNCHANGED <<removed, pending, failed, local, asked>>

LEMMA InUnchanged ==
  ASSUME UNCHANGED folders
  PROVE  \A d \in Folders : In(d)' = In(d)
  BY DEF In

LEMMA GoneUnchanged ==
  ASSUME UNCHANGED removed, \A d \in Folders : In(d)' = In(d)
  PROVE  \A g : Gone(g)' <=> Gone(g)
  BY DEF Gone, Folders

\* An archive whose records and place stay, while its goroutine goes from one
\* step to another.
LEMMA TurnKept ==
  ASSUME NEW f \in Files, Fine(f), OnlyJob(f), UNCHANGED <<setting, paused, overtaken, resuming>>,
         job'[f].at \notin {"save", "hand"}, job[f].at \notin {"none", "hand"},
         (job'[f].at = "none" /\ job'[f].by = "scan") \/ job'[f].by = job[f].by,
         \/ job'[f].at \in {"ready", "list"} /\ job[f].at \in {"queued", "ready"}
         \/ pending[f] = "none" \/ job'[f].at = "none" \/ f \in overtaken \/ ~Source(f),
         job'[f].at \in Unmoved => job[f].at \in Unmoved,
         \/ job'[f].at \in {"none", "finish", "cool"}
         \/ job[f].at = "queued" /\ job'[f].at = "ready"
         \/ job[f].at = "ready" /\ failed[f] # "cleanup"
         \/ job[f].at = "ready" /\ job[f].by # "history"
         \/ job[f].at \notin {"queued", "ready", "finish", "cool"}
  PROVE  Fine(f)'
<1> USE DEF OnlyJob
<1>1. Gone(f)' <=> Gone(f)
  BY GoneUnchanged
<1>2. Placed(f)'
  BY <1>1 DEF Fine, Placed, Source, Folders
<1>3. ASSUME Source(f), f \notin overtaken
      PROVE  Agreed(f)'
  <2>1. Agreed(f)
    BY <1>3 DEF Fine
  <2> QED
    BY <1>1, <1>3, <2>1 DEF Agreed, Unmoved
<1>4. ASSUME Source(f), f \notin overtaken, Approved(f)
      PROVE  Approved(f)'
  BY <1>4 DEF Approved
<1> QED
  BY <1>2, <1>3, <1>4 DEF Fine, Source

\* Only f: its folders, its records, and whether it was asked for.
LEMMA WorkingTouchesOne ==
  ASSUME TypeInv, NEW f \in Files, Working(f) \/ TakesSlot(f)
  PROVE  Quiet /\ UNCHANGED overtaken /\ \A g \in Files \ {f} : Same(g)
<1> USE DEF At, cloud, state, workers, copies, scanner, Alone, NothingDone, Shows
<1>0. FoldersOK /\ RecordsOK /\ \A g \in Files \ {f} : job'[g] = job[g]
  BY WorkingGoes DEF TypeInv
<1>1. Quiet /\ UNCHANGED overtaken
  BY DEF Working, TakesSlot, Starts, Lists, ListFails, Attempts, Succeeds, Fails, Wakes,
         Marks, Finishes, FinishFails, Cools, GivesUp, Moves, MoveFails, Saves, HandsOver, Quiet
<1>2. ASSUME NEW g \in Files \ {f} PROVE SamePlace(g)
  <2>1. CASE UNCHANGED <<folders, removed>>
    BY <2>1 DEF SamePlace, In
  <2>2. CASE Finishes(f)
    BY <1>0, <2>2, DisposeLists, InUnchanged DEF Finishes, SamePlace
  <2>3. CASE Moves(f)
    <3>1. /\ In("failure")' = In("failure") \cup {f} /\ UNCHANGED removed
          /\ \A d \in Folders \ {"failure"} : In(d)' = In(d) \/ In(d)' = In(d) \ {f}
      BY <1>0, <2>3, MoveLists DEF Moves
    <3> QED
      BY <3>1 DEF SamePlace
  <2>4. CASE ~Finishes(f) /\ ~Moves(f)
    BY <2>1, <2>4 DEF Working, TakesSlot, Starts, Lists, ListFails, Attempts, Succeeds, Fails, Wakes,
           Marks, FinishFails, Cools, GivesUp, MoveFails, Saves, HandsOver
  <2> QED
    BY <2>1, <2>2, <2>3, <2>4
<1>3. ASSUME NEW g \in Files \ {f} PROVE pending'[g] = pending[g]
  BY <1>0 DEF RecordsOK, Working, TakesSlot, Starts, Lists, ListFails, Attempts, Succeeds, Fails, Wakes,
              Marks, Finishes, FinishFails, Cools, GivesUp, Moves, MoveFails, Saves, HandsOver
<1>4. ASSUME NEW g \in Files \ {f} PROVE failed'[g] = failed[g]
  BY <1>0 DEF RecordsOK, Working, TakesSlot, Starts, Lists, ListFails, Attempts, Succeeds, Fails, Wakes,
              Marks, Finishes, FinishFails, Cools, GivesUp, Moves, MoveFails, Saves, HandsOver
<1>5. ASSUME NEW g \in Files \ {f} PROVE local'[g] = local[g] /\ (g \in asked' <=> g \in asked)
  BY DEF Working, TakesSlot, Starts, Lists, ListFails, Attempts, Succeeds, Fails, Wakes,
         Marks, Finishes, FinishFails, Cools, GivesUp, Moves, MoveFails, Saves, HandsOver, Refreshes
<1>6. \A g \in Files \ {f} : Same(g)
  BY <1>0, <1>2, <1>3, <1>4, <1>5 DEF Same
<1> QED
  BY <1>1, <1>6

LEMMA TurnSteps ==
  ASSUME TypeInv, NEW f \in Files, Fine(f),
         \/ TakesSlot(f) \/ Starts(f) \/ Attempts(f) \/ Succeeds(f) \/ Fails(f) \/ Wakes(f) \/ Cools(f)
  PROVE  Fine(f)'
<1> USE DEF At, cloud, state, workers, copies, scanner, Alone, NothingDone, Shows
<1>0. GoroutinesOK /\ UNCHANGED <<setting, paused, overtaken, resuming>>
  BY WorkingTouchesOne DEF TypeInv, Quiet, Working
<1>1. OnlyJob(f)
  BY InUnchanged DEF OnlyJob, TakesSlot, Starts, Attempts, Succeeds, Fails, Wakes, Cools
<1>2. pending[f] = "none" \/ f \in overtaken \/ ~Source(f) \/ job[f].at \in {"queued", "ready", "list", "none", "hand"}
  BY DEF Fine, Agreed
<1>3. CASE Ends(f)
  <2>1. job'[f].at = "none" /\ job'[f].by = "scan"
    BY <1>0, <1>3, EndsThere
  <2>2. job[f].at \notin {"none", "hand"}
    BY DEF TakesSlot, Starts, Attempts, Succeeds, Fails, Wakes, Cools
  <2> QED
    BY <1>0, <1>1, <2>1, <2>2, TurnKept DEF Unmoved
<1>4. ASSUME NEW step \in Steps \ {"none"}, Goes(f, step), job[f].at \notin {"none", "hand"},
             step \in Early => job[f].try < Retries
      PROVE  job'[f].at = step /\ job'[f].by = job[f].by
  BY <1>0, <1>4, GoesOn
<1>5. job[f].at \in Early => job[f].try < Retries
  BY <1>0 DEF GoroutinesOK
<1>6. CASE TakesSlot(f)
  <2>1. /\ job[f].at = "queued" /\ job'[f].at = "ready" /\ job'[f].by = job[f].by /\ row'[f] = row[f]
    BY <1>4, <1>5, <1>6 DEF TakesSlot, Steps, Early
  <2> QED
    BY <1>0, <1>1, <2>1, TurnKept DEF Unmoved
<1>7. CASE Starts(f) /\ ~Ends(f)
  <2>1. job[f].at = "ready" /\ row'[f] = row[f]
    BY <1>7 DEF Starts
  <2>2. CASE job[f].by = "scan" /\ Goes(f, "try")
    <3>1. job'[f].at = "try" /\ job'[f].by = "scan"
      BY <1>4, <1>5, <2>1, <2>2 DEF Steps, Early
    <3>2. pending[f] = "none" \/ f \in overtaken \/ ~Source(f)
      BY <2>1, <2>2 DEF Fine, Agreed
    <3> QED
      BY <1>0, <1>1, <2>1, <2>2, <3>1, <3>2, TurnKept DEF Unmoved
  <2>3. CASE job[f].by = "pending" /\ Goes(f, "list")
    <3>1. job'[f].at = "list" /\ job'[f].by = "pending"
      BY <1>4, <1>5, <2>1, <2>3 DEF Steps, Early
    <3> QED
      BY <1>0, <1>1, <2>1, <2>3, <3>1, TurnKept DEF Unmoved
  <2>4. CASE job[f].by = "history" /\ failed[f] = "cleanup" /\ Goes(f, "finish")
    <3>1. job'[f].at = "finish" /\ job'[f].by = "history"
      BY <1>4, <1>5, <2>1, <2>4 DEF Steps, Early
    <3>2. pending[f] = "none" \/ f \in overtaken \/ ~Source(f)
      BY <2>1, <2>4 DEF Fine, Agreed
    <3> QED
      BY <1>0, <1>1, <2>1, <2>4, <3>1, <3>2, TurnKept DEF Unmoved
  <2>5. ASSUME job[f].by = "history", failed[f] # "cleanup",
               NEW step \in {"move", "try", "list"}, Goes(f, step)
        PROVE  Fine(f)'
    <3>1. job'[f].at = step /\ job'[f].by = "history"
      BY <1>4, <1>5, <2>1, <2>5 DEF Steps, Early
    <3>2. pending[f] = "none" \/ f \in overtaken \/ ~Source(f)
      BY <2>1, <2>5 DEF Fine, Agreed
    <3> QED
      BY <1>0, <1>1, <2>1, <2>5, <3>1, <3>2, TurnKept DEF Unmoved
  <2> QED
    BY <1>7, <2>2, <2>3, <2>4, <2>5 DEF Starts
<1>8. CASE ~Ends(f) /\ (Attempts(f) \/ Succeeds(f) \/ Fails(f) \/ Wakes(f))
  <2>1. job[f].at \in {"try", "cloud", "sleep"}
    BY <1>8 DEF Attempts, Succeeds, Fails, Wakes
  <2>2. job'[f].at \in {"cloud", "cool", "mark", "sleep", "final", "try"} /\ job'[f].by = job[f].by
    <3>1. CASE Attempts(f)
      BY <1>0, <1>8, <3>1, TriesOnce DEF Attempts
    <3>2. CASE Succeeds(f) \/ Fails(f) \/ Wakes(f)
      <4>1. \E step \in {"cool", "mark", "sleep", "final", "try"} :
                Goes(f, step) /\ (step \in Early => job[f].try < Retries)
        BY <1>5, <1>8, <3>2 DEF Succeeds, Fails, Wakes, Early
      <4> QED
        BY <1>4, <2>1, <4>1 DEF Steps
    <3> QED
      BY <1>8, <3>1, <3>2
  <2>3. pending[f] = "none" \/ f \in overtaken \/ ~Source(f)
    BY <1>2, <2>1
  <2> QED
    BY <1>0, <1>1, <2>1, <2>2, <2>3, TurnKept DEF Unmoved
<1> QED
  BY <1>3, <1>6, <1>7, <1>8 DEF Cools

\* The steps of a goroutine that write a record or move the archive.
LEMMA RecordSteps ==
  ASSUME TypeInv, NEW f \in Files, Fine(f),
         \/ Lists(f) \/ ListFails(f) \/ Marks(f) \/ FinishFails(f) \/ GivesUp(f) \/ MoveFails(f)
         \/ Saves(f) \/ HandsOver(f)
  PROVE  Fine(f)'
<1> USE DEF At, cloud, state, workers, copies, scanner, Alone, NothingDone, Shows
<1>0. /\ GoroutinesOK /\ RecordsOK
      /\ job[f].by \in {"scan", "pending", "history"}
      /\ UNCHANGED <<setting, paused, overtaken, resuming>>
  BY WorkingTouchesOne DEF TypeInv, Quiet, Working, GoroutinesOK, Jobs
<1>1. /\ UNCHANGED <<folders, removed, local>> /\ (Source(f))' = Source(f)
  BY DEF Lists, ListFails, Marks, FinishFails, GivesUp, MoveFails, Saves, HandsOver, Source
<1>2. /\ \A d \in Folders : In(d)' = In(d)
      /\ Gone(f)' <=> Gone(f)
  BY <1>1, InUnchanged, GoneUnchanged
<1>3. ASSUME NEW step \in Steps \ {"none"}, Goes(f, step), step \notin Early \/ job[f].at = "list"
      PROVE  job'[f].at = step /\ job'[f].by = job[f].by
  BY <1>0, <1>3, GoesOn DEF GoroutinesOK, Early
<1>4. ASSUME Ends(f)
      PROVE  job'[f].at = "none" /\ job'[f].by = "scan"
  BY <1>0, <1>4, EndsThere
<1>5. CASE Lists(f)
  <2>1. job[f].at = "list" /\ job'[f].at = "try" /\ job'[f].by = job[f].by
    BY <1>3, <1>4, <1>5 DEF Lists, Steps, Early
  <2>2. UNCHANGED failed /\ (f \in asked' <=> f \in asked) /\ pending'[f] = IF job[f].by = "pending" THEN "none" ELSE pending[f]
    BY <1>0, <1>5 DEF Lists, RecordsOK
  <2>3. Placed(f)'
    BY <1>0, <1>1, <1>2, <2>1, <2>2 DEF Fine, Placed, Folders
  <2>4. ASSUME Source(f), f \notin overtaken
        PROVE  Agreed(f)'
    BY <1>0, <1>1, <1>2, <2>1, <2>2, <2>4 DEF Fine, Placed, Agreed, Unmoved
  <2>5. ASSUME Source(f), f \notin overtaken, ~setting.auto
        PROVE  Approved(f)'
    BY <1>0, <1>1, <1>2, <2>1, <2>2, <2>5 DEF Fine, Placed, Agreed, Approved, Unmoved
  <2> QED
    BY <1>0, <1>1, <2>3, <2>4, <2>5 DEF Fine
<1>6. CASE ListFails(f)
  <2>1. job[f].at = "list" /\ job'[f].at = "none" /\ job'[f].by = "scan"
    BY <1>3, <1>4, <1>6 DEF ListFails, Steps, Early
  <2>2. UNCHANGED <<pending, asked>> /\ (failed'[f] = failed[f] \/ (job[f].by # "pending" /\ failed'[f] = "cloud"))
    BY <1>0, <1>6 DEF ListFails, RecordsOK
  <2>3. Placed(f)'
    BY <1>0, <1>1, <1>2, <2>1, <2>2 DEF Fine, Placed, Folders
  <2>4. ASSUME Source(f), f \notin overtaken
        PROVE  Agreed(f)'
    BY <1>0, <1>1, <1>2, <2>1, <2>2, <2>4 DEF Fine, Placed, Agreed, Unmoved
  <2>5. ASSUME Source(f), f \notin overtaken, ~setting.auto
        PROVE  Approved(f)'
    BY <1>0, <1>1, <1>2, <2>1, <2>2, <2>5 DEF Fine, Placed, Agreed, Approved, Unmoved
  <2> QED
    BY <1>0, <1>1, <2>3, <2>4, <2>5 DEF Fine
<1>7. CASE Marks(f)
  <2>1. job[f].at = "mark" /\ job'[f].at = "finish" /\ job'[f].by = job[f].by
    BY <1>3, <1>4, <1>7 DEF Marks, Steps, Early
  <2>2. UNCHANGED <<pending, asked>> /\ failed'[f] = "none"
    BY <1>0, <1>7 DEF Marks, RecordsOK
  <2>3. Placed(f)'
    BY <1>0, <1>1, <1>2, <2>1, <2>2 DEF Fine, Placed, Folders
  <2>4. ASSUME Source(f), f \notin overtaken
        PROVE  Agreed(f)'
    BY <1>0, <1>1, <1>2, <2>1, <2>2, <2>4 DEF Fine, Placed, Agreed, Unmoved
  <2>5. ASSUME Source(f), f \notin overtaken, ~setting.auto
        PROVE  Approved(f)'
    BY <1>0, <1>1, <1>2, <2>1, <2>2, <2>5 DEF Fine, Placed, Agreed, Approved, Unmoved
  <2> QED
    BY <1>0, <1>1, <2>3, <2>4, <2>5 DEF Fine
<1>8. CASE FinishFails(f)
  <2>1. job[f].at = "finish" /\ job'[f].at = "cool" /\ job'[f].by = job[f].by
    BY <1>3, <1>4, <1>8 DEF FinishFails, Steps, Early
  <2>2. UNCHANGED <<pending, asked>> /\ failed'[f] = "cleanup"
    BY <1>0, <1>8 DEF FinishFails, RecordsOK
  <2>3. Placed(f)'
    BY <1>0, <1>1, <1>2, <2>1, <2>2 DEF Fine, Placed, Folders
  <2>4. ASSUME Source(f), f \notin overtaken
        PROVE  Agreed(f)'
    BY <1>0, <1>1, <1>2, <2>1, <2>2, <2>4 DEF Fine, Placed, Agreed, Unmoved
  <2>5. ASSUME Source(f), f \notin overtaken, ~setting.auto
        PROVE  Approved(f)'
    BY <1>0, <1>1, <1>2, <2>1, <2>2, <2>5 DEF Fine, Placed, Agreed, Approved, Unmoved
  <2> QED
    BY <1>0, <1>1, <2>3, <2>4, <2>5 DEF Fine
<1>9. CASE GivesUp(f)
  <2>1. /\ job[f].at = "final"
        /\ \/ job'[f].at = "none" /\ job'[f].by = "scan"
           \/ job'[f].at = "move" /\ job'[f].by = job[f].by
    <3>1. CASE Ends(f)
      <4>1. job'[f].at = "none" /\ job'[f].by = "scan"
        BY <1>4, <3>1
      <4>2. job[f].at = "final"
        BY <1>9 DEF GivesUp
      <4> QED
        BY <4>1, <4>2
    <3>2. CASE ~Ends(f)
      <4>1. job[f].at = "final" /\ Goes(f, "move")
        BY <1>9, <3>2 DEF GivesUp
      <4> QED
        BY <1>3, <4>1 DEF Steps, Early
    <3> QED
      BY <3>1, <3>2
  <2>2. UNCHANGED <<pending, asked>> /\ failed'[f] \in {"cloud", "retried"}
    BY <1>0, <1>9 DEF GivesUp, RecordsOK
  <2>3. Placed(f)'
    BY <1>0, <1>1, <1>2, <2>1, <2>2 DEF Fine, Placed, Folders
  <2>4. ASSUME Source(f), f \notin overtaken
        PROVE  Agreed(f)'
    BY <1>0, <1>1, <1>2, <2>1, <2>2, <2>4 DEF Fine, Placed, Agreed, Unmoved
  <2>5. ASSUME Source(f), f \notin overtaken, ~setting.auto
        PROVE  Approved(f)'
    BY <1>0, <1>1, <1>2, <2>1, <2>2, <2>5 DEF Fine, Placed, Agreed, Approved, Unmoved
  <2> QED
    BY <1>0, <1>1, <2>3, <2>4, <2>5 DEF Fine
<1>10. CASE MoveFails(f)
  <2>1. job[f].at = "move" /\ job'[f].at = "none" /\ job'[f].by = "scan"
    BY <1>3, <1>4, <1>10 DEF MoveFails, Steps, Early
  <2>2. UNCHANGED <<pending, asked>> /\ failed'[f] = "move"
    BY <1>0, <1>10 DEF MoveFails, RecordsOK
  <2>3. Placed(f)'
    BY <1>0, <1>1, <1>2, <2>1, <2>2 DEF Fine, Placed, Folders
  <2>4. ASSUME Source(f), f \notin overtaken
        PROVE  Agreed(f)'
    BY <1>0, <1>1, <1>2, <2>1, <2>2, <2>4 DEF Fine, Placed, Agreed, Unmoved
  <2>5. ASSUME Source(f), f \notin overtaken, ~setting.auto
        PROVE  Approved(f)'
    BY <1>0, <1>1, <1>2, <2>1, <2>2, <2>5 DEF Fine, Placed, Agreed, Approved, Unmoved
  <2> QED
    BY <1>0, <1>1, <2>3, <2>4, <2>5 DEF Fine
<1>11. CASE Saves(f)
  <2>1. job[f].at = "save" /\ job'[f].at = "hand" /\ job'[f].by = job[f].by
    BY <1>3, <1>4, <1>11 DEF Saves, Steps, Early
  <2>2. UNCHANGED <<failed, asked>> /\ pending'[f] = IF setting.auto THEN "approved" ELSE "approval"
    BY <1>0, <1>11 DEF Saves, RecordsOK
  <2>3. Placed(f)'
    BY <1>0, <1>1, <1>2, <2>1, <2>2 DEF Fine, Placed, Folders
  <2>4. ASSUME Source(f), f \notin overtaken
        PROVE  Agreed(f)'
    BY <1>0, <1>1, <1>2, <2>1, <2>2, <2>4 DEF Fine, Placed, Agreed, Approved, Unmoved
  <2>5. ASSUME Source(f), f \notin overtaken, ~setting.auto
        PROVE  Approved(f)'
    BY <1>0, <1>1, <1>2, <2>1, <2>2, <2>5 DEF Fine, Placed, Agreed, Approved, Unmoved
  <2> QED
    BY <1>0, <1>1, <2>3, <2>4, <2>5 DEF Fine
<1>12. CASE HandsOver(f)
  <2>1. job[f].at = "hand" /\ job'[f].at = "none" /\ job'[f].by = "scan"
    BY <1>3, <1>4, <1>12 DEF HandsOver, Steps, Early
  <2>2. UNCHANGED pending /\ failed'[f] = "none" /\ (f \in asked' => f \in asked \/ setting.auto)
    BY <1>0, <1>12 DEF HandsOver, RecordsOK, Refreshes
  <2>3. Placed(f)'
    BY <1>0, <1>1, <1>2, <2>1, <2>2 DEF Fine, Placed, Folders
  <2>4. ASSUME Source(f), f \notin overtaken
        PROVE  Agreed(f)'
    BY <1>0, <1>1, <1>2, <2>1, <2>2, <2>4 DEF Fine, Placed, Agreed, Unmoved
  <2>5. ASSUME Source(f), f \notin overtaken, ~setting.auto
        PROVE  Approved(f)'
    BY <1>0, <1>1, <1>2, <2>1, <2>2, <2>5 DEF Fine, Placed, Agreed, Approved, Unmoved
  <2> QED
    BY <1>0, <1>1, <2>3, <2>4, <2>5 DEF Fine
<1> QED
  BY <1>5, <1>6, <1>7, <1>8, <1>9, <1>10, <1>11, <1>12

\* The steps that remove or move the archive.
LEMMA FolderSteps ==
  ASSUME TypeInv, NEW f \in Files, Fine(f), Finishes(f) \/ Moves(f)
  PROVE  Fine(f)'
<1> USE DEF At, cloud, state, workers, copies, scanner, Alone, NothingDone, Shows
<1>0. /\ GoroutinesOK /\ RecordsOK /\ FoldersOK
      /\ job[f].by \in {"scan", "pending", "history"}
      /\ UNCHANGED <<setting, paused, overtaken, resuming, pending, local, asked>>
      /\ Source(f)' = Source(f)
  BY WorkingTouchesOne DEF TypeInv, Quiet, Working, GoroutinesOK, Jobs, Finishes, Moves, Source
<1>1. CASE Finishes(f)
  <2>1. job[f].at = "finish" /\ job'[f].at = "cool" /\ job'[f].by = job[f].by
    BY <1>0, <1>1, GoesOn DEF Finishes, Steps, Early
  <2>2. failed'[f] = "none"
    BY <1>0, <1>1 DEF Finishes, RecordsOK
  <2>3. \/ UNCHANGED removed /\ \A d \in Folders : In(d)' = In(d)
        \/ removed' = removed \cup {f} /\ \A d \in Folders : In(d)' = In(d) \ {f}
    BY <1>0, <1>1, DisposeLists, InUnchanged DEF Finishes
  <2>4. Placed(f)'
    BY <1>0, <2>1, <2>2, <2>3 DEF Fine, Placed, Gone, Folders
  <2>5. ASSUME Source(f), f \notin overtaken
        PROVE  Agreed(f)'
    BY <1>0, <2>1, <2>2, <2>5 DEF Fine, Agreed, Unmoved
  <2>6. ASSUME Source(f), f \notin overtaken, ~setting.auto
        PROVE  Approved(f)'
    BY <1>0, <2>1, <2>2, <2>3, <2>6 DEF Fine, Approved
  <2> QED
    BY <1>0, <2>4, <2>5, <2>6 DEF Fine
<1>2. CASE Moves(f)
  <2>1. job[f].at = "move" /\ job'[f].at = "save" /\ job'[f].by = job[f].by
    BY <1>0, <1>2, GoesOn DEF Moves, Steps, Early
  <2>2. UNCHANGED <<failed, removed>> /\ \E d \in Folders : f \in In(d)
    BY <1>2 DEF Moves
  <2>3. f \notin removed
    BY <2>2 DEF Fine, Placed
  <2>4. /\ In("failure")' = In("failure") \cup {f}
        /\ f \notin In("source")'
        /\ f \in In("download")' => f \in In("download")
    <3>1. "failure" \in Folders /\ "source" \in Folders /\ "download" \in Folders
      BY DEF Folders
    <3>2. CASE f \in In("failure")
      <4>1. f \notin In("source")
        BY <3>2 DEF Fine, Placed, Gone
      <4> QED
        BY <1>0, <1>2, <3>1, <3>2, <4>1, MoveLists, InUnchanged
    <3>3. CASE f \notin In("failure")
      BY <1>0, <1>2, <3>1, <3>3, MoveLists
    <3> QED
      BY <3>2, <3>3
  <2>5. Gone(f)'
    BY <2>4 DEF Gone
  <2>6. Placed(f)'
    BY <1>0, <2>1, <2>2, <2>3, <2>4, <2>5 DEF Fine, Placed
  <2>7. ASSUME Source(f), f \notin overtaken
        PROVE  Agreed(f)'
    BY <1>0, <2>1, <2>2, <2>7 DEF Fine, Agreed, Unmoved
  <2>8. ASSUME Source(f), f \notin overtaken, ~setting.auto
        PROVE  Approved(f)'
    <3>1. f \notin asked
      BY <1>0, <2>1, <2>3, <2>8 DEF Fine, Placed, Agreed, Approved, Unmoved
    <3> QED
      BY <1>0, <2>1, <2>8, <3>1 DEF Fine, Approved
  <2> QED
    BY <1>0, <2>6, <2>7, <2>8 DEF Fine
<1> QED
  BY <1>1, <1>2

LEMMA WorkingFine ==
  ASSUME TypeInv, UnpackInv, NEW f \in Files, Working(f) \/ TakesSlot(f)
  PROVE  UnpackInv'
<1>1. ~setting.rescan => Fine(f)
  BY DEF UnpackInv
<1>2. Fine(f) => Fine(f)'
  BY TurnSteps, RecordSteps, FolderSteps DEF Working
<1> QED
  BY <1>1, <1>2, WorkingTouchesOne, OneTouched

(***************************************************************************)
(* Downloads, uploads, the user, the scans and the restart.                *)
(***************************************************************************)
LEMMA DownloadTouchesOne ==
  ASSUME TypeInv, NEW f \in Files, Downloading(f) \/ Drops(f)
  PROVE  /\ Quiet /\ UNCHANGED <<overtaken, job>> /\ \A g \in Files \ {f} : Same(g)
         /\ Source(f)' = Source(f)
<1> USE DEF Aside, Local, Shows
<1>0. FoldersOK /\ RecordsOK
  BY DEF TypeInv
<1>1. Quiet /\ UNCHANGED <<overtaken, job>>
  BY DEF Downloading, Drops, Extracts, LocalMarks, LocalDisposes, LocalDisposeFails, LocalForgets,
         Quiet, scanner
<1>2. ASSUME NEW g \in Files \ {f} PROVE SamePlace(g)
  <2>1. CASE UNCHANGED <<folders, removed>>
    BY <2>1 DEF SamePlace, In
  <2>2. CASE LocalDisposes(f)
    BY <1>0, <2>2, DisposeLists, InUnchanged DEF LocalDisposes, SamePlace
  <2>3. CASE ~LocalDisposes(f)
    BY <2>1, <2>3 DEF Downloading, Drops, Extracts, LocalMarks, LocalDisposeFails, LocalForgets
  <2> QED
    BY <2>2, <2>3
<1>3. ASSUME NEW g \in Files \ {f}
      PROVE  /\ pending'[g] = pending[g] /\ failed'[g] = failed[g] /\ row'[g] = row[g]
             /\ local'[g] = local[g] /\ (g \in asked' <=> g \in asked)
  BY <1>0, <1>3 DEF RecordsOK, Downloading, Drops, Extracts, LocalMarks, LocalDisposes, LocalDisposeFails,
         LocalForgets
<1>4. \A g \in Files \ {f} : Same(g)
  BY <1>1, <1>2, <1>3 DEF Same
<1> QED
  BY <1>1, <1>4 DEF Source

LEMMA DownloadFine ==
  ASSUME TypeInv, UnpackInv, NEW f \in Files, Downloading(f) \/ Drops(f)
  PROVE  UnpackInv'
<1> USE DEF Aside, Local, Shows
<1>0. /\ FoldersOK /\ RecordsOK /\ UNCHANGED <<setting, paused, overtaken, resuming, job>>
      /\ Source(f)' = Source(f)
  BY DownloadTouchesOne DEF TypeInv, Quiet
<1> SUFFICES ASSUME Fine(f) PROVE Fine(f)'
  <2>1. ~setting.rescan => Fine(f)
    BY DEF UnpackInv
  <2> QED
    BY <2>1, DownloadTouchesOne, OneTouched
<1>1. \/ UNCHANGED removed /\ \A d \in Folders : In(d)' = In(d)
      \/ /\ removed' = removed \cup {f} /\ \A d \in Folders : In(d)' = In(d) \ {f}
         /\ LocalDisposes(f)
  <2>1. CASE LocalDisposes(f)
    BY <1>0, <2>1, DisposeLists, InUnchanged DEF LocalDisposes
  <2>2. CASE ~LocalDisposes(f)
    BY <2>2, InUnchanged
       DEF Downloading, Drops, Extracts, LocalMarks, LocalDisposeFails, LocalForgets
  <2> QED
    BY <2>1, <2>2
<1>2. CASE Extracts(f)
  <2>1. /\ UNCHANGED removed /\ \A d \in Folders : In(d)' = In(d)
        /\ pending' = pending /\ row' = row /\ failed'[f] = "none" /\ f \notin asked'
        /\ local'[f] = local[f] \/ pending[f] # "none"
        /\ f \in asked
    BY <1>0, <1>2, InUnchanged DEF Extracts, RecordsOK
  <2>2. Gone(f)' <=> Gone(f)
    BY <2>1, GoneUnchanged
  <2>3. Placed(f)'
    BY <1>0, <2>1, <2>2 DEF Fine, Placed, Folders
  <2>4. ASSUME Source(f), f \notin overtaken PROVE Agreed(f)'
    BY <1>0, <2>1, <2>2, <2>4 DEF Fine, Agreed
  <2>5. ASSUME Approved(f) PROVE Approved(f)'
    BY <1>0, <2>1, <2>2, <2>5 DEF Approved
  <2> QED
    BY <1>0, <2>3, <2>4, <2>5 DEF Fine
<1>3. CASE LocalMarks(f) \/ LocalDisposes(f) \/ LocalDisposeFails(f)
  <2>1. /\ UNCHANGED <<pending, row, asked>> /\ failed'[f] \in {"none", "cleanup", failed[f]}
        /\ local[f] # "none"
    BY <1>0, <1>3 DEF LocalMarks, LocalDisposes, LocalDisposeFails, RecordsOK
  <2>2. \/ UNCHANGED removed /\ (Gone(f)' <=> Gone(f)) /\ \A d \in Folders : In(d)' = In(d)
        \/ removed' = removed \cup {f} /\ Gone(f)' /\ \A d \in Folders : In(d)' = In(d) \ {f}
    BY <1>1, GoneUnchanged DEF Gone
  <2>3. Placed(f)'
    BY <1>0, <2>1, <2>2 DEF Fine, Placed, Folders
  <2>4. ASSUME Source(f), f \notin overtaken PROVE Agreed(f)'
    BY <1>0, <2>1, <2>2, <2>4 DEF Fine, Placed, Agreed
  <2>5. ASSUME Source(f), f \notin overtaken, Approved(f) PROVE Approved(f)'
    BY <1>0, <2>1, <2>2, <2>5 DEF Fine, Placed, Agreed, Approved
  <2> QED
    BY <1>0, <2>3, <2>4, <2>5 DEF Fine
<1>4. CASE LocalForgets(f)
  <2>1. /\ UNCHANGED <<removed, failed, asked>> /\ \A d \in Folders : In(d)' = In(d)
        /\ pending'[f] = "none" /\ local'[f] = "none" /\ local[f] # "none"
    BY <1>0, <1>4, InUnchanged DEF LocalForgets, RecordsOK
  <2>2. Gone(f)' <=> Gone(f)
    BY <2>1, GoneUnchanged
  <2>3. Placed(f)'
    BY <1>0, <2>1, <2>2 DEF Fine, Placed, Folders
  <2>4. ASSUME Source(f), f \notin overtaken PROVE Agreed(f)'
    BY <1>0, <2>1, <2>2, <2>4 DEF Fine, Placed, Agreed
  <2>5. ASSUME Source(f), f \notin overtaken, Approved(f) PROVE Approved(f)'
    BY <1>0, <2>1, <2>2, <2>5 DEF Fine, Agreed, Approved
  <2> QED
    BY <1>0, <2>3, <2>4, <2>5 DEF Fine
<1>5. CASE Drops(f)
  <2>1. /\ UNCHANGED <<removed, failed, pending, row, local>> /\ \A d \in Folders : In(d)' = In(d)
        /\ f \notin asked'
    BY <1>5, InUnchanged DEF Drops
  <2>2. Gone(f)' <=> Gone(f)
    BY <2>1, GoneUnchanged
  <2>3. Placed(f)'
    BY <1>0, <2>1, <2>2 DEF Fine, Placed, Folders
  <2>4. Agreed(f) => Agreed(f)'
    BY <1>0, <2>1, <2>2 DEF Agreed
  <2>5. Approved(f) => Approved(f)'
    BY <1>0, <2>1, <2>2 DEF Approved
  <2> QED
    BY <1>0, <2>3, <2>4, <2>5 DEF Fine
<1> QED
  BY <1>2, <1>3, <1>4, <1>5 DEF Downloading

LEMMA UploadFine ==
  ASSUME TypeInv, UnpackInv, NEW f \in Files, Upload(f)
  PROVE  UnpackInv'
<1> USE DEF cloud, state, workers, copies, scanner
<1>1. /\ UNCHANGED <<setting, removed, state, workers, copies, scanner, resuming>>
      /\ f \notin removed /\ Source(f)' = Source(f)
      /\ \A d \in Folders : f \notin In(d) /\ In(d)' = IF d = Home[f] THEN In(d) \cup {f} ELSE In(d)
  BY UploadLists DEF Upload, TypeInv, Source
<1>2. Quiet /\ \A g \in Files \ {f} : Same(g)
  BY <1>1 DEF Quiet, Same, SamePlace
<1>3. ASSUME Fine(f) PROVE Fine(f)'
  <2>1. Home[f] \in {"source", "download"} /\ ~Gone(f) /\ ~Gone(f)'
    BY <1>1, CloudAssumption DEF Gone, Folders
  <2>2. Placed(f)'
    BY <1>1, <1>3, <2>1 DEF Fine, Placed, Folders, Source
  <2>3. Agreed(f) => Agreed(f)'
    BY <1>1, <2>1 DEF Agreed
  <2>4. Approved(f) => Approved(f)'
    BY <1>1, <2>1 DEF Approved
  <2> QED
    BY <1>1, <1>3, <2>2, <2>3, <2>4 DEF Fine
<1>4. ~setting.rescan => Fine(f)
  BY DEF UnpackInv
<1> QED
  BY <1>2, <1>3, <1>4, OneTouched

\* A user's step about one archive.
LEMMA UserFine ==
  ASSUME TypeInv, OneSlot, UnpackInv, NEW f \in Files,
         Approve(f) \/ RetryCloud(f) \/ RetryHistory(f) \/ Cancel(f) \/ Ignore(f) \/ Unignore(f)
  PROVE  UnpackInv'
<1> USE DEF cloud, state, workers, copies, scanner, Shows
<1>0. /\ RecordsOK /\ GoroutinesOK
      /\ UNCHANGED <<setting, folders, removed, paused, scan, resuming, local>>
      /\ overtaken \subseteq overtaken' /\ Source(f)' = Source(f)
  BY DEF TypeInv, Approve, RetryCloud, RetryHistory, Cancel, Ignore, Unignore, Source
<1>1. /\ \A d \in Folders : In(d)' = In(d)
      /\ Gone(f)' <=> Gone(f)
  BY <1>0, InUnchanged, GoneUnchanged
<1>2. f \notin running => job[f].at = "none" /\ job[f] = NoJob
  BY <1>0 DEF OneSlot, At, GoroutinesOK
<1>3. UNCHANGED job \/ \E j \in Jobs : job' = [job EXCEPT ![f] = j] /\ j.at = "queued" /\ j.try = 0
  BY NewJobs DEF Approve, RetryCloud, RetryHistory, Cancel, Ignore, Unignore
<1>4. \A g \in Files \ {f} : job'[g] = job[g]
  BY <1>0, <1>3 DEF GoroutinesOK
<1>5. ASSUME NEW g \in Files \ {f} PROVE Same(g)
  <2>1. /\ pending'[g] = pending[g] /\ failed'[g] = failed[g]
        /\ (g \in asked' <=> g \in asked)
    BY <1>0, <1>5
       DEF RecordsOK, Approve, RetryCloud, RetryHistory, Cancel, Ignore, Unignore, Drop, Refreshes
  <2> QED
    BY <1>0, <1>1, <1>4, <2>1 DEF Same, SamePlace
<1>6. Quiet
  BY <1>0 DEF Quiet
<1> SUFFICES ASSUME Fine(f) PROVE Fine(f)'
  <2>1. ~setting.rescan => Fine(f)
    BY DEF UnpackInv
  <2> QED
    BY <1>5, <1>6, <2>1, OneTouched
<1>7. CASE Approve(f)
  <2>1. /\ UNCHANGED <<job, failed>> /\ pending[f] = "approval" /\ pending'[f] = "approved" /\ ~paused
        /\ job[f].at \in {"queued", "ready", "list"} => f \in overtaken'
    BY <1>0, <1>7 DEF Approve, RecordsOK
  <2>2. Placed(f)'
    BY <1>0, <1>1, <2>1 DEF Fine, Placed, Folders
  <2>3. ASSUME Source(f), f \notin overtaken'
        PROVE  Agreed(f) /\ job[f].at \in {"none", "hand"}
    BY <1>0, <2>1, <2>3 DEF Fine, Agreed
  <2>4. ASSUME Source(f), f \notin overtaken' PROVE Agreed(f)'
    <3>1. job[f].by = "pending" => job[f].at = "hand"
      BY <1>0, <2>3, <2>4 DEF GoroutinesOK, NoJob
    <3> QED
      BY <1>0, <1>1, <2>1, <2>3, <2>4, <3>1 DEF Agreed, Unmoved
  <2>5. ASSUME Source(f), f \notin overtaken', Approved(f) PROVE Approved(f)'
    BY <1>0, <1>1, <2>1, <2>3, <2>5 DEF Approved
  <2> QED
    BY <1>0, <2>2, <2>4, <2>5 DEF Fine, Source
<1>8. CASE RetryCloud(f)
  <2>1. /\ UNCHANGED <<failed, pending, asked, overtaken>> /\ pending[f] = "approval"
        /\ Source(f) /\ f \notin running
        /\ job' = [job EXCEPT ![f] = [NoJob EXCEPT !.at = "queued", !.by = "pending"]]
    BY <1>0, <1>8 DEF RetryCloud, RecordsOK, Source
  <2>2. job'[f].at = "queued" /\ job'[f].by = "pending"
    BY <1>0, <2>1, NewJobs, QueuesUp
  <2>3. Placed(f)'
    BY <1>0, <1>1, <2>1, <2>2 DEF Fine, Placed, Folders
  <2>4. ASSUME f \notin overtaken PROVE Agreed(f)'
    <3>1. Agreed(f) /\ f \notin asked
      BY <2>1, <2>4 DEF Fine, Agreed
    <3>2. pending'[f] = "approval" /\ failed' = failed /\ local' = local
      BY <1>0, <2>1
    <3> QED
      BY <1>0, <1>1, <2>1, <2>2, <3>1, <3>2, <1>2 DEF Agreed
  <2>5. ASSUME f \notin overtaken, Approved(f) PROVE Approved(f)'
    BY <1>0, <1>1, <2>1, <2>2, <2>5 DEF Fine, Agreed, Approved
  <2> QED
    BY <1>0, <2>1, <2>3, <2>4, <2>5 DEF Fine
<1>9. CASE RetryHistory(f)
  <2>1. /\ UNCHANGED <<failed, asked, overtaken>> /\ pending[f] = "none" /\ f \notin running
        /\ failed[f] = "none" => f \notin In("failure")
    BY <1>0, <1>9 DEF RetryHistory
  <2>2. job[f].at = "none" /\ job[f].by = "scan"
    BY <1>2, <2>1 DEF NoJob
  <2>3. CASE failed[f] = "download"
    <3>1. UNCHANGED job /\ pending'[f] = "approval"
      BY <1>0, <1>9, <2>3 DEF RetryHistory, RecordsOK
    <3>2. Placed(f)'
      BY <1>0, <1>1, <2>1, <2>2, <2>3, <3>1 DEF Fine, Placed, Folders
    <3>3. ASSUME Source(f), f \notin overtaken PROVE Agreed(f)'
      BY <1>0, <1>1, <2>1, <2>2, <2>3, <3>1, <3>3 DEF Fine, Placed, Agreed, Unmoved
    <3>4. ASSUME Source(f), f \notin overtaken, Approved(f) PROVE Approved(f)'
      BY <1>0, <1>1, <2>1, <2>2, <2>3, <3>1, <3>4 DEF Fine, Placed, Agreed, Approved
    <3> QED
      BY <1>0, <3>2, <3>3, <3>4 DEF Fine
  <2>4. CASE failed[f] # "download"
    <3>1. UNCHANGED pending /\ job' = [job EXCEPT ![f] = [NoJob EXCEPT !.at = "queued", !.by = "history"]]
      BY <1>9, <2>4 DEF RetryHistory
    <3>2. job'[f].at = "queued" /\ job'[f].by = "history"
      BY <1>0, <3>1, NewJobs, QueuesUp
    <3>3. Placed(f)'
      BY <1>0, <1>1, <2>1, <3>1, <3>2 DEF Fine, Placed, Folders
    <3>4. ASSUME Source(f), f \notin overtaken PROVE Agreed(f)'
      BY <1>0, <1>1, <2>1, <2>2, <3>1, <3>2, <3>4 DEF Fine, Agreed
    <3>5. ASSUME Source(f), f \notin overtaken, Approved(f) PROVE Approved(f)'
      <4>1. f \in asked => Gone(f)
        BY <3>5 DEF Fine, Placed
      <4> QED
        BY <1>0, <1>1, <2>1, <2>2, <3>1, <3>2, <3>5, <4>1 DEF Fine, Approved, Gone
    <3> QED
      BY <1>0, <3>3, <3>4, <3>5 DEF Fine
  <2> QED
    BY <2>3, <2>4
<1>10. CASE Cancel(f) \/ Ignore(f)
  <2>1. /\ UNCHANGED <<job, overtaken>> /\ pending'[f] = "none" /\ f \notin asked' /\ local[f] = "none"
        /\ failed'[f] # failed[f] => failed'[f] # "download" \/ pending[f] # "none"
    BY <1>0, <1>10 DEF Cancel, Ignore, Drop, RecordsOK
  <2>2. Placed(f)'
    BY <1>0, <1>1, <2>1 DEF Fine, Placed, Folders
  <2>3. ASSUME Source(f), f \notin overtaken PROVE Agreed(f)'
    BY <1>0, <1>1, <2>1, <2>3 DEF Fine, Agreed
  <2>4. ASSUME Source(f), f \notin overtaken, Approved(f) PROVE Approved(f)'
    BY <1>0, <1>1, <2>1, <2>4 DEF Fine, Agreed, Approved
  <2> QED
    BY <1>0, <2>2, <2>3, <2>4 DEF Fine
<1>11. CASE Unignore(f)
  <2>1. UNCHANGED <<job, pending, failed, asked>>
    BY <1>11 DEF Unignore
  <2>2. Same(f)
    BY <1>0, <1>1, <2>1 DEF Same, SamePlace
  <2> QED
    BY <1>0, <2>2, SameKept
<1> QED
  BY <1>7, <1>8, <1>9, <1>10, <1>11

LEMMA ScanFine ==
  ASSUME TypeInv, OneSlot, UnpackInv, Scanning \/ UserScan \/ ScanPageFails
  PROVE  UnpackInv'
<1> USE DEF cloud, state, workers, copies, scanner
<1> SUFFICES ASSUME ~setting.rescan PROVE UnpackInv'
  <2>1. UNCHANGED setting
    BY DEF Scanning, UserScan, ScanPageFails, TimerScan, ResumeScan, ScanStart, ScanPage, ScanNext,
           ScanSkips, ScanAsks, ScanQueues, ScanRefreshes
  <2> QED
    BY <2>1 DEF UnpackInv
<1>0. ScannerOK /\ RecordsOK /\ GoroutinesOK /\ ScanPlaced /\ \A f \in Files : Fine(f)
  BY DEF TypeInv, UnpackInv
<1>1. ASSUME NEW full \in BOOLEAN, ScanStart(full)
      PROVE  ScanPlaced'
  BY <1>1 DEF ScanStart, ScanPlaced, NoScan
<1>2. CASE TimerScan \/ UserScan \/ ResumeScan
  <2>1. /\ UNCHANGED <<cloud, failed, pending, paused, job, row, copies, overtaken>>
        /\ resuming' \subseteq resuming \cup {"failure"}
        /\ ScanPlaced' \/ UNCHANGED scan
    BY <1>1, <1>2 DEF TimerScan, UserScan, ResumeScan, ScanStart
  <2>2. resuming' \cap Files \subseteq resuming
    BY <2>1, CloudAssumption
  <2>3. ScanPlaced'
    BY <1>0, <2>1 DEF ScanPlaced, Source
  <2> QED
    BY <2>1, <2>2, <2>3, NoneTouched
<1>3. CASE ScanPage \/ ScanPageFails \/ ScanNext
  <2>1. UNCHANGED <<cloud, failed, pending, paused, job, row, copies, overtaken, resuming>>
    BY <1>3 DEF ScanPage, ScanPageFails, ScanNext
  <2>2. CASE ScanPage
    <3> DEFINE batch == Page(scan.folder, offsets[scan.folder] + scan.page * PageSize)
    <3>1. /\ scan.folder \in Folders /\ offsets[scan.folder] \in Nat /\ scan.page \in Nat /\ PageSize \in Nat
      BY <1>0, CloudAssumption DEF ScannerOK, Folders
    <3>2. offsets[scan.folder] + scan.page * PageSize \in Nat
      <4>1. scan.page * PageSize \in Nat
        BY <3>1
      <4> QED
        BY <3>1, <4>1
    <3>3. ToSet(batch) \subseteq In(scan.folder) /\ In(scan.folder) \subseteq Files
      <4>1. folders[scan.folder] \in Seq(Files)
        BY <3>1 DEF TypeInv, FoldersOK
      <4>2. In(scan.folder) \subseteq Files
        BY <4>1, LenProperties, ElementOfSeq DEF In, ToSet
      <4> QED
        BY <3>1, <3>2, <4>1, <4>2, PageInFolder
    <3>4. /\ scan'.todo = scan.todo \cup ToSet(batch) /\ scan'.at \in {"page", "file"}
          /\ scan'.folder = scan.folder /\ scan'.asked = scan.asked
      <4> HIDE DEF batch
      <4>1. \E ends \in BOOLEAN : scan' = [scan EXCEPT !.todo = @ \cup ToSet(batch),
                                             !.at = IF ends THEN "file" ELSE @,
                                             !.page = IF ends THEN 0 ELSE @ + 1]
        BY <2>2 DEF ScanPage, batch
      <4>2. scan.at = "page"
        BY <2>2 DEF ScanPage
      <4> QED
        BY <1>0, <4>1, <4>2 DEF ScannerOK
    <3>5. scan.folder = "download" => \A f \in ToSet(batch) : ~Source(f)
      BY <1>0, <3>3 DEF Fine, Placed
    <3> HIDE DEF batch
    <3>6. ScanPlaced'
      BY <1>0, <3>4, <3>5 DEF ScanPlaced, Source
    <3> QED
      BY <2>1, <3>6, NoneTouched
  <2>3. CASE ScanPageFails
    <3>1. /\ scan'.at = "file" /\ scan'.todo = {} /\ scan'.folder = scan.folder /\ scan'.asked = scan.asked
      BY <1>0, <2>3 DEF ScanPageFails, ScannerOK
    <3>2. ScanPlaced'
      BY <1>0, <3>1 DEF ScanPlaced, Source
    <3> QED
      BY <2>1, <3>2, NoneTouched
  <2>4. CASE ScanNext
    <3>1. \/ scan' = NoScan
          \/ scan'.at = "page" /\ scan'.todo = {} /\ scan'.asked = {}
      BY <1>0, <2>4 DEF ScanNext, ScannerOK
    <3>2. ScanPlaced'
      BY <3>1 DEF ScanPlaced, NoScan
    <3> QED
      BY <2>1, <3>2, NoneTouched
  <2> QED
    BY <1>3, <2>2, <2>3, <2>4
<1>4. ASSUME NEW f \in Files, ScanSkips(f) \/ ScanAsks(f)
      PROVE  UnpackInv'
  <2>1. UNCHANGED <<cloud, failed, pending, paused, job, row, copies, overtaken, resuming>>
    BY <1>4 DEF ScanSkips, ScanAsks
  <2>2. /\ scan'.at = scan.at /\ scan'.folder = scan.folder
        /\ scan'.todo \cup scan'.asked \subseteq scan.todo \cup scan.asked
    BY <1>0, <1>4 DEF ScanSkips, ScanAsks, ScannerOK
  <2>3. ScanPlaced'
    BY <1>0, <2>2 DEF ScanPlaced, Source
  <2> QED
    BY <2>1, <2>3, NoneTouched
<1>5. ASSUME NEW f \in Files, ScanRefreshes(f)
      PROVE  UnpackInv'
  <2>1. /\ UNCHANGED <<cloud, failed, pending, paused, job, row, local, overtaken, resuming>>
        /\ asked' \subseteq asked \cup {f} /\ asked \subseteq asked'
        /\ f \in scan.asked /\ scan.at = "refresh"
    BY <1>5 DEF ScanRefreshes, Refreshes
  <2>2. ~Source(f)
    BY <1>0, <2>1 DEF ScanPlaced
  <2>3. scan'.at = "file" /\ scan'.todo = scan.todo /\ scan'.asked = {} /\ scan'.folder = scan.folder
    BY <1>0, <1>5 DEF ScanRefreshes, ScannerOK
  <2>4. ScanPlaced'
    BY <1>0, <2>3 DEF ScanPlaced, Source
  <2>5. ASSUME NEW g \in Files \ {f} PROVE Fine(g)'
    <3>1. Same(g)
      BY <2>1, <2>5 DEF Same, SamePlace, In
    <3> QED
      BY <1>0, <2>1, <3>1, SameKept
  <2>6. Fine(f)'
    <3>1. \A d \in Folders : In(d)' = In(d)
      BY <2>1, InUnchanged
    <3> QED
      <4>1. Placed(f)
        BY <1>0 DEF Fine
      <4>2. Source(f)' = Source(f) /\ (f \in removed)' = (f \in removed)
        BY <2>1 DEF Source
      <4>3. Placed(f)'
        BY <2>1, <2>2, <3>1, <4>1, <4>2, GoneUnchanged DEF Placed, Folders
      <4> QED
        BY <2>2, <4>2, <4>3 DEF Fine
  <2> QED
    BY <2>4, <2>5, <2>6 DEF UnpackInv
<1>6. ASSUME NEW f \in Files, ScanQueues(f)
      PROVE  UnpackInv'
  <2>1. /\ UNCHANGED <<cloud, failed, paused, copies, resuming>> /\ overtaken \subseteq overtaken'
        /\ overtaken' \subseteq overtaken \cup {f} /\ f \in scan.asked /\ scan.at = "file"
        /\ UNCHANGED <<job, pending>> \/ f \notin running
    BY <1>6 DEF ScanQueues
  <2>2. /\ scan'.folder = scan.folder
        /\ scan'.todo \cup scan'.asked \subseteq scan.todo \cup scan.asked
        /\ scan'.at = "file" \/ scan.folder # "source"
    <3>1. CASE f \in running \/ scan.folder = "source"
      <4>1. scan' = [scan EXCEPT !.todo = @ \ {f}, !.asked = {}]
        BY <1>6, <3>1 DEF ScanQueues
      <4> QED
        BY <1>0, <2>1, <4>1 DEF ScannerOK
    <3>2. CASE ~(f \in running \/ scan.folder = "source")
      <4>1. scan' = [scan EXCEPT !.todo = @ \ {f}, !.at = "refresh"]
        BY <1>6, <3>2 DEF ScanQueues
      <4> QED
        BY <1>0, <3>2, <4>1 DEF ScannerOK
    <3> QED
      BY <3>1, <3>2
  <2>3. ScanPlaced'
    BY <1>0, <2>2 DEF ScanPlaced, Source, ScannerOK
  <2>4. CASE f \in running
    <3>1. UNCHANGED <<job, pending, row>> /\ UNCHANGED overtaken
      BY <1>6, <2>4 DEF ScanQueues
    <3> QED
      BY <2>1, <2>3, <3>1, NoneTouched
  <2>5. CASE f \notin running
    <3>0. job[f].at = "none" /\ job[f].by = "scan"
      BY <1>0, <2>5 DEF OneSlot, At, GoroutinesOK, NoJob
    <3>1. \A d \in Folders : In(d)' = In(d)
      BY <2>1, InUnchanged
    <3>2. Gone(f)' <=> Gone(f)
      BY <2>1, <3>1, GoneUnchanged
    <3>3. CASE scan.folder = "source"
      <4>1. /\ job' = [job EXCEPT ![f] = [NoJob EXCEPT !.at = "queued"]]
            /\ row' = [row EXCEPT ![f] = "shown"] /\ UNCHANGED pending
            /\ f \in overtaken' \/ f \in In("source")
        BY <1>6, <2>5, <3>3 DEF ScanQueues
      <4>2. /\ job'[f].at = "queued" /\ job'[f].by = "scan"
            /\ \A g \in Files \ {f} : job'[g] = job[g]
        BY <1>0, <4>1, NewJobs, QueuesUp
      <4>3. ASSUME NEW g \in Files \ {f} PROVE Fine(g)'
        <5>1. Same(g)
          BY <1>0, <2>1, <3>1, <4>1, <4>2, <4>3 DEF Same, SamePlace, RecordsOK
        <5> QED
          BY <1>0, <2>1, <5>1, SameKept
      <4>4. Placed(f)'
        BY <1>0, <2>1, <3>1, <3>2, <4>1, <4>2 DEF Fine, Placed, Source, Folders
      <4>5. ASSUME Source(f), f \notin overtaken'
            PROVE  Agreed(f)' /\ (setting.auto \/ Approved(f)')
        <5>1. /\ f \in In("source") /\ ~Gone(f) /\ pending[f] = "none" /\ f \notin asked
              /\ local[f] = "none" /\ failed[f] # "download"
          BY <1>0, <4>1, <4>5 DEF Fine, Placed
        <5>2. Agreed(f)'
          BY <2>1, <3>2, <4>1, <4>2, <5>1 DEF Agreed
        <5>3. Approved(f)'
          BY <2>1, <3>2, <4>1, <4>2, <5>1 DEF Approved
        <5> QED
          BY <5>2, <5>3
      <4>6. Fine(f)'
        BY <2>1, <4>4, <4>5 DEF Fine, Source
      <4> QED
        BY <2>3, <4>3, <4>6 DEF UnpackInv
    <3>4. CASE scan.folder # "source"
      <4>1. /\ UNCHANGED job /\ \A g \in Files \ {f} : pending'[g] = pending[g] /\ row'[g] = row[g]
        BY <1>0, <1>6, <2>5, <3>4 DEF ScanQueues, RecordsOK
      <4>2. ~Source(f)
        BY <1>0, <2>1, <3>4 DEF ScanPlaced, ScannerOK
      <4>3. ASSUME NEW g \in Files \ {f} PROVE Fine(g)'
        <5>1. Same(g)
          BY <2>1, <3>1, <4>1, <4>3 DEF Same, SamePlace
        <5> QED
          BY <1>0, <2>1, <5>1, SameKept
      <4>4. Fine(f)'
        <5>1. Placed(f)
          BY <1>0 DEF Fine
        <5>2. Source(f)' = Source(f) /\ (f \in removed)' = (f \in removed)
          BY <2>1 DEF Source
        <5>3. Placed(f)'
          BY <2>1, <3>1, <3>2, <4>1, <4>2, <5>1, <5>2 DEF Placed, Folders
        <5> QED
          BY <4>2, <5>2, <5>3 DEF Fine
      <4> QED
        BY <2>3, <4>3, <4>4 DEF UnpackInv
    <3> QED
      BY <3>3, <3>4
  <2> QED
    BY <2>4, <2>5
<1> QED
  BY <1>2, <1>3, <1>4, <1>5, <1>6 DEF Scanning

LEMMA RestFine ==
  ASSUME TypeInv, UnpackInv,
         StopClear \/ ResetHistory \/ Resume \/ Resuming \/ Crash \/ UNCHANGED vars
  PROVE  UnpackInv'
<1> USE DEF cloud, state, workers, copies, scanner
<1>0. UNCHANGED <<setting, folders, removed>>
  BY DEF StopClear, ResetHistory, Resume, Resuming, FailureLists, FailureAsks, ResumeDownloads, Crash, vars
<1> SUFFICES ASSUME ~setting.rescan PROVE UnpackInv'
  BY <1>0 DEF UnpackInv
<1>1. /\ ScannerOK /\ RecordsOK /\ GoroutinesOK /\ ScanPlaced /\ \A f \in Files : Fine(f)
  BY DEF TypeInv, UnpackInv
<1>2. /\ \A d \in Folders : In(d)' = In(d)
      /\ \A f : Gone(f)' <=> Gone(f)
  BY <1>0, InUnchanged, GoneUnchanged
<1>3. UNCHANGED scan => ScanPlaced'
  BY <1>1 DEF ScanPlaced, Source
<1>4. CASE UNCHANGED vars
  BY <1>3, <1>4, NoneTouched DEF vars
<1>5. CASE StopClear
  <2>1. /\ \A f \in Files : pending'[f] = "none" /\ asked' = {}
        /\ UNCHANGED <<failed, job, local, scan, overtaken, resuming>>
    BY <1>5 DEF StopClear
  <2>2. ASSUME NEW f \in Files PROVE Fine(f)'
    <3>1. Placed(f)'
      BY <1>0, <1>1, <1>2, <2>1 DEF Fine, Placed, Source, Folders
    <3>2. ASSUME Source(f), f \notin overtaken PROVE Agreed(f)' /\ Approved(f)'
      BY <1>0, <1>1, <1>2, <2>1, <2>2, <3>2 DEF Fine, Agreed, Approved
    <3> QED
      BY <2>1, <3>1, <3>2 DEF Fine, Source
  <2> QED
    BY <1>3, <2>1, <2>2 DEF UnpackInv
<1>6. CASE ResetHistory
  <2>1. /\ paused /\ \A f \in Files : failed'[f] = "none"
        /\ UNCHANGED <<paused, pending, row, asked, job, local, scan, overtaken, resuming>>
    BY <1>6 DEF ResetHistory
  <2>2. ASSUME NEW f \in Files PROVE Fine(f)'
    <3>1. Placed(f)'
      BY <1>0, <1>1, <1>2, <2>1 DEF Fine, Placed, Source, Folders
    <3>2. Agreed(f) => Agreed(f)'
      BY <1>0, <1>2, <2>1 DEF Agreed
    <3>3. Approved(f) => Approved(f)'
      BY <1>0, <1>2, <2>1 DEF Approved
    <3> QED
      BY <1>0, <1>1, <2>1, <3>1, <3>2, <3>3 DEF Fine, Source
  <2> QED
    BY <1>3, <2>1, <2>2 DEF UnpackInv
<1>7. CASE Resume
  <2>1. /\ ~paused' /\ resuming' \cap Files \subseteq resuming
        /\ UNCHANGED <<failed, pending, row, asked, job, local, scan, overtaken>>
    BY <1>7, CloudAssumption DEF Resume
  <2>2. ASSUME NEW f \in Files PROVE Fine(f)'
    <3>1. Placed(f)'
      BY <1>0, <1>1, <1>2, <2>1 DEF Fine, Placed, Source, Folders
    <3>2. Agreed(f) => Agreed(f)'
      BY <1>0, <1>2, <2>1 DEF Agreed
    <3>3. Approved(f) => Approved(f)'
      BY <1>0, <1>2, <2>1 DEF Approved
    <3> QED
      BY <1>0, <1>1, <2>1, <3>1, <3>2, <3>3 DEF Fine, Source
  <2> QED
    BY <1>3, <2>1, <2>2 DEF UnpackInv
<1>8. CASE FailureLists
  <2>1. /\ UNCHANGED <<cloud, failed, pending, paused, job, row, copies, scan, overtaken>>
        /\ resuming' \subseteq resuming
    BY <1>8 DEF FailureLists
  <2> QED
    BY <1>3, <2>1, NoneTouched
<1>9. ASSUME NEW f \in Files, FailureAsks(f)
      PROVE  UnpackInv'
  BY <1>1, <1>9 DEF FailureAsks, Fine, Placed
<1>10. CASE ResumeDownloads
  <2>1. /\ UNCHANGED <<failed, pending, paused, row, job, local, scan, overtaken>> /\ resuming' \subseteq resuming
        /\ \A f \in Files : f \in asked' => f \in asked \/ (pending[f] = "approved" /\ ~paused)
        /\ asked \subseteq asked'
    BY <1>10 DEF ResumeDownloads, Refreshes
  <2>2. ASSUME NEW f \in Files PROVE Fine(f)'
    <3>1. Placed(f)'
      BY <1>0, <1>1, <1>2, <2>1 DEF Fine, Placed, Source, Folders
    <3>2. ASSUME Source(f), f \notin overtaken PROVE Agreed(f)'
      <4>1. Agreed(f) /\ (job[f].at = "none" => job[f].by = "scan")
        BY <1>1, <3>2 DEF Fine, GoroutinesOK, NoJob
      <4> QED
        BY <1>0, <1>2, <2>1, <2>2, <4>1 DEF Agreed
    <3>3. ASSUME Agreed(f), Approved(f) PROVE Approved(f)'
      BY <1>0, <1>2, <2>1, <2>2, <3>3 DEF Agreed, Approved
    <3> QED
      BY <1>0, <1>1, <2>1, <3>1, <3>2, <3>3 DEF Fine, Source
  <2> QED
    BY <1>3, <2>1, <2>2 DEF UnpackInv
<1>11. CASE Crash
  <2>1. /\ UNCHANGED <<failed, pending, paused>> /\ asked' = {} /\ resuming' \cap Files = {}
        /\ scan' = NoScan /\ job' = [f \in Files |-> NoJob] /\ local' = [f \in Files |-> "none"]
    BY <1>11, CloudAssumption DEF Crash
  <2>2. ScanPlaced'
    BY <2>1 DEF ScanPlaced, NoScan
  <2>3. NoJob.at = "none" /\ NoJob.by = "scan"
    BY DEF NoJob
  <2>4. ASSUME NEW f \in Files PROVE Fine(f)'
    <3>1. /\ job'[f].at = "none" /\ job'[f].by = "scan" /\ local'[f] = "none" /\ f \notin asked'
      BY <2>1, <2>3, <2>4
    <3>2. Placed(f)'
      BY <1>0, <1>1, <1>2, <2>1, <3>1 DEF Fine, Placed, Source, Folders
    <3>3. Agreed(f)'
      BY <3>1 DEF Agreed, Unmoved
    <3>4. Approved(f)'
      BY <3>1 DEF Approved
    <3> QED
      BY <3>2, <3>3, <3>4 DEF Fine
  <2> QED
    BY <2>2, <2>4 DEF UnpackInv
<1> QED
  BY <1>4, <1>5, <1>6, <1>7, <1>8, <1>9, <1>10, <1>11 DEF Resuming

LEMMA InitFine == Init => UnpackInv
<1> SUFFICES ASSUME Init PROVE ScanPlaced /\ \A f \in Files : Fine(f)
  BY DEF UnpackInv
<1>1. ScanPlaced
  BY DEF Init, ScanPlaced, NoScan
<1>2. \A d \in Folders : In(d) = {}
  BY EmptySeq DEF Init, In, ToSet
<1>3. ASSUME NEW f \in Files PROVE Fine(f)
  <2>1. /\ job[f].at = "none" /\ job[f].by = "scan" /\ f \notin asked /\ pending[f] = "none"
        /\ local[f] = "none" /\ failed[f] = "none" /\ f \notin resuming /\ f \notin removed
    BY DEF Init, NoJob
  <2> QED
    BY <1>2, <2>1 DEF Fine, Placed, Agreed, Approved, Unmoved, Folders
<1> QED
  BY <1>1, <1>3

LEMMA UnpackAgreed == TypeInv /\ UnpackInv => OneUnpacker
<1> SUFFICES ASSUME TypeInv, UnpackInv, ~setting.rescan, NEW f \in asked \ overtaken
             PROVE  ~(job[f].at = "cloud" /\ job[f].by = "pending")
  BY DEF OneUnpacker
<1>1. f \in Files /\ Fine(f)
  BY DEF TypeInv, SetsOK, UnpackInv
<1> QED
  BY <1>1 DEF Fine, Placed, Agreed

\* However many scans, retries, approvals, downloads and crashes there are, a
\* retry in the cloud never runs beside the download of the same archive, unless
\* the user approved the download before the retry took the record, a scan queued
\* the archive after its move, or the failure folder is rescanned
\* (retryPending115Cloud, approve115Task, resume115LocalDownloads).
THEOREM OneUnpackerAlways == Spec => []OneUnpacker
<1>1. TypeInv /\ OneSlot /\ UnpackInv /\ [Next]_vars => UnpackInv'
  <2> SUFFICES ASSUME TypeInv, OneSlot, UnpackInv, [Next]_vars PROVE UnpackInv'
    OBVIOUS
  <2>1. CASE Scanning \/ ScanPageFails \/ UserScan
    BY <2>1, ScanFine
  <2>2. CASE User /\ ~UserScan
    BY <2>2, UserFine, RestFine DEF User
  <2>3. ASSUME NEW f \in Files, Working(f) \/ TakesSlot(f) PROVE UnpackInv'
    BY <2>3, WorkingFine
  <2>4. ASSUME NEW f \in Files, Downloading(f) \/ Drops(f) PROVE UnpackInv'
    BY <2>4, DownloadFine
  <2>5. ASSUME NEW f \in Files, Upload(f) PROVE UnpackInv'
    BY <2>5, UploadFine
  <2>6. CASE Resuming \/ Resume \/ Crash \/ UNCHANGED vars
    BY <2>6, RestFine
  <2> QED
    BY <2>1, <2>2, <2>3, <2>4, <2>5, <2>6, NextCases
<1> QED
  BY <1>1, InitFine, UnpackAgreed, TypesHold, OneSlotAlways, PTL DEF Spec
=============================================================================
