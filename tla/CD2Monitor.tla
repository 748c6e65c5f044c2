------------------------------ MODULE CD2Monitor ------------------------------
(***************************************************************************)
(* How an archive on a CloudDrive2 mount is found: the stream of change    *)
(* messages (pkg/clouddrive), the handlers that wait until the mount shows *)
(* the file, the fallback scan, the mapping of cloud paths to local ones,  *)
(* and the check that no volume of the archive is missing (clouddrive.go,  *)
(* archiveVolumeGroup in cd2_cache.go).                                    *)
(*                                                                         *)
(* What becomes of an archive once it is found takes one step for each of  *)
(* its copy, its record and its extraction here; CD2Cache has the details. *)
(* Left out: the pause of downloads, cancel, ignore and retry of a single  *)
(* archive, clear_cache and reset_history, files that vanish, and the      *)
(* deletion of the source, so that a source only grows.                    *)
(***************************************************************************)
EXTENDS Naturals, Sequences, FiniteSets, SequencesExt

CONSTANTS
    Groups,         \* archives
    CloudDir,       \* the cloud directory of an archive, a sequence of names
    LocalDir,       \* where the mount shows that directory
    Style,          \* "numbered" (.part1.rar, .7z.001) or "old" (.rar, .r00)
    Volumes,        \* numbers of the volumes; the primary of an old one is 0
    LastOf,         \* number of the last volume of an archive
    Overrides,      \* path_overrides: a sequence of <<from, to>>
    Mounts,         \* mount points: [source, path, isMounted]
    Config,         \* [manual, downloads, scanFailure, failurePath]
    ReconnectMin, ReconnectMax,
    Tries,          \* looks of a handler at the mount
    Fallback,       \* fallback_scan_enabled
    MaxArchives,    \* bound: archives that are uploaded
    MaxPushed,      \* bound: messages on their way
    MaxHandlers,    \* bound: handlers of changes that run at one time
    MaxFaults       \* bound: broken streams, failed calls, stop_clears and crashes

ASSUME MonitorAssumption ==
    /\ Style \in [Groups -> {"numbered", "old"}]
    /\ ReconnectMin \in Nat \ {0} /\ ReconnectMax \in Nat /\ ReconnectMin <= ReconnectMax
    /\ Tries \in Nat \ {0}
    /\ Fallback \in BOOLEAN
    /\ MaxArchives \in Nat /\ MaxPushed \in Nat /\ MaxHandlers \in Nat /\ MaxFaults \in Nat

VARIABLES
    remote,     \* volumes of an archive in the cloud
    mounted,    \* volumes that the mount shows
    stream,     \* "up", or "down" while the monitor waits
    delay,      \* how long it waits after the next failure
    pushed,     \* messages on the stream: <<archive, volume>>
    handlers,   \* handleCloudDriveChange: [group, volume, paths, tries]
    scanning,   \* archives whose folder the scan of a resume has yet to walk
    paused,     \* taskSystemPaused
    copies,     \* goroutines that copy: [group, files, resumed, locked, stopped]
    retry,      \* volumes in the record of a copy that failed, or {}
    record,     \* volumes in the record of the cached archive, or {}
    due,        \* the cached archive waits to be extracted
    extracting, \* archives that a worker extracts
    cached,     \* volumes in the cache
    processed,  \* sets of volumes that were extracted
    failed,     \* sets of volumes whose extraction has failed
    copied,     \* for CopiedOnce: sets that were copied, and not withdrawn since
    faults

kept == <<record, due, extracting, cached, processed, failed, copied>>
found == <<copies, retry, kept>>
link == <<stream, delay, pushed>>
vars == <<remote, mounted, link, handlers, scanning, paused, found, faults>>

-----------------------------------------------------------------------------
(***************************************************************************)
(* Paths.                                                                  *)
(***************************************************************************)
Below(path, root) == IsPrefix(root, path)
Rest(path, root) == SubSeq(path, Len(root) + 1, Len(path))

\* The first override that the path lies below decides.
OverriddenBy(path) ==
    {i \in DOMAIN Overrides : /\ Below(path, Overrides[i][1])
                              /\ \A j \in 1 .. i - 1 : ~Below(path, Overrides[j][1])}
ApplyMatchingOverride(path) ==
    {Overrides[i][2] \o Rest(path, Overrides[i][1]) : i \in OverriddenBy(path)}
ApplyOverrides(path) ==
    IF OverriddenBy(path) = {} THEN {path} ELSE ApplyMatchingOverride(path)

\* MapCloudPathWithOverrides: an override for the cloud path itself, and every
\* mount it lies below, whose server path may be overridden in turn.
MapCloudPath(path, mounts) ==
    ApplyMatchingOverride(path) \cup
    UNION {ApplyOverrides(m.path \o Rest(path, m.source)) :
              m \in {n \in mounts : n.isMounted /\ Below(path, n.source)}}

\* cloudDriveManualWatchPaths: not the folders whose archives await approval.
WatchPaths ==
    Config.manual
    \cup {d.path : d \in {e \in Config.downloads : ~e.approval}}
    \cup (IF Config.scanFailure THEN {Config.failurePath} ELSE {})

Watched == {g \in Groups : \E root \in WatchPaths : Below(CloudDir[g], root)}

\* The paths of an archive, without and with an answer about the mount points.
Overridden == [g \in Groups |-> MapCloudPath(CloudDir[g], {})]
Mapped == [g \in Groups |-> MapCloudPath(CloudDir[g], Mounts)]

\* What the handler of a change looks at: an override alone, if there is one.
CurrentPaths == [g \in Groups |-> IF Overridden[g] # {} THEN Overridden[g] ELSE Mapped[g]]

\* cloudDriveConfiguredRefreshPaths
RefreshPaths ==
    (WatchPaths \cup {Overrides[i][1] : i \in DOMAIN Overrides}
        \cup {d.path : d \in Config.downloads} \cup {Config.failurePath}) \ {<<>>}

-----------------------------------------------------------------------------
(***************************************************************************)
(* Volumes.                                                                *)
(***************************************************************************)
\* validateNumberedVolumes
Sequential(S, start) == S = {v \in Volumes : v >= start /\ v < start + Cardinality(S)}

\* validateVolumeSequence.  Nothing says how many volumes there are to be: a gap
\* is noticed, and a missing end is not.
Valid(g, S) ==
    /\ S # {}
    /\ IF Style[g] = "numbered" THEN Sequential(S, 1)
       ELSE S # {0} => 0 \in S /\ Sequential(S \ {0}, 1)

AllOf(g) == {v \in Volumes : v <= LastOf[g] /\ (Style[g] = "numbered" => v # 0)}

Init ==
    /\ remote = [g \in Groups |-> {}]
    /\ mounted = [g \in Groups |-> {}]
    /\ stream = "down" /\ delay = ReconnectMin /\ pushed = <<>>
    /\ handlers = {}
    /\ scanning = {}
    /\ paused = FALSE
    /\ copies = {} /\ extracting = {}
    /\ retry = [g \in Groups |-> {}]
    /\ cached = [g \in Groups |-> {}]
    /\ record = [g \in Groups |-> {}]
    /\ due = [g \in Groups |-> FALSE]
    /\ processed = [g \in Groups |-> {}]
    /\ failed = [g \in Groups |-> {}]
    /\ copied = [g \in Groups |-> {}]
    /\ faults = 0

Fault == faults < MaxFaults /\ faults' = faults + 1

-----------------------------------------------------------------------------
(***************************************************************************)
(* The cloud, and the stream of its messages.                              *)
(***************************************************************************)
Upload(g, v) ==
    /\ v \in AllOf(g) \ remote[g]
    /\ Cardinality({g} \cup {a \in Groups : remote[a] # {}}) <= MaxArchives
    /\ remote' = [remote EXCEPT ![g] = @ \cup {v}]
    /\ IF stream = "up"
       THEN /\ Len(pushed) < MaxPushed
            /\ pushed' = Append(pushed, <<g, v>>)
       ELSE UNCHANGED pushed
    /\ UNCHANGED <<mounted, stream, delay, handlers, scanning, paused, found, faults>>

\* Monitor.Run subscribes, once it has waited.
Connect ==
    /\ stream = "down"
    /\ stream' = "up"
    /\ UNCHANGED <<remote, mounted, delay, pushed, handlers, scanning, paused, found, faults>>

\* Mutant: the delay doubles without end.
BreaksUnbounded(clean) ==
    /\ stream = "up"
    /\ Fault
    /\ stream' = "down"
    /\ delay' = 2 * (IF clean THEN ReconnectMin ELSE delay)
    /\ pushed' = <<>>

\* The stream ends, with an error or without.  What was on it is lost.
Breaks(clean) ==
    /\ stream = "up"
    /\ Fault
    /\ stream' = "down"
    /\ LET waited == IF clean THEN ReconnectMin ELSE delay IN
       delay' = IF 2 * waited > ReconnectMax THEN ReconnectMax ELSE 2 * waited
    /\ pushed' = <<>>

Disconnect ==
    /\ \E clean \in BOOLEAN : Breaks(clean)
    /\ UNCHANGED <<remote, mounted, handlers, scanning, paused, found>>

\* The callback of a change maps its path, asks for the mount points, and hands
\* over what lies in a watched folder.  It needs their answer only without an
\* override: then an answer that does not come ends the stream.
Receive ==
    /\ pushed # <<>>
    /\ LET g == Head(pushed)[1]
           v == Head(pushed)[2]
           accept(paths) ==
               IF paths = {} \/ paused \/ g \notin Watched THEN UNCHANGED handlers
               ELSE /\ Cardinality(handlers) < MaxHandlers
                    /\ handlers' = handlers \cup
                         {[group |-> g, volume |-> v, paths |-> paths, tries |-> 0]}
       IN \/ /\ accept(CurrentPaths[g])
             /\ pushed' = Tail(pushed)
             /\ UNCHANGED <<stream, delay, faults>>
          \/ /\ Overridden[g] = {}
             /\ Breaks(FALSE)
             /\ UNCHANGED handlers
    /\ UNCHANGED <<remote, mounted, scanning, paused, found>>

\* A refresh of a directory, by whoever, makes the mount show what is there.
\* The mount may also show it by itself.
Shows(g) == mounted' = [mounted EXCEPT ![g] = remote[g]]

-----------------------------------------------------------------------------
(***************************************************************************)
(* cacheCloudDrivePaths, for one archive.                                  *)
(***************************************************************************)
CopiesOf(g) == {c \in copies : c.group = g}
Copying(g) == {c.files : c \in CopiesOf(g)} \ {{}}
Locked(g) == \E c \in CopiesOf(g) : c.locked

\* The lock of the archive is taken, and a goroutine started.
Copy(g, S, resumed) ==
    [group |-> g, files |-> S, resumed |-> resumed, locked |-> TRUE, stopped |-> FALSE]

Wanted(g, S) == ~paused /\ Valid(g, S) /\ S \notin processed[g] \cup failed[g]

\* Mutant: any record of the archive will do.
HasPendingAny(g, S) == record[g] # {} \/ S = {}

\* pendingCD2ForFiles: the cached archive has these very files.
HasPending(g, S) == record[g] = S

\* What is taken up is what the mount shows, unless it was done before.  A copy
\* of it that failed waits for its time; then its record goes, before the lock is
\* asked for.  Of two records with these files either may be found.
Submit(g, S) ==
    IF Wanted(g, S)
    THEN \/ /\ HasPending(g, S) \/ retry[g] = S
            /\ UNCHANGED <<copies, retry>>
         \/ /\ HasPending(g, S) => retry[g] = S
            /\ retry' = IF retry[g] = S THEN [retry EXCEPT ![g] = {}] ELSE retry
            /\ copies' = IF Locked(g) THEN copies ELSE copies \cup {Copy(g, S, FALSE)}
    ELSE UNCHANGED <<copies, retry>>

\* handleCloudDriveChange looks at once and after three waits; before each look
\* it asks for a refresh.
Try(h) ==
    LET g == h.group
        there == LocalDir[g] \in h.paths /\ h.volume \in mounted'[g]
    IN /\ h \in handlers
       /\ Shows(g) \/ UNCHANGED mounted
       /\ IF there
          THEN /\ Submit(g, mounted'[g])
               /\ handlers' = handlers \ {h}
          ELSE /\ handlers' = (handlers \ {h}) \cup
                    (IF h.tries + 1 < Tries THEN {[h EXCEPT !.tries = @ + 1]} ELSE {})
               /\ UNCHANGED <<copies, retry>>
       /\ UNCHANGED <<remote, link, scanning, paused, kept, faults>>

\* cloudDriveFallbackScanOne: it walks the local directory that a watched path
\* is mapped to, by the overrides alone if there is one.
Walked ==
    LET direct(root) == MapCloudPath(root, {})
        local(root) == IF direct(root) # {} THEN direct(root) ELSE MapCloudPath(root, Mounts)
    IN {g \in Groups : \E root \in WatchPaths : \E dir \in local(root) : Below(LocalDir[g], dir)}

FallbackScan(g) ==
    /\ Fallback \/ g \in scanning
    /\ g \in Walked
    /\ Submit(g, mounted[g])
    /\ scanning' = scanning \ {g}
    /\ UNCHANGED <<remote, mounted, link, handlers, paused, kept, faults>>

\* cloudDriveRefreshLoop, and the refresh of a resume or of the page.
Refreshed == {g \in Groups : \E dir \in RefreshPaths : Below(CloudDir[g], dir)}

RefreshLoop(g) ==
    /\ ~paused
    /\ g \in Refreshed
    /\ Shows(g)
    /\ UNCHANGED <<remote, link, handlers, scanning, paused, found, faults>>

-----------------------------------------------------------------------------
(***************************************************************************)
(* What becomes of it.                                                     *)
(***************************************************************************)
UnchangedWorld == UNCHANGED <<remote, mounted, link, handlers, scanning, paused>>

\* The goroutine ends, and frees the lock of its archive, whoever holds it now.
Released(c) == {[d EXCEPT !.locked = @ /\ d.group # c.group] : d \in copies \ {c}}

\* resumeCD2Pending starts the copy again that has failed.
ResumeCopy(g) ==
    /\ ~paused
    /\ retry[g] \notin failed[g] \cup {{}}
    /\ ~Locked(g)
    /\ copies' = copies \cup {Copy(g, retry[g], TRUE)}
    /\ UNCHANGED <<retry, kept, faults>> /\ UnchangedWorld

\* A record that was neither extracted nor has failed, if another takes its place.
Withdrawn(g) == {record[g]} \ (processed[g] \cup failed[g])

\* Mutant: the record of the cached archive is not saved.
CopyEndsUnrecorded(c) ==
    /\ c \in copies /\ c.files # {}
    /\ copied' = [copied EXCEPT ![c.group] = @ \cup {c.files}]
    /\ cached' = [cached EXCEPT ![c.group] = @ \cup c.files]
    /\ due' = [due EXCEPT ![c.group] = TRUE]
    /\ copies' = Released(c)
    /\ UNCHANGED <<retry, record, extracting, processed, failed, faults>> /\ UnchangedWorld

\* The volumes are cached, and their record replaces that of another set, which
\* is the newer one if the copy had failed before.  The event is dropped while
\* the path is being extracted.  The resumer then removes its own record.
CopyEnds(c) ==
    /\ c \in copies /\ c.files # {}
    /\ LET g == c.group
           older == ~(record[g] \subseteq c.files)
       IN /\ record' = [record EXCEPT ![g] = c.files]
          /\ cached' = [cached EXCEPT ![g] = @ \cup c.files]
          /\ due' = [due EXCEPT ![g] = @ \/ g \notin extracting]
          /\ copied' = [copied EXCEPT ![g] =
                          (IF older THEN @ \ Withdrawn(g) ELSE @) \cup {c.files}]
    /\ copies' = IF c.resumed THEN (copies \ {c}) \cup {[c EXCEPT !.files = {}]} ELSE Released(c)
    /\ UNCHANGED <<retry, extracting, processed, failed, faults>> /\ UnchangedWorld

ForgetRetry(c) ==
    /\ c \in copies /\ c.files = {}
    /\ retry' = [retry EXCEPT ![c.group] = {}]
    /\ copies' = Released(c)
    /\ UNCHANGED <<kept, faults>> /\ UnchangedWorld

\* queueCD2Retry and pauseCD2Task.  A scanner's copy that stop_clear has stopped
\* leaves no record, unless it ends after the resume has taken that back.
CopyFails(c) ==
    /\ c \in copies /\ c.files # {}
    /\ IF c.stopped THEN UNCHANGED faults ELSE Fault
    /\ retry' = IF paused /\ ~c.resumed THEN retry ELSE [retry EXCEPT ![c.group] = c.files]
    /\ copies' = Released(c)
    /\ UNCHANGED kept /\ UnchangedWorld

Extract(g) ==
    /\ due[g]
    /\ ~paused
    /\ due' = [due EXCEPT ![g] = FALSE]
    /\ extracting' = extracting \cup {g}
    /\ UNCHANGED <<copies, retry, record, cached, processed, failed, copied, faults>>
    /\ UnchangedWorld

\* The callback.  A volume that is missing is noticed here.  What is recorded is
\* the set that is on record by then.
ExtractEnds(g) ==
    /\ g \in extracting
    /\ extracting' = extracting \ {g}
    /\ \/ /\ AllOf(g) \subseteq cached[g]
          /\ processed' = [processed EXCEPT ![g] = @ \cup {record[g]}]
          /\ record' = [record EXCEPT ![g] = {}]
          /\ UNCHANGED failed
       \/ /\ failed' = [failed EXCEPT ![g] = @ \cup {record[g]}]
          /\ UNCHANGED <<processed, record>>
    /\ UNCHANGED <<copies, retry, due, cached, copied, faults>> /\ UnchangedWorld

-----------------------------------------------------------------------------
Primary(g) == IF Style[g] = "numbered" THEN 1 ELSE 0

\* stop_clear: copies are cancelled and lose their locks, the records go with the
\* first volume in the cache, but for an archive that is being extracted.
StopClear ==
    /\ Fault
    /\ paused' = TRUE
    /\ copies' = {[c EXCEPT !.locked = FALSE, !.stopped = TRUE] : c \in copies}
    /\ retry' = [g \in Groups |-> {}]
    /\ due' = [g \in Groups |-> FALSE]
    /\ LET cleared == {g \in Groups \ extracting : record[g] # {}} IN
       /\ record' = [g \in Groups |-> IF g \in cleared THEN {} ELSE record[g]]
       /\ cached' = [g \in Groups |-> cached[g] \ (IF g \in cleared THEN {Primary(g)} ELSE {})]
       /\ copied' = [g \in Groups |-> copied[g] \ (IF g \in cleared THEN Withdrawn(g) ELSE {})]
    /\ UNCHANGED <<remote, mounted, link, handlers, scanning, extracting, processed, failed>>

\* resumeTaskDiscovery refreshes and scans, whether the scan is enabled or not; if
\* it is, FallbackScan may be this scan at any time.
ResumeDiscovery ==
    /\ paused
    /\ paused' = FALSE
    /\ scanning' = IF Fallback THEN {} ELSE Groups
    /\ mounted' \in [Groups -> SUBSET Volumes]
    /\ \A g \in Groups : mounted'[g] \in {mounted[g], remote[g]}
    /\ UNCHANGED <<remote, link, handlers, found, faults>>

\* Copies, extractions and handlers end, records stay; the resumer finds a cached
\* archive.
Crash ==
    /\ Fault
    /\ stream' = "down" /\ delay' = ReconnectMin /\ pushed' = <<>>
    /\ handlers' = {}
    /\ scanning' = {}
    /\ copies' = {} /\ extracting' = {}
    /\ due' = [g \in Groups |-> record[g] # {} /\ record[g] \notin failed[g]]
    /\ UNCHANGED <<remote, mounted, paused, retry, record, cached, processed, failed, copied>>

Next ==
    \/ \E g \in Groups : \/ \E v \in Volumes : Upload(g, v)
                         \/ FallbackScan(g) \/ RefreshLoop(g)
                         \/ ResumeCopy(g) \/ Extract(g) \/ ExtractEnds(g)
    \/ \E c \in copies : CopyEnds(c) \/ ForgetRetry(c) \/ CopyFails(c)
    \/ Connect \/ Disconnect \/ Receive
    \/ \E h \in handlers : Try(h)
    \/ StopClear \/ ResumeDiscovery \/ Crash

\* The loops have tickers, and goroutines run on.  Nobody has to resume.
Fairness ==
    /\ WF_vars(Connect) /\ WF_vars(Receive)
    /\ WF_vars(\E h \in handlers : Try(h))
    /\ \A g \in Groups :
         /\ WF_vars(FallbackScan(g)) /\ WF_vars(RefreshLoop(g))
         /\ WF_vars(ResumeCopy(g)) /\ WF_vars(Extract(g)) /\ WF_vars(ExtractEnds(g))
         /\ WF_vars(\E c \in CopiesOf(g) : CopyEnds(c) \/ ForgetRetry(c) \/ CopyFails(c))

Spec == Init /\ [][Next]_vars
FairSpec == Spec /\ Fairness

-----------------------------------------------------------------------------
TypeOK ==
    /\ remote \in [Groups -> SUBSET Volumes] /\ mounted \in [Groups -> SUBSET Volumes]
    /\ \A g \in Groups : mounted[g] \subseteq remote[g]
    /\ stream \in {"up", "down"}
    /\ delay \in ReconnectMin .. ReconnectMax
    /\ pushed \in Seq(Groups \X Volumes) /\ (stream = "down" => pushed = <<>>)
    /\ \A h \in handlers : h.group \in Groups /\ h.volume \in Volumes /\ h.tries \in 0 .. Tries - 1
    /\ scanning \subseteq Groups /\ paused \in BOOLEAN
    /\ copies \subseteq [group : Groups, files : SUBSET Volumes, resumed : BOOLEAN,
                        locked : BOOLEAN, stopped : BOOLEAN]
    /\ retry \in [Groups -> SUBSET Volumes] /\ record \in [Groups -> SUBSET Volumes]
    /\ cached \in [Groups -> SUBSET Volumes] /\ extracting \subseteq Groups
    /\ due \in [Groups -> BOOLEAN]
    /\ processed \in [Groups -> SUBSET SUBSET Volumes]
    /\ failed \in [Groups -> SUBSET SUBSET Volumes]
    /\ copied \in [Groups -> SUBSET SUBSET Volumes]
    /\ faults \in 0 .. MaxFaults

\* An archive that is reported several times, by messages late and lost, by the
\* scan, and again after a crash, is copied once for each set of volumes.  There
\* are three ways to copy a set again, and no other: stop_clear has withdrawn its
\* record, a copy of fewer volumes that had failed before has replaced it, or the
\* record of its own failed copy is still there, which a crash may leave behind
\* after the copy has succeeded (cd2_cache.go:571, 882).
CopiedOnce ==
    [][\A g \in Groups : \A S \in Copying(g)' \ Copying(g) :
          S \in copied[g] => S = retry[g]]_vars

\* With the fallback scan, an archive that is whole in the cloud is some time
\* extracted, or its extraction fails, as it then is: also if its volumes came
\* one by one and a part of them was taken for the whole, if every message was
\* lost, and if the mount was late.
EventuallyTaken ==
    \A g \in Groups :
        []<>(remote[g] # AllOf(g) \/ paused \/ AllOf(g) \in processed[g] \cup failed[g])

=============================================================================
