---------------------------- MODULE CD2CacheProofs ----------------------------
(***************************************************************************)
(* The types of the copy cache, that one staging directory has one copy,   *)
(* and that the cache keeps the promise of CloudArchive, for any groups,   *)
(* sizes, copiers and jobs, any settings and bounds, and any use of the    *)
(* controls.                                                               *)
(***************************************************************************)
EXTENDS CD2Cache, TLAPS

---------------------------------------------------------------------------
(* What the records hold.  Beside its type a record keeps to one cached    *)
(* path: whatever is known by a path, or is on its way to it, is of a      *)
(* group whose target the path is.                                         *)

PendingRecs ==
    {r \in [key : PendingKeys, group : Groups, cached : BOOLEAN, size : Sizes \cup {NoSize}] :
        /\ r.cached <=> r.key[1] = "cached"
        /\ TargetOf(r.key[2]) = Target[r.group]}

Failures ==
    {r \in [id : Identities, stage : {"extract", "cleanup", "cancelled"},
            group : Groups \cup {NoGroup}, cached : BOOLEAN] :
        /\ r.cached => (r.group \in Groups /\ Target[r.group] = r.id[1])
        /\ r.stage = "cleanup" => r.group \in Groups}

Copies ==
    {x \in [at : Steps, key : Keys, group : Groups, size : Sizes \cup {NoSize}, owns : BOOLEAN,
            resumed : PendingKeys \cup {Nothing}] :
        /\ TargetOf(x.key) = Target[x.group]
        /\ x.at = "copying" => x.size \in Sizes}

ContentsAt(p) == {Nothing} \cup {x \in Contents : Target[Group(x)] = p}
JobsAt(p) == [path : {p}, got : ContentsAt(p), started : BOOLEAN]

Calls == {r \in [at : {"called"}, path : Paths, id : {Nothing}, group : Groups] :
             Target[r.group] = r.path}
Deletions == [at : {"deleting"}, path : Paths, id : Identities, group : Groups]

\* What cd2Cache may have for a path: a group whose target it is.
LinksAt(p) == {NoGroup} \cup {g \in Groups : Target[g] = p}

CacheDirs == {f \in [Paths -> Contents \cup {Nothing}] : \A p \in Paths : f[p] \in ContentsAt(p)}
Links == {f \in [Paths -> Groups \cup {NoGroup}] : \A p \in Paths : f[p] \in LinksAt(p)}
TasksOf == [Keys -> {"none", "open", "cached"}]
StagingDirs == [Keys -> Contents \cup {Nothing}]
JobRecs == UNION {JobsAt(p) : p \in Paths}

---------------------------------------------------------------------------
(* The inductive invariant of the types, in parts.                         *)

SwitchesOK == paused \in BOOLEAN /\ downloadsPaused \in BOOLEAN
RecordsOK ==
    /\ processed \subseteq Identities /\ failed \subseteq Failures /\ ignored \subseteq Paths
    /\ pending \subseteq PendingRecs
DirsOK ==
    /\ source \in [Groups -> Sizes \cup {NoSize}]
    /\ staging \in StagingDirs
    /\ cache \in CacheDirs
SharedOK ==
    /\ cd2Cache \in Links /\ cd2Copy \subseteq Keys /\ cd2Resume \subseteq Paths
    /\ cd2Tasks \in TasksOf
MarksOK == cancelled \subseteq Keys /\ cleaning \subseteq Identities
OwnedOK ==
    /\ map \in [Paths -> Statuses] /\ tracked \in [Paths -> Statuses]
    /\ retries \in [Paths -> 0 .. MaxRetries]
CopyOK == copy \in [Copiers -> {Idle} \cup Copies]
FlightsOK ==
    /\ events \in Seq(Paths)
    /\ jobs \in [Jobs -> {Nothing} \cup JobRecs]
    /\ reaping \subseteq Calls \cup Deletions
    /\ purging \subseteq Paths \X (Sizes \cup {NoSize})
PastOK ==
    /\ extracted \subseteq Groups \X Sizes /\ deleted \subseteq Groups \X Sizes
    /\ world \in 0 .. MaxWorld

TypeInv ==
    /\ SwitchesOK /\ RecordsOK /\ DirsOK /\ SharedOK /\ MarksOK /\ OwnedOK /\ CopyOK
    /\ FlightsOK /\ PastOK

\* One staging directory has one copy, and a copy that owns its lock holds it.
Owner(c) == copy[c].at \in Steps \ {"looked"} /\ copy[c].owns
LockInv == OneCopier /\ \A c \in Copiers : Owner(c) => Key(c) \in cd2Copy

\* Whatever leads to the deletion of a source is of an extracted group.
Earned ==
    /\ \A r \in reaping : r.group \in GroupsOf(extracted)
    /\ \A r \in failed : r.stage = "cleanup" => r.group \in GroupsOf(extracted)

\* Archives of two groups have base names of their own.
NamesApart == \A g, h \in Groups : Target[g] = Target[h] => g = h

---------------------------------------------------------------------------
(* Keys, targets and records.                                              *)

LEMMA TargetTyped == ASSUME NEW k \in Keys PROVE TargetOf(k) \in Paths
  BY CacheAssumption DEF TargetOf, Keys

LEMMA TargetOfGroup == ASSUME NEW g \in Groups PROVE g \in Keys /\ TargetOf(g) = Target[g] /\ Target[g] \in Paths
  BY CacheAssumption DEF TargetOf, Keys

LEMMA TargetOfPath == ASSUME NEW p \in Paths PROVE p \in Keys /\ TargetOf(p) = p
  BY CacheAssumption DEF TargetOf, Keys

LEMMA PendingKeyParts ==
  ASSUME NEW key \in PendingKeys
  PROVE  /\ key[2] \in Keys
         /\ key[1] = "cached" => key[2] \in Paths
  BY DEF PendingKeys, Keys

LEMMA PendingFacts ==
  ASSUME NEW r \in PendingRecs
  PROVE  /\ r.key \in PendingKeys /\ r.group \in Groups /\ r.cached \in BOOLEAN
         /\ r.size \in Sizes \cup {NoSize}
         /\ Key2(r) \in Keys /\ TargetOf(Key2(r)) = Target[r.group]
         /\ r.cached => (Key2(r) \in Paths /\ Target[r.group] = Key2(r))
<1>1. /\ r.key \in PendingKeys /\ r.group \in Groups /\ r.cached \in BOOLEAN
      /\ r.size \in Sizes \cup {NoSize} /\ TargetOf(r.key[2]) = Target[r.group]
      /\ r.cached => r.key[1] = "cached"
  BY DEF PendingRecs
<1>2. Key2(r) \in Keys /\ (r.cached => Key2(r) \in Paths)
  BY <1>1, PendingKeyParts DEF Key2
<1> QED
  BY <1>1, <1>2, TargetOfPath DEF Key2

LEMMA CopyRecordOK ==
  ASSUME NEW k \in Keys, NEW g \in Groups, TargetOf(k) = Target[g]
  PROVE  CopyRecord(k, g) \in PendingRecs
<1>1. <<"copy", k>> \in PendingKeys
  BY DEF PendingKeys
<1> QED
  BY <1>1 DEF CopyRecord, PendingRecs

LEMMA CachedRecordOK ==
  ASSUME NEW p \in Paths, NEW g \in Groups, Target[g] = p, NEW s \in Sizes \cup {NoSize}
  PROVE  [key |-> <<"cached", p>>, group |-> g, cached |-> TRUE, size |-> s] \in PendingRecs
<1>1. <<"cached", p>> \in PendingKeys
  BY DEF PendingKeys
<1>2. TargetOf(p) = p
  BY TargetOfPath
<1> QED
  BY <1>1, <1>2 DEF PendingRecs

LEMMA PutTyped ==
  ASSUME NEW recs, recs \subseteq PendingRecs, NEW rec \in PendingRecs
  PROVE  Put(recs, rec) \subseteq PendingRecs
  BY DEF Put

LEMMA CopyFacts ==
  ASSUME CopyOK, NEW c \in Copiers, Busy(c)
  PROVE  /\ copy[c] \in Copies
         /\ copy[c].at \in Steps /\ Key(c) \in Keys /\ From(c) \in Groups
         /\ copy[c].size \in Sizes \cup {NoSize} /\ copy[c].owns \in BOOLEAN
         /\ copy[c].resumed \in PendingKeys \cup {Nothing}
         /\ TargetOf(Key(c)) = Target[From(c)]
         /\ At(c, "copying") => copy[c].size \in Sizes
<1>1. copy[c] \in Copies
  BY DEF CopyOK, Busy, Idle
<1> QED
  BY <1>1 DEF Copies, Key, From, At

LEMMA StepBusy == ASSUME NEW c, NEW s \in Steps, At(c, s) PROVE Busy(c)
  BY DEF At, Busy, Steps

\* A copy is typed whatever is written over its step, its lock or its size.
LEMMA CopyChanged ==
  ASSUME NEW x \in Copies, NEW s \in Steps, s = "copying" => x.size \in Sizes
  PROVE  [x EXCEPT !.at = s] \in Copies
  BY DEF Copies

LEMMA CopyLoosed == ASSUME NEW x \in Copies, NEW b \in BOOLEAN PROVE [x EXCEPT !.owns = b] \in Copies
  BY DEF Copies

LEMMA CopySized ==
  ASSUME NEW x \in Copies, NEW n \in Sizes
  PROVE  [x EXCEPT !.at = "copying", !.size = n] \in Copies
  BY DEF Copies, Steps

LEMMA CopyingTyped ==
  ASSUME NEW step \in {"looked", "locked"}, NEW k \in Keys, NEW g \in Groups,
         TargetOf(k) = Target[g], NEW from \in PendingKeys \cup {Nothing}, DirsOK
  PROVE  Copying(step, k, g, from) \in Copies
  BY DEF Copying, Copies, Steps, DirsOK

LEMMA CopySet ==
  ASSUME CopyOK, NEW c \in Copiers, NEW x \in {Idle} \cup Copies, copy' = [copy EXCEPT ![c] = x]
  PROVE  CopyOK'
  BY DEF CopyOK

LEMMA CopyGoes ==
  ASSUME CopyOK, NEW c \in Copiers, Busy(c), NEW s \in Steps \ {"copying"}, Goes(c, s)
  PROVE  CopyOK'
<1>1. copy[c] \in Copies
  BY CopyFacts
<1>2. [copy[c] EXCEPT !.at = s] \in Copies
  BY <1>1, CopyChanged
<1>3. copy' = [copy EXCEPT ![c] = [copy[c] EXCEPT !.at = s]]
  BY DEF Goes
<1> QED
  BY <1>2, <1>3, CopySet

LEMMA CopyGone == ASSUME CopyOK, NEW c \in Copiers, Gone(c) PROVE CopyOK'
<1> SUFFICES ASSUME NEW d \in Copiers PROVE copy'[d] \in {Idle} \cup Copies
  BY DEF Gone, CopyOK
<1>1. CASE copy'[d] \in {Idle, copy[d]}
  BY <1>1 DEF CopyOK
<1>2. CASE Busy(d) /\ copy'[d] = [copy[d] EXCEPT !.owns = FALSE]
  BY <1>2, CopyFacts, CopyLoosed
<1> QED
  BY <1>1, <1>2 DEF Gone

LEMMA StoppedTyped == ASSUME CopyOK, NEW keys, NEW c \in Copiers PROVE Stopped(keys)[c] \in {Idle} \cup Copies
<1>1. CASE At(c, "copying") /\ Key(c) \in keys
  <2>1. Busy(c) /\ "failed" \in Steps
    BY <1>1, StepBusy DEF Steps
  <2> QED
    BY <1>1, <2>1, CopyFacts, CopyChanged DEF Stopped
<1>2. CASE ~(At(c, "copying") /\ Key(c) \in keys)
  BY <1>2 DEF Stopped, CopyOK
<1> QED
  BY <1>1, <1>2

LEMMA StoppedOK == ASSUME CopyOK, NEW keys, copy' = Stopped(keys) PROVE CopyOK'
  BY StoppedTyped DEF CopyOK, Stopped

---------------------------------------------------------------------------
(* Directories, links and the page.                                        *)

LEMMA ContentsFacts ==
  ASSUME NEW x \in Contents \cup {Nothing}, x # Nothing
  PROVE  x \in Contents /\ Group(x) \in Groups /\ SizeOf(x) \in Sizes /\ Whole(x) \in BOOLEAN
  BY DEF Contents, Group, SizeOf, Whole

LEMMA ContentsTyped ==
  ASSUME NEW g \in Groups, NEW s \in Sizes, NEW b \in BOOLEAN
  PROVE  /\ <<g, s, b>> \in Contents
         /\ <<g, s, b>> \in ContentsAt(Target[g])
  BY DEF Contents, ContentsAt, Group

LEMMA CacheAt ==
  ASSUME DirsOK, NEW p \in Paths
  PROVE  /\ cache[p] \in ContentsAt(p)
         /\ cache[p] \in Contents \cup {Nothing}
         /\ SizeOf(cache[p]) \in Sizes \cup {NoSize}
         /\ cache[p] # Nothing => SizeOf(cache[p]) \in Sizes
<1>1. cache[p] \in ContentsAt(p) /\ cache[p] \in Contents \cup {Nothing}
  BY DEF DirsOK, CacheDirs
<1>2. cache[p] # Nothing => SizeOf(cache[p]) \in Sizes
  BY <1>1, ContentsFacts
<1> QED
  BY <1>1, <1>2 DEF SizeOf

LEMMA CacheSet ==
  ASSUME cache \in CacheDirs, NEW p \in Paths, NEW x \in ContentsAt(p),
         cache' = [cache EXCEPT ![p] = x]
  PROVE  cache' \in CacheDirs
<1>1. x \in Contents \cup {Nothing}
  BY DEF ContentsAt
<1> QED
  BY <1>1 DEF CacheDirs

LEMMA NothingAt == ASSUME NEW p PROVE Nothing \in ContentsAt(p)
  BY DEF ContentsAt

LEMMA StagingSet ==
  ASSUME staging \in StagingDirs, NEW k, NEW x \in Contents \cup {Nothing},
         staging' = [staging EXCEPT ![k] = x]
  PROVE  staging' \in StagingDirs
  BY DEF StagingDirs

LEMMA LinkAt ==
  ASSUME cd2Cache \in Links, NEW p \in Paths
  PROVE  /\ cd2Cache[p] \in Groups \cup {NoGroup}
         /\ cd2Cache[p] # NoGroup => (cd2Cache[p] \in Groups /\ Target[cd2Cache[p]] = p)
  BY DEF Links, LinksAt

LEMMA LinkSet ==
  ASSUME cd2Cache \in Links, NEW p \in Paths, NEW g \in LinksAt(p),
         cd2Cache' = [cd2Cache EXCEPT ![p] = g]
  PROVE  cd2Cache' \in Links
<1>1. g \in Groups \cup {NoGroup}
  BY DEF LinksAt
<1> QED
  BY <1>1 DEF Links

LEMMA TaskTyped ==
  ASSUME cd2Tasks \in TasksOf, NEW k
  PROVE  /\ \A state \in {"none", "open", "cached"} : Task(k, state) \in TasksOf
         /\ Shown(k) \in TasksOf
<1>1. \A state \in {"none", "open", "cached"} : Task(k, state) \in TasksOf
  BY DEF TasksOf, Task
<1> QED
  BY <1>1 DEF Shown

LEMMA VersionTyped == ASSUME DirsOK, NEW g \in Groups PROVE Version(g) \in Identities /\ Version(g)[1] = Target[g]
  BY TargetOfGroup DEF DirsOK, Version, Identities

LEMMA FailureTyped ==
  ASSUME NEW p \in Paths, NEW s \in Sizes \cup {NoSize}, NEW stage \in {"extract", "cancelled"},
         NEW g \in Groups \cup {NoGroup}, NEW b \in BOOLEAN,
         b => (g \in Groups /\ Target[g] = p)
  PROVE  [id |-> <<p, s>>, stage |-> stage, group |-> g, cached |-> b] \in Failures
<1>1. <<p, s>> \in Identities /\ <<p, s>>[1] = p
  BY DEF Identities
<1> QED
  BY <1>1 DEF Failures

\* PendingFor has records of the path only, so a failure names a group of it.
LEMMA PendingForFacts ==
  ASSUME RecordsOK, NEW p \in Paths, NEW r \in PendingFor(p)
  PROVE  r \in PendingRecs /\ r.group \in Groups /\ Target[r.group] = p /\ r.size \in Sizes \cup {NoSize}
<1>1. r \in PendingRecs /\ r.cached /\ r.key = <<"cached", p>>
  BY DEF PendingFor, RecordsOK
<1>2. Key2(r) = p
  BY <1>1 DEF Key2
<1> QED
  BY <1>1, <1>2, PendingFacts

LEMMA FailureOfTyped ==
  ASSUME RecordsOK, DirsOK, NEW p \in Paths, NEW stage \in {"extract", "cancelled"}
  PROVE  FailureOf(p, stage) \in Failures
<1> DEFINE known == {r \in PendingFor(p) : r.size # NoSize}
<1>1. CASE known # {}
  <2> DEFINE r == CHOOSE r \in known : TRUE
  <2>1. r \in known
    BY <1>1
  <2>2. r.group \in Groups /\ Target[r.group] = p /\ r.size \in Sizes \cup {NoSize}
    BY <2>1, PendingForFacts
  <2>3. FailureOf(p, stage) = [id |-> <<p, r.size>>, stage |-> stage, group |-> r.group, cached |-> TRUE]
    BY <1>1 DEF FailureOf
  <2> HIDE DEF r
  <2> QED
    BY <2>2, <2>3, FailureTyped
<1>2. CASE known = {}
  <2>1. FailureOf(p, stage)
        = [id |-> <<p, SizeOf(cache[p])>>, stage |-> stage, group |-> NoGroup, cached |-> FALSE]
    BY <1>2 DEF FailureOf
  <2> QED
    BY <2>1, CacheAt, FailureTyped
<1> QED
  BY <1>1, <1>2

LEMMA MarkFailedTyped ==
  ASSUME NEW f, f \subseteq Failures, NEW rec \in Failures
  PROVE  MarkFailed(f, rec) \subseteq Failures
  BY DEF MarkFailed

\* A step of the world keeps its bound.
LEMMA ActsTyped == ASSUME NEW control, Acts(control), world \in 0 .. MaxWorld PROVE world' \in 0 .. MaxWorld
  BY CacheAssumption DEF Acts

---------------------------------------------------------------------------
(* Scans, and the steps of a copy.                                         *)

LEMMA InitTyped == Init => TypeInv
<1> SUFFICES ASSUME Init PROVE TypeInv
  OBVIOUS
<1>1. SwitchesOK /\ RecordsOK /\ MarksOK
  BY DEF Init, SwitchesOK, RecordsOK, MarksOK
<1>2. DirsOK
  BY NothingAt DEF Init, DirsOK, StagingDirs, CacheDirs
<1>3. SharedOK
  BY DEF Init, SharedOK, TasksOf, Links, LinksAt
<1>4. OwnedOK
  BY CacheAssumption DEF Init, OwnedOK, Statuses
<1>5. CopyOK /\ FlightsOK
  BY DEF Init, CopyOK, FlightsOK
<1>6. PastOK
  BY CacheAssumption DEF Init, PastOK
<1> QED
  BY <1>1, <1>2, <1>3, <1>4, <1>5, <1>6 DEF TypeInv

LEMMA SkipTyped == ASSUME TypeInv, NEW g \in Groups, Skip(g) PROVE TypeInv'
<1>1. cd2Tasks \in TasksOf
  BY DEF TypeInv, SharedOK
<1>2. cd2Tasks' \in {Task(g, "none"), Task(g, "cached"), Shown(g)}
  BY DEF Skip
<1>3. cd2Tasks' \in TasksOf
  BY <1>1, <1>2, TaskTyped
<1>4. UNCHANGED <<durable, dirs, marks, cd2Cache, cd2Copy, cd2Resume, owned, flights, ghosts, world>>
  BY DEF Skip
<1> QED
  BY <1>3, <1>4 DEF TypeInv, SwitchesOK, RecordsOK, DirsOK, SharedOK, MarksOK, OwnedOK, CopyOK,
     FlightsOK, PastOK, durable, switches, records, dirs, marks, owned, flights, ghosts

\* What is left to show of a step of a copy.
LEMMA CopyStepTyped ==
  ASSUME TypeInv, CopyFrame, pending' \subseteq PendingRecs, staging' \in StagingDirs,
         cache' \in CacheDirs, SharedOK', CopyOK', events' \in Seq(Paths)
  PROVE  TypeInv'
  BY DEF CopyFrame, TypeInv, SwitchesOK, RecordsOK, DirsOK, MarksOK, OwnedOK,
     FlightsOK, PastOK, switches, owned, ghosts

LEMMA LookTyped == ASSUME TypeInv, NEW c \in Copiers, NEW g \in Groups, Look(c, g) PROVE TypeInv'
<1>1. copy' = [copy EXCEPT ![c] = Copying("looked", g, g, Nothing)]
  BY DEF Look
<1>2. Copying("looked", g, g, Nothing) \in Copies
  BY TargetOfGroup, CopyingTyped DEF TypeInv
<1>3. CopyOK'
  BY <1>1, <1>2, CopySet DEF TypeInv
<1>4. cd2Tasks' \in TasksOf
  BY TaskTyped DEF Look, TypeInv, SharedOK
<1>5. pending' \subseteq PendingRecs
  BY DEF Look, Remove, TypeInv, RecordsOK
<1>6. UNCHANGED <<switches, records, dirs, marks, cd2Cache, cd2Copy, cd2Resume, owned,
                  events, jobs, reaping, purging, ghosts, world>>
  BY DEF Look
<1> QED
  BY <1>3, <1>4, <1>5, <1>6 DEF TypeInv, SwitchesOK, RecordsOK, DirsOK, SharedOK, MarksOK,
     OwnedOK, FlightsOK, PastOK, switches, records, dirs, marks, owned, ghosts

LEMMA LockTyped == ASSUME TypeInv, NEW c \in Copiers, Lock(c) PROVE TypeInv'
<1> DEFINE k == Key(c)
<1>1. Busy(c)
  BY StepBusy DEF Lock, Steps
<1>2. k \in Keys /\ From(c) \in Groups /\ TargetOf(k) = Target[From(c)]
  BY <1>1, CopyFacts DEF TypeInv
<1>3. copy' = [copy EXCEPT ![c] = Idle] \/ Goes(c, "locked")
  BY DEF Lock
<1>4. CopyOK'
  BY <1>1, <1>3, CopySet, CopyGoes DEF TypeInv, Steps
<1>5. pending' \in {pending, Put(pending, CopyRecord(k, From(c)))}
  BY DEF Lock
<1>6. pending' \subseteq PendingRecs
  BY <1>2, <1>5, CopyRecordOK, PutTyped DEF TypeInv, RecordsOK
<1>7. cd2Tasks' \in {cd2Tasks, Shown(k)} /\ cd2Copy' \in {cd2Copy, cd2Copy \cup {k}}
  BY DEF Lock
<1>8. cd2Tasks' \in TasksOf /\ cd2Copy' \subseteq Keys
  BY <1>2, <1>7, TaskTyped DEF TypeInv, SharedOK
<1>9. UNCHANGED <<switches, records, dirs, marks, cd2Cache, cd2Resume, owned,
                  events, jobs, reaping, purging, ghosts, world>>
  BY DEF Lock
<1> QED
  BY <1>4, <1>6, <1>8, <1>9 DEF TypeInv, SwitchesOK, RecordsOK, DirsOK, SharedOK, MarksOK,
     OwnedOK, FlightsOK, PastOK, switches, records, dirs, marks, owned, ghosts

LEMMA EndsTyped ==
  ASSUME TypeInv, NEW c \in Copiers, NEW t \in TasksOf, Ends(c, t)
  PROVE  CopyOK' /\ cd2Tasks' \in TasksOf /\ cd2Copy' \subseteq Keys /\ staging' \in StagingDirs
<1>1. CopyOK'
  BY CopyGone DEF Ends, TypeInv
<1>2. cd2Tasks' \in TasksOf /\ cd2Copy' \subseteq Keys
  BY TaskTyped DEF Ends, TypeInv, SharedOK
<1>3. staging' \in StagingDirs
  BY StagingSet DEF Ends, TypeInv, DirsOK
<1> QED
  BY <1>1, <1>2, <1>3

LEMMA PauseResumedTyped == ASSUME TypeInv, NEW c \in Copiers, PauseResumed(c) PROVE TypeInv'
<1>1. Busy(c)
  BY StepBusy DEF PauseResumed, Steps
<1>2. Key(c) \in Keys /\ From(c) \in Groups /\ TargetOf(Key(c)) = Target[From(c)]
  BY <1>1, CopyFacts DEF TypeInv
<1>3. pending' \subseteq PendingRecs
  BY <1>2, CopyRecordOK, PutTyped DEF PauseResumed, TypeInv, RecordsOK
<1>4. CopyOK'
  BY CopyGone DEF PauseResumed, TypeInv
<1>5. cd2Tasks' \in TasksOf /\ cd2Copy' \subseteq Keys
  BY TaskTyped DEF PauseResumed, TypeInv, SharedOK
<1>6. UNCHANGED <<staging, cache, cd2Cache, cd2Resume, events>> /\ CopyFrame
  BY DEF PauseResumed
<1>7. SharedOK'
  BY <1>5, <1>6 DEF TypeInv, SharedOK
<1> QED
  BY <1>3, <1>4, <1>6, <1>7, CopyStepTyped DEF TypeInv, DirsOK, FlightsOK

LEMMA BeginTyped == ASSUME TypeInv, NEW c \in Copiers, Begin(c) PROVE TypeInv'
<1>1. Busy(c)
  BY StepBusy DEF Begin, Steps
<1>2. copy[c] \in Copies /\ Key(c) \in Keys /\ From(c) \in Groups
  BY <1>1, CopyFacts DEF TypeInv
<1>3. UNCHANGED <<pending, cache, cd2Cache, cd2Copy, cd2Resume, events>> /\ CopyFrame
  BY DEF Begin
<1>4. CopyOK' /\ cd2Tasks' \in TasksOf /\ staging' \in StagingDirs
  <2>1. CASE Refused(Key(c)) \/ ~Present(From(c))
    <3>1. Goes(c, "failed") /\ UNCHANGED <<staging, cd2Tasks>>
      BY <2>1 DEF Begin
    <3>2. CopyOK'
      BY <1>1, <3>1, CopyGoes DEF TypeInv, Steps
    <3> QED
      BY <3>1, <3>2 DEF TypeInv, SharedOK, DirsOK
  <2>2. CASE ~(Refused(Key(c)) \/ ~Present(From(c)))
    <3> DEFINE n == source[From(c)]
    <3>1. copy' = [copy EXCEPT ![c] = [copy[c] EXCEPT !.at = "copying", !.size = n]]
      BY <2>2 DEF Begin
    <3>2. n \in Sizes
      BY <1>2, <2>2 DEF TypeInv, DirsOK, Present
    <3>3. CopyOK'
      BY <1>2, <3>1, <3>2, CopySized, CopySet DEF TypeInv
    <3>4. staging' = [staging EXCEPT ![Key(c)] = <<From(c), n, FALSE>>] /\ cd2Tasks' = Shown(Key(c))
      BY <2>2 DEF Begin
    <3>5. <<From(c), n, FALSE>> \in Contents
      BY <1>2, <3>2, ContentsTyped
    <3> QED
      BY <3>3, <3>4, <3>5, TaskTyped, StagingSet DEF TypeInv, SharedOK, DirsOK
  <2> QED
    BY <2>1, <2>2
<1>5. SharedOK'
  BY <1>3, <1>4 DEF TypeInv, SharedOK
<1> QED
  BY <1>3, <1>4, <1>5, CopyStepTyped DEF TypeInv, DirsOK, RecordsOK, FlightsOK

LEMMA CopiedTyped == ASSUME TypeInv, NEW c \in Copiers, Copied(c) PROVE TypeInv'
<1>1. Busy(c)
  BY StepBusy DEF Copied, Steps
<1>2. Key(c) \in Keys /\ From(c) \in Groups /\ copy[c].size \in Sizes
  BY <1>1, CopyFacts DEF TypeInv, Copied
<1>3. Goes(c, "promoting") /\ CopyFrame /\ UNCHANGED <<pending, cache, shared, events>>
      /\ staging' = [staging EXCEPT ![Key(c)] = <<From(c), copy[c].size, TRUE>>]
  BY DEF Copied
<1>4. CopyOK'
  BY <1>1, <1>3, CopyGoes DEF TypeInv, Steps
<1>5. staging' \in StagingDirs
  BY <1>2, <1>3, ContentsTyped, StagingSet DEF TypeInv, DirsOK
<1>6. SharedOK'
  BY <1>3 DEF TypeInv, SharedOK, shared
<1> QED
  BY <1>3, <1>4, <1>5, <1>6, CopyStepTyped DEF TypeInv, DirsOK, RecordsOK, FlightsOK

LEMMA CopyFailsTyped == ASSUME TypeInv, NEW c \in Copiers, CopyFails(c) PROVE TypeInv'
<1>1. Busy(c)
  BY StepBusy DEF CopyFails, Steps
<1>2. Goes(c, "failed")
  BY DEF CopyFails
<1>3. CopyOK'
  BY <1>1, <1>2, CopyGoes DEF TypeInv, Steps
<1>4. world' \in 0 .. MaxWorld
  BY ActsTyped DEF CopyFails, TypeInv, PastOK
<1>5. UNCHANGED <<durable, dirs, marks, shared, owned, events, jobs, reaping, purging, ghosts>>
  BY DEF CopyFails
<1> QED
  BY <1>3, <1>4, <1>5 DEF TypeInv, SwitchesOK, RecordsOK, DirsOK, SharedOK, MarksOK,
     OwnedOK, FlightsOK, PastOK, durable, switches, records, dirs, marks, shared, owned, ghosts

\* What is staged of a key is promoted to the target of the copy's group.
LEMMA PromoteTyped ==
  ASSUME TypeInv, NEW c \in Copiers, At(c, "promoting") \/ At(c, "torn"), NEW b \in BOOLEAN,
         cache' \in {cache, [cache EXCEPT ![Target[From(c)]] =
                                <<From(c), SizeOf(staging[Key(c)]), b>>]},
         cache' = cache \/ staging[Key(c)] # Nothing
  PROVE  cache' \in CacheDirs
<1>1. Busy(c)
  BY StepBusy DEF Steps
<1>2. Key(c) \in Keys /\ From(c) \in Groups
  BY <1>1, CopyFacts DEF TypeInv
<1>3. CASE cache' = cache
  BY <1>3 DEF TypeInv, DirsOK
<1>4. CASE cache' = [cache EXCEPT ![Target[From(c)]] = <<From(c), SizeOf(staging[Key(c)]), b>>]
           /\ staging[Key(c)] # Nothing
  <2>1. SizeOf(staging[Key(c)]) \in Sizes
    BY <1>2, <1>4, ContentsFacts DEF TypeInv, DirsOK, StagingDirs
  <2>2. <<From(c), SizeOf(staging[Key(c)]), b>> \in ContentsAt(Target[From(c)])
    BY <1>2, <2>1, ContentsTyped
  <2> QED
    BY <1>2, <1>4, <2>2, TargetOfGroup, CacheSet DEF TypeInv, DirsOK
<1> QED
  BY <1>3, <1>4

LEMMA PromoteFirstTyped == ASSUME TypeInv, NEW c \in Copiers, PromoteFirst(c) PROVE TypeInv'
<1>1. At(c, "promoting") /\ CopyFrame /\ UNCHANGED <<pending, staging, shared, events>>
  BY DEF PromoteFirst
<1>2. cache' \in CacheDirs
  BY <1>1, PromoteTyped DEF PromoteFirst
<1>3. Goes(c, "torn") \/ Goes(c, "promoted") \/ Goes(c, "failed")
  BY DEF PromoteFirst
<1>4. CopyOK'
  BY <1>1, <1>3, StepBusy, CopyGoes DEF TypeInv, Steps
<1>5. SharedOK'
  BY <1>1 DEF TypeInv, SharedOK, shared
<1> QED
  BY <1>1, <1>2, <1>4, <1>5, CopyStepTyped DEF TypeInv, DirsOK, RecordsOK, FlightsOK

LEMMA PromoteLastTyped == ASSUME TypeInv, NEW c \in Copiers, PromoteLast(c) PROVE TypeInv'
<1>1. At(c, "torn") /\ CopyFrame /\ UNCHANGED <<pending, shared, events>>
  BY DEF PromoteLast
<1>2. cache' \in CacheDirs /\ staging' \in StagingDirs
  <2>1. CASE staging[Key(c)] # Nothing
    <3>1. /\ cache' = [cache EXCEPT ![Target[From(c)]] = <<From(c), SizeOf(staging[Key(c)]),
                                                           Whole(staging[Key(c)])>>]
          /\ staging' = [staging EXCEPT ![Key(c)] = Nothing]
      BY <2>1 DEF PromoteLast
    <3>2. Key(c) \in Keys
      BY <1>1, StepBusy, CopyFacts DEF TypeInv, Steps
    <3>3. Whole(staging[Key(c)]) \in BOOLEAN
      BY <2>1, <3>2, ContentsFacts DEF TypeInv, DirsOK, StagingDirs
    <3> QED
      BY <1>1, <2>1, <3>1, <3>3, PromoteTyped, StagingSet DEF TypeInv, DirsOK
  <2>2. CASE staging[Key(c)] = Nothing
    BY <2>2 DEF PromoteLast, TypeInv, DirsOK
  <2> QED
    BY <2>1, <2>2
<1>3. Goes(c, "promoted") \/ Goes(c, "failed")
  BY DEF PromoteLast
<1>4. CopyOK'
  BY <1>1, <1>3, StepBusy, CopyGoes DEF TypeInv, Steps
<1>5. SharedOK'
  BY <1>1 DEF TypeInv, SharedOK, shared
<1> QED
  BY <1>1, <1>2, <1>4, <1>5, CopyStepTyped DEF TypeInv, RecordsOK, FlightsOK

LEMMA RecordTyped == ASSUME TypeInv, NEW c \in Copiers, Record(c) PROVE TypeInv'
<1> DEFINE g == From(c)
           p == Target[g]
           rec == [key |-> <<"cached", p>>, group |-> g, cached |-> TRUE, size |-> source[g]]
<1>1. Busy(c)
  BY StepBusy DEF Record, Steps
<1>2. g \in Groups /\ p \in Paths /\ source[g] \in Sizes \cup {NoSize}
  BY <1>1, CopyFacts, TargetOfGroup DEF TypeInv, DirsOK
<1>3. /\ Goes(c, "recorded") /\ CopyFrame
      /\ cd2Cache' = [cd2Cache EXCEPT ![p] = g] /\ pending' = Put(pending, rec)
      /\ cd2Tasks' = Task(Key(c), "cached")
      /\ UNCHANGED <<staging, cache, cd2Copy, cd2Resume, events>>
  BY DEF Record
<1>4. CopyOK'
  BY <1>1, <1>3, CopyGoes DEF TypeInv, Steps
<1>5. pending' \subseteq PendingRecs
  BY <1>2, <1>3, CachedRecordOK, PutTyped DEF TypeInv, RecordsOK
<1>6. g \in LinksAt(p)
  BY <1>2 DEF LinksAt
<1>7. cd2Cache' \in Links
  BY <1>2, <1>3, <1>6, LinkSet DEF TypeInv, SharedOK
<1>8. cd2Tasks' \in TasksOf
  BY <1>3, TaskTyped DEF TypeInv, SharedOK
<1>9. SharedOK'
  BY <1>3, <1>7, <1>8 DEF TypeInv, SharedOK
<1> QED
  BY <1>3, <1>4, <1>5, <1>9, CopyStepTyped DEF TypeInv, DirsOK, FlightsOK

LEMMA InjectTyped == ASSUME TypeInv, NEW c \in Copiers, Inject(c) PROVE TypeInv'
<1>1. Busy(c)
  BY StepBusy DEF Inject, Steps
<1>2. Target[From(c)] \in Paths
  BY <1>1, CopyFacts, TargetOfGroup DEF TypeInv
<1>3. /\ Goes(c, "injected") /\ CopyFrame
      /\ cd2Resume' = cd2Resume \cup {Target[From(c)]} /\ events' = Append(events, Target[From(c)])
      /\ UNCHANGED <<pending, staging, cache, cd2Cache, cd2Copy, cd2Tasks>>
  BY DEF Inject
<1>4. CopyOK'
  BY <1>1, <1>3, CopyGoes DEF TypeInv, Steps
<1>5. events' \in Seq(Paths)
  BY <1>2, <1>3 DEF TypeInv, FlightsOK
<1>6. SharedOK'
  BY <1>2, <1>3 DEF TypeInv, SharedOK
<1> QED
  BY <1>3, <1>4, <1>5, <1>6, CopyStepTyped DEF TypeInv, DirsOK, RecordsOK

LEMMA FinishTyped == ASSUME TypeInv, NEW c \in Copiers, Finish(c) PROVE TypeInv'
<1>1. Ends(c, cd2Tasks) /\ CopyFrame /\ UNCHANGED <<cache, cd2Cache, cd2Resume, events>>
  BY DEF Finish
<1>2. CopyOK' /\ cd2Tasks' \in TasksOf /\ cd2Copy' \subseteq Keys /\ staging' \in StagingDirs
  BY <1>1, EndsTyped DEF TypeInv, SharedOK
<1>3. pending' \subseteq PendingRecs
  BY DEF Finish, Remove, TypeInv, RecordsOK
<1>4. SharedOK'
  BY <1>1, <1>2 DEF TypeInv, SharedOK
<1> QED
  BY <1>1, <1>2, <1>3, <1>4, CopyStepTyped DEF TypeInv, DirsOK, FlightsOK

LEMMA FailsTyped == ASSUME TypeInv, NEW c \in Copiers, Fails(c) PROVE TypeInv'
<1>1. Busy(c)
  BY StepBusy DEF Fails, Steps
<1>2. Key(c) \in Keys /\ From(c) \in Groups /\ TargetOf(Key(c)) = Target[From(c)]
  BY <1>1, CopyFacts DEF TypeInv
<1>3. PICK t \in {cd2Tasks, Shown(Key(c))} : Ends(c, t)
  BY DEF Fails
<1>4. CopyFrame /\ UNCHANGED <<cache, cd2Cache, cd2Resume, events>>
  BY DEF Fails
<1>5. t \in TasksOf
  BY <1>3, TaskTyped DEF TypeInv, SharedOK
<1>6. CopyOK' /\ cd2Tasks' \in TasksOf /\ cd2Copy' \subseteq Keys /\ staging' \in StagingDirs
  BY <1>3, <1>5, EndsTyped
<1>7. pending' \in {pending, Put(pending, CopyRecord(Key(c), From(c)))}
  BY DEF Fails
<1>8. pending' \subseteq PendingRecs
  BY <1>2, <1>7, CopyRecordOK, PutTyped DEF TypeInv, RecordsOK
<1>9. SharedOK'
  BY <1>4, <1>6 DEF TypeInv, SharedOK
<1> QED
  BY <1>4, <1>6, <1>8, <1>9, CopyStepTyped DEF TypeInv, DirsOK, FlightsOK

LEMMA CopyTyped == ASSUME TypeInv, NEW c \in Copiers, CopyStep(c) PROVE TypeInv'
  BY LockTyped, PauseResumedTyped, BeginTyped, CopiedTyped, CopyFailsTyped, PromoteFirstTyped,
     PromoteLastTyped, RecordTyped, InjectTyped, FinishTyped, FailsTyped DEF CopyStep

---------------------------------------------------------------------------
(* The resumer.                                                            *)

LEMMA ResumeTyped == ASSUME TypeInv, Resume PROVE TypeInv'
<1>1. ASSUME NEW r \in pending, ResumeCached(r) PROVE TypeInv'
  <2> DEFINE p == Key2(r)
  <2>1. r.cached /\ r \in PendingRecs
    BY <1>1 DEF ResumeCached, CachedThere, TypeInv, RecordsOK
  <2>2. p \in Paths /\ r.group \in Groups /\ Target[r.group] = p
    BY <2>1, PendingFacts
  <2>3. r.group \in LinksAt(p)
    BY <2>2 DEF LinksAt
  <2>4. cd2Cache' \in Links /\ cd2Resume' \subseteq Paths
    BY <1>1, <2>2, <2>3, LinkSet DEF ResumeCached, TypeInv, SharedOK
  <2>5. events' \in Seq(Paths)
    BY <1>1, <2>2 DEF ResumeCached, TypeInv, FlightsOK
  <2>6. UNCHANGED <<durable, dirs, marks, cd2Copy, cd2Tasks, owned, copy, jobs, reaping,
                    purging, ghosts, world>>
    BY <1>1 DEF ResumeCached
  <2> QED
    BY <2>4, <2>5, <2>6 DEF TypeInv, SwitchesOK, RecordsOK, DirsOK, SharedOK, MarksOK,
       OwnedOK, CopyOK, FlightsOK, PastOK, durable, switches, records, dirs, marks, owned, ghosts
<1>2. ASSUME NEW r \in pending, NEW c \in Copiers, ResumeCopy(r, c) PROVE TypeInv'
  <2>1. r \in PendingRecs
    BY DEF TypeInv, RecordsOK
  <2>2. /\ Key2(r) \in Keys /\ r.group \in Groups /\ TargetOf(Key2(r)) = Target[r.group]
        /\ r.key \in PendingKeys
    BY <2>1, PendingFacts
  <2>3. Copying("locked", Key2(r), r.group, r.key) \in Copies
    BY <2>2, CopyingTyped DEF TypeInv
  <2>4. CopyOK' /\ cd2Copy' \subseteq Keys
    BY <1>2, <2>2, <2>3, CopySet DEF ResumeCopy, TypeInv, SharedOK
  <2>5. UNCHANGED <<durable, dirs, marks, cd2Cache, cd2Resume, cd2Tasks, owned, events, jobs,
                    reaping, purging, ghosts, world>>
    BY <1>2 DEF ResumeCopy
  <2> QED
    BY <2>4, <2>5 DEF TypeInv, SwitchesOK, RecordsOK, DirsOK, SharedOK, MarksOK,
       OwnedOK, FlightsOK, PastOK, durable, switches, records, dirs, marks, owned, ghosts
<1> QED
  BY <1>1, <1>2 DEF Resume

---------------------------------------------------------------------------
(* The main loop and the jobs.                                             *)

\* What is left to show of a step of the main loop.
LEMMA LoopStepTyped ==
  ASSUME TypeInv, LoopFrame, processed' \subseteq Identities, failed' \subseteq Failures,
         pending' \subseteq PendingRecs, UNCHANGED <<cache, cleaning, deleted>>,
         SharedOK', OwnedOK', FlightsOK', extracted' \subseteq Groups \X Sizes
  PROVE  TypeInv'
  BY DEF LoopFrame, TypeInv, SwitchesOK, RecordsOK, DirsOK, MarksOK, CopyOK, PastOK, switches

LEMMA BecomesTyped ==
  ASSUME OwnedOK, NEW p \in Paths, NEW status \in Statuses, Becomes(p, status), UNCHANGED retries
  PROVE  OwnedOK'
  BY DEF OwnedOK, Becomes

LEMMA JobFacts ==
  ASSUME FlightsOK, NEW j \in Jobs, jobs[j] # Nothing
  PROVE  /\ jobs[j] \in JobsAt(jobs[j].path) /\ jobs[j].path \in Paths
         /\ jobs[j].got \in ContentsAt(jobs[j].path) /\ jobs[j].started \in BOOLEAN
<1>1. jobs[j] \in JobRecs
  BY DEF FlightsOK
<1>2. PICK p \in Paths : jobs[j] \in JobsAt(p)
  BY <1>1 DEF JobRecs
<1> QED
  BY <1>2 DEF JobsAt

LEMMA JobSet ==
  ASSUME jobs \in [Jobs -> {Nothing} \cup JobRecs], NEW j \in Jobs, NEW p \in Paths,
         NEW x \in {Nothing} \cup JobsAt(p), jobs' = [jobs EXCEPT ![j] = x]
  PROVE  jobs' \in [Jobs -> {Nothing} \cup JobRecs]
<1>1. x \in {Nothing} \cup JobRecs
  BY DEF JobRecs
<1> QED
  BY <1>1

LEMMA ProcessEventTyped == ASSUME TypeInv, ProcessEvent PROVE TypeInv'
<1> DEFINE p == Head(events)
<1>1. p \in Paths /\ events' \in Seq(Paths)
  BY DEF ProcessEvent, TypeInv, FlightsOK
<1>2. PICK x \in {"WAITING", "ABSENT", tracked[p]} : tracked' = [tracked EXCEPT ![p] = x]
  BY DEF ProcessEvent
<1>3. PICK n \in {0, retries[p]} : retries' = [retries EXCEPT ![p] = n]
  BY DEF ProcessEvent
<1>4. UNCHANGED <<processed, failed, pending, cache, cleaning, shared, map, jobs, reaping,
                  purging, ghosts>> /\ LoopFrame
  BY DEF ProcessEvent
<1>5. OwnedOK'
  <2>1. tracked[p] \in Statuses /\ retries[p] \in 0 .. MaxRetries
    BY <1>1 DEF TypeInv, OwnedOK
  <2>2. "WAITING" \in Statuses /\ "ABSENT" \in Statuses
    BY DEF Statuses
  <2>3. 0 \in 0 .. MaxRetries
    BY CacheAssumption
  <2>4. x \in Statuses /\ n \in 0 .. MaxRetries
    BY <2>1, <2>2, <2>3
  <2> QED
    BY <1>1, <1>2, <1>3, <1>4, <2>4 DEF TypeInv, OwnedOK
<1>6. SharedOK' /\ FlightsOK'
  BY <1>1, <1>4 DEF TypeInv, SharedOK, FlightsOK, shared
<1> QED
  BY <1>4, <1>5, <1>6, LoopStepTyped DEF TypeInv, RecordsOK, PastOK, ghosts

LEMMA ExtractTrackedTyped ==
  ASSUME TypeInv, NEW p \in Paths, NEW j \in Jobs, ExtractTracked(p, j)
  PROVE  TypeInv'
<1> DEFINE x == [path |-> p, got |-> Nothing, started |-> FALSE]
<1>1. /\ tracked' = [tracked EXCEPT ![p] = "QUEUED"] /\ map' = [map EXCEPT ![p] = "QUEUED"]
      /\ jobs' = [jobs EXCEPT ![j] = x]
      /\ UNCHANGED <<processed, failed, pending, cache, cleaning, shared, retries, events,
                     reaping, purging, ghosts>> /\ LoopFrame
  BY DEF ExtractTracked
<1>2. OwnedOK'
  BY <1>1 DEF TypeInv, OwnedOK, Statuses
<1>3. x \in JobsAt(p)
  BY NothingAt DEF JobsAt
<1>4. FlightsOK'
  BY <1>1, <1>3, JobSet DEF TypeInv, FlightsOK
<1>5. SharedOK'
  BY <1>1 DEF TypeInv, SharedOK, shared
<1> QED
  BY <1>1, <1>2, <1>4, <1>5, LoopStepTyped DEF TypeInv, RecordsOK, PastOK, ghosts

LEMMA JobStartsTyped == ASSUME TypeInv, NEW j \in Jobs, JobStarts(j) PROVE TypeInv'
<1> DEFINE p == jobs[j].path
           x == [jobs[j] EXCEPT !.got = cache[p], !.started = TRUE]
<1>1. jobs[j] # Nothing /\ jobs' = [jobs EXCEPT ![j] = x]
      /\ UNCHANGED <<processed, failed, pending, cache, cleaning, shared, retries, events,
                     reaping, purging, ghosts>> /\ LoopFrame
  BY DEF JobStarts
<1>2. jobs[j] \in JobsAt(p) /\ p \in Paths
  BY <1>1, JobFacts DEF TypeInv
<1>3. x \in JobsAt(p)
  BY <1>2, CacheAt DEF JobsAt, TypeInv
<1>4. FlightsOK'
  BY <1>1, <1>2, <1>3, JobSet DEF TypeInv, FlightsOK
<1>5. UNCHANGED <<map, tracked>> \/ Becomes(p, "ABSENT") \/ Becomes(p, "EXTRACTING")
  BY DEF JobStarts, Becomes
<1>6. OwnedOK'
  <2>1. CASE UNCHANGED <<map, tracked>>
    BY <1>1, <2>1 DEF TypeInv, OwnedOK
  <2>2. CASE Becomes(p, "ABSENT") \/ Becomes(p, "EXTRACTING")
    BY <1>1, <1>2, <2>2, BecomesTyped DEF TypeInv, Statuses
  <2> QED
    BY <1>5, <2>1, <2>2
<1>7. SharedOK'
  BY <1>1 DEF TypeInv, SharedOK, shared
<1> QED
  BY <1>1, <1>4, <1>6, <1>7, LoopStepTyped DEF TypeInv, RecordsOK, PastOK, ghosts

\* The job is gone, and the path becomes what the answer says.
LEMMA AnsweredTyped ==
  ASSUME TypeInv, NEW j \in Jobs, Answered(j), NEW status \in Statuses,
         Becomes(jobs[j].path, status), reaping' \subseteq Calls \cup Deletions
  PROVE  OwnedOK' /\ FlightsOK' /\ jobs[j].path \in Paths
<1>1. /\ jobs[j] # Nothing /\ jobs' = [jobs EXCEPT ![j] = Nothing]
      /\ UNCHANGED <<cache, cleaning, retries, events, purging, deleted>>
  BY DEF Answered
<1>2. jobs[j].path \in Paths
  BY <1>1, JobFacts DEF TypeInv
<1>3. FlightsOK'
  BY <1>1 DEF TypeInv, FlightsOK
<1> QED
  BY <1>1, <1>2, <1>3, BecomesTyped DEF TypeInv

LEMMA JobEndsTyped ==
  ASSUME TypeInv, NEW j \in Jobs, JobDropped(j) \/ JobFindsNothing(j) \/ JobFails(j)
  PROVE  TypeInv'
<1> DEFINE p == jobs[j].path
<1>1. Answered(j) /\ UNCHANGED <<processed, pending, shared, reaping, extracted>>
  BY DEF JobDropped, JobFindsNothing, JobFails
<1>2. PICK status \in {"ABSENT", "EXTRACTEDNOTHING", "EXTRACTFAILED"} : Becomes(p, status)
  BY DEF JobDropped, JobFindsNothing, JobFails
<1>3. OwnedOK' /\ FlightsOK' /\ p \in Paths
  BY <1>1, <1>2, AnsweredTyped DEF TypeInv, FlightsOK, Statuses
<1>4. failed' = failed \/ failed' = MarkFailed(failed, FailureOf(p, "extract"))
  BY DEF JobDropped, JobFindsNothing, JobFails
<1>5. FailureOf(p, "extract") \in Failures
  BY <1>3, FailureOfTyped DEF TypeInv
<1>6. failed' \subseteq Failures
  BY <1>4, <1>5, MarkFailedTyped DEF TypeInv, RecordsOK
<1>7. SharedOK'
  BY <1>1 DEF TypeInv, SharedOK, shared
<1> QED
  BY <1>1, <1>3, <1>6, <1>7, LoopStepTyped DEF TypeInv, RecordsOK, PastOK, Answered

LEMMA MarkProcessedTyped ==
  ASSUME RecordsOK, NEW id \in Identities, MarkProcessed(id)
  PROVE  processed' \subseteq Identities /\ failed' \subseteq Failures
  BY DEF RecordsOK, MarkProcessed, ClearFailed

LEMMA TaskDoneTyped == ASSUME NEW p, cd2Tasks \in TasksOf, TaskDone(p) PROVE cd2Tasks' \in TasksOf
  BY TaskTyped DEF TaskDone

LEMMA SuccessTyped ==
  ASSUME TypeInv, NEW p \in Paths, cd2Cache[p] # NoGroup, NEW id \in SuccessOf(p)
  PROVE  id \in Identities /\ id[1] = p
<1>1. cd2Cache[p] \in Groups /\ Target[cd2Cache[p]] = p
  BY LinkAt DEF TypeInv, SharedOK
<1>2. CASE id = Version(cd2Cache[p])
  BY <1>1, <1>2, VersionTyped DEF TypeInv
<1>3. CASE \E r \in PendingFor(p) : id = <<p, r.size>>
  <2>1. PICK r \in PendingFor(p) : id = <<p, r.size>>
    BY <1>3
  <2>2. r.size \in Sizes \cup {NoSize}
    BY PendingForFacts DEF TypeInv
  <2> QED
    BY <2>1, <2>2 DEF Identities
<1> QED
  BY <1>2, <1>3 DEF SuccessOf

LEMMA JobSucceedsTyped == ASSUME TypeInv, NEW j \in Jobs, JobSucceeds(j) PROVE TypeInv'
<1> DEFINE p == jobs[j].path
           got == jobs[j].got
           call == [at |-> "called", path |-> p, id |-> Nothing, group |-> cd2Cache[p]]
<1>1. /\ Answered(j) /\ got # Nothing /\ Becomes(p, "EXTRACTED")
      /\ extracted' = extracted \cup {<<Group(got), SizeOf(got)>>}
      /\ UNCHANGED <<cd2Cache, cd2Copy>>
  BY DEF JobSucceeds
<1>2. p \in Paths /\ got \in ContentsAt(p)
  BY <1>1, JobFacts DEF TypeInv, Answered
<1>3. extracted' \subseteq Groups \X Sizes
  BY <1>1, <1>2, ContentsFacts DEF ContentsAt, TypeInv, PastOK
<1>4. /\ processed' \subseteq Identities /\ failed' \subseteq Failures /\ pending' \subseteq PendingRecs
      /\ cd2Resume' \subseteq Paths /\ cd2Tasks' \in TasksOf /\ reaping' \subseteq Calls \cup Deletions
  <2>1. CASE cd2Cache[p] # NoGroup
    <3>1. UNCHANGED <<processed, failed>> \/ \E id \in SuccessOf(p) : MarkProcessed(id)
      BY <2>1 DEF JobSucceeds
    <3>2. processed' \subseteq Identities /\ failed' \subseteq Failures
      BY <1>2, <2>1, <3>1, SuccessTyped, MarkProcessedTyped DEF TypeInv, RecordsOK
    <3>3. /\ pending' = Remove(pending, <<"cached", p>>) /\ cd2Resume' = cd2Resume \ {p} /\ TaskDone(p)
          /\ reaping' = reaping \cup {call}
      BY <2>1 DEF JobSucceeds
    <3>4. cd2Cache[p] \in Groups /\ Target[cd2Cache[p]] = p
      BY <1>2, <2>1, LinkAt DEF TypeInv, SharedOK
    <3>5. call \in Calls
      BY <1>2, <3>4 DEF Calls
    <3> QED
      BY <3>2, <3>3, <3>5, TaskDoneTyped DEF Remove, TypeInv, RecordsOK, SharedOK, FlightsOK
  <2>2. CASE cd2Cache[p] = NoGroup
    <3>1. UNCHANGED <<processed, failed>> \/ MarkProcessed(<<p, SizeOf(cache[p])>>)
      BY <2>2 DEF JobSucceeds
    <3>2. <<p, SizeOf(cache[p])>> \in Identities
      BY <1>2, CacheAt DEF Identities, TypeInv
    <3>3. processed' \subseteq Identities /\ failed' \subseteq Failures
      BY <3>1, <3>2, MarkProcessedTyped DEF TypeInv, RecordsOK
    <3>4. UNCHANGED <<pending, cd2Resume, cd2Tasks, reaping>>
      BY <2>2 DEF JobSucceeds
    <3> QED
      BY <3>3, <3>4 DEF TypeInv, RecordsOK, SharedOK, FlightsOK
  <2> QED
    BY <2>1, <2>2
<1>5. OwnedOK' /\ FlightsOK'
  BY <1>1, <1>4, AnsweredTyped DEF Statuses
<1>6. SharedOK'
  BY <1>1, <1>4 DEF TypeInv, SharedOK
<1> QED
  BY <1>1, <1>3, <1>4, <1>5, <1>6, LoopStepTyped DEF Answered

LEMMA CheckFailedTyped == ASSUME TypeInv, NEW p \in Paths, CheckFailed(p) PROVE TypeInv'
<1>1. UNCHANGED <<processed, failed, pending, cache, cleaning, shared, events, jobs, reaping,
                  purging, ghosts>> /\ LoopFrame
  BY DEF CheckFailed
<1>2. OwnedOK'
  <2>1. CASE Becomes(p, "ABSENT") /\ UNCHANGED retries
    BY <2>1, BecomesTyped DEF TypeInv, Statuses
  <2>2. CASE /\ retries[p] < MaxRetries /\ tracked' = [tracked EXCEPT ![p] = "WAITING"]
             /\ retries' = [retries EXCEPT ![p] = @ + 1] /\ UNCHANGED map
    <3>1. retries[p] + 1 \in 0 .. MaxRetries
      BY <2>2, CacheAssumption DEF TypeInv, OwnedOK
    <3> QED
      BY <2>2, <3>1 DEF TypeInv, OwnedOK, Statuses
  <2> QED
    BY <2>1, <2>2 DEF CheckFailed
<1>3. SharedOK' /\ FlightsOK'
  BY <1>1 DEF TypeInv, SharedOK, FlightsOK, shared
<1> QED
  BY <1>1, <1>2, <1>3, LoopStepTyped DEF TypeInv, RecordsOK, PastOK, ghosts

LEMMA CleanFolderTyped == ASSUME TypeInv, NEW p \in Paths, CleanFolder(p) PROVE TypeInv'
<1>1. /\ map' = [map EXCEPT ![p] = "DELETED"] /\ tracked' = [tracked EXCEPT ![p] = "ABSENT"]
      /\ purging' \in {purging, purging \cup {<<p, SizeOf(cache[p])>>}}
      /\ UNCHANGED <<processed, failed, pending, cache, cleaning, shared, retries, events, jobs,
                     reaping, ghosts>> /\ LoopFrame
  BY DEF CleanFolder
<1>2. OwnedOK'
  BY <1>1 DEF TypeInv, OwnedOK, Statuses
<1>3. SizeOf(cache[p]) \in Sizes \cup {NoSize}
  BY CacheAt DEF TypeInv
<1>4. SharedOK' /\ FlightsOK'
  BY <1>1, <1>3 DEF TypeInv, SharedOK, FlightsOK, shared
<1> QED
  BY <1>1, <1>2, <1>4, LoopStepTyped DEF TypeInv, RecordsOK, PastOK, ghosts

LEMMA LoopTyped == ASSUME TypeInv, Loop PROVE TypeInv'
  BY ProcessEventTyped, CheckFailedTyped, CleanFolderTyped, ExtractTrackedTyped, JobStartsTyped,
     JobEndsTyped, JobSucceedsTyped DEF Loop

LEMMA PurgeTyped == ASSUME TypeInv, NEW x \in purging, Purge(x) PROVE TypeInv'
<1>1. x[1] \in Paths
  BY DEF TypeInv, FlightsOK
<1>2. /\ purging' = purging \ {x} /\ cache' = [cache EXCEPT ![x[1]] = Nothing]
      /\ UNCHANGED <<durable, source, staging, marks, shared, owned, copy, events,
                     jobs, reaping, ghosts, world>>
  BY DEF Purge
<1>3. cache' \in CacheDirs
  BY <1>1, <1>2, NothingAt, CacheSet DEF TypeInv, DirsOK
<1> QED
  BY <1>2, <1>3 DEF TypeInv, SwitchesOK, RecordsOK, DirsOK, SharedOK, MarksOK,
     OwnedOK, CopyOK, FlightsOK, PastOK, durable, switches, records, marks, shared, owned, ghosts

---------------------------------------------------------------------------
(* The deletion of sources.                                                *)

LEMMA CallFacts ==
  ASSUME FlightsOK, NEW r \in reaping
  PROVE  /\ r.path \in Paths /\ r.group \in Groups
         /\ r.at = "called" => Target[r.group] = r.path
         /\ r.at = "deleting" => r.id \in Identities
  BY DEF FlightsOK, Calls, Deletions

\* The entry of the path, if there is one, is of a group it is the target of.
LEMMA SourcesTyped ==
  ASSUME TypeInv, NEW r \in reaping, r.at = "called"
  PROVE  Sources(r) \in Groups /\ Target[Sources(r)] = r.path
  BY CallFacts, LinkAt DEF TypeInv, SharedOK, Sources

LEMMA TakeSourceTyped == ASSUME TypeInv, NEW r \in reaping, TakeSource(r) PROVE TypeInv'
<1>1. r.at = "called" /\ cd2Cache' = [cd2Cache EXCEPT ![r.path] = NoGroup]
      /\ UNCHANGED <<failed, source, deleted>> /\ ReapFrame
  BY DEF TakeSource
<1>2. r.path \in Paths /\ NoGroup \in LinksAt(r.path)
  BY CallFacts DEF TypeInv, LinksAt
<1>3. cd2Cache' \in Links
  BY <1>1, <1>2, LinkSet DEF TypeInv, SharedOK
<1>4. Sources(r) \in Groups
  BY <1>1, SourcesTyped
<1>5. cleaning' \subseteq Identities /\ reaping' \subseteq Calls \cup Deletions
  <2>1. CASE reaping' = reaping \ {r} /\ UNCHANGED cleaning
    BY <2>1 DEF TypeInv, MarksOK, FlightsOK
  <2>2. ASSUME NEW id \in CleanupIds(r), cleaning' = cleaning \cup {id},
               reaping' = (reaping \ {r}) \cup
                   {[at |-> "deleting", path |-> r.path, id |-> id, group |-> Sources(r)]}
        PROVE  cleaning' \subseteq Identities /\ reaping' \subseteq Calls \cup Deletions
    <3>1. id \in Identities
      BY <1>4, VersionTyped DEF CleanupIds, TypeInv, RecordsOK
    <3>2. [at |-> "deleting", path |-> r.path, id |-> id, group |-> Sources(r)] \in Deletions
      BY <1>2, <1>4, <3>1 DEF Deletions
    <3> QED
      BY <2>2, <3>1, <3>2 DEF TypeInv, MarksOK, FlightsOK
  <2> QED
    BY <2>1, <2>2 DEF TakeSource
<1> QED
  BY <1>1, <1>3, <1>5 DEF ReapFrame, TypeInv, SwitchesOK, RecordsOK, DirsOK, SharedOK, MarksOK,
     OwnedOK, CopyOK, FlightsOK, PastOK, switches, owned

LEMMA ClearFailedTyped == ASSUME NEW f, f \subseteq Failures, NEW id PROVE ClearFailed(f, id) \subseteq Failures
  BY DEF ClearFailed

LEMMA DeletesSourceTyped == ASSUME TypeInv, NEW r \in reaping, DeletesSource(r) PROVE TypeInv'
<1> DEFINE g == r.group
<1>1. /\ reaping' = reaping \ {r} /\ cleaning' = cleaning \ {r.id}
      /\ source' = [source EXCEPT ![g] = NoSize] /\ failed' = ClearFailed(failed, r.id)
      /\ deleted' = IF Present(g) THEN deleted \cup {<<g, source[g]>>} ELSE deleted
      /\ UNCHANGED cd2Cache /\ ReapFrame
  BY DEF DeletesSource
<1>2. g \in Groups
  BY CallFacts DEF TypeInv
<1>3. source' \in [Groups -> Sizes \cup {NoSize}]
  BY <1>1 DEF TypeInv, DirsOK
<1>4. deleted' \subseteq Groups \X Sizes
  BY <1>1, <1>2 DEF TypeInv, DirsOK, PastOK, Present
<1>5. failed' \subseteq Failures
  BY <1>1, ClearFailedTyped DEF TypeInv, RecordsOK
<1> QED
  BY <1>1, <1>3, <1>4, <1>5 DEF ReapFrame, TypeInv, SwitchesOK, RecordsOK, DirsOK, SharedOK, MarksOK,
     OwnedOK, CopyOK, FlightsOK, PastOK, switches, owned

LEMMA CannotDeleteTyped == ASSUME TypeInv, NEW r \in reaping, CannotDelete(r) PROVE TypeInv'
<1> DEFINE rec == [id |-> r.id, stage |-> "cleanup", group |-> r.group, cached |-> FALSE]
<1>1. /\ r.at = "deleting" /\ Acts("fault") /\ reaping' = reaping \ {r}
      /\ cleaning' = cleaning \ {r.id} /\ failed' = MarkFailed(failed, rec)
      /\ UNCHANGED <<switches, processed, ignored, pending, dirs, cancelled, shared, owned, copy,
                     events, jobs, purging, ghosts>>
  BY DEF CannotDelete
<1>2. r.id \in Identities /\ r.group \in Groups
  BY <1>1, CallFacts DEF TypeInv
<1>3. rec \in Failures
  BY <1>2 DEF Failures
<1>4. failed' \subseteq Failures /\ world' \in 0 .. MaxWorld
  BY <1>1, <1>3, MarkFailedTyped, ActsTyped DEF TypeInv, RecordsOK, PastOK
<1> QED
  BY <1>1, <1>4 DEF TypeInv, SwitchesOK, RecordsOK, DirsOK, SharedOK, MarksOK,
     OwnedOK, CopyOK, FlightsOK, PastOK, switches, dirs, shared, owned, ghosts

---------------------------------------------------------------------------
(* The user.                                                               *)

LEMMA StopClearTyped == ASSUME TypeInv, StopClear PROVE TypeInv'
<1>1. world' \in 0 .. MaxWorld
  BY ActsTyped DEF StopClear, TypeInv, PastOK
<1>2. CopyOK'
  <2> SUFFICES ASSUME NEW c \in Copiers PROVE copy'[c] \in {Idle} \cup Copies
    BY DEF StopClear, CopyOK
  <2> DEFINE x == Stopped(Keys)[c]
  <2>1. CASE Busy(c) /\ ~At(c, "looked")
    <3>1. copy'[c] = [x EXCEPT !.owns = FALSE]
      BY <2>1 DEF StopClear
    <3>2. x \in Copies
      <4>1. x \in {Idle} \cup Copies
        BY StoppedTyped DEF TypeInv
      <4>2. x # Idle
        BY <2>1, CopyFacts DEF Stopped, TypeInv, Busy, Idle
      <4> QED
        BY <4>1, <4>2
    <3> HIDE DEF x
    <3> QED
      BY <3>1, <3>2, CopyLoosed
  <2>2. CASE ~(Busy(c) /\ ~At(c, "looked"))
    BY <2>2 DEF StopClear, TypeInv, CopyOK
  <2> QED
    BY <2>1, <2>2
<1>3. cancelled' \subseteq Keys
  BY DEF StopClear, TypeInv, MarksOK, Keys
<1>4. pending' \subseteq PendingRecs
  BY DEF StopClear, TypeInv, RecordsOK
<1>5. cache' \in CacheDirs
  <2>1. PICK S \in SUBSET Paths : cache' = [p \in Paths |-> IF p \in S THEN Nothing ELSE cache[p]]
    <3> DEFINE kept == {r \in pending : r.cached /\ Extracting(Key2(r))}
               S == {p \in Paths : \E r \in pending \ kept : r.cached /\ Key2(r) = p}
    <3>1. cache' = [p \in Paths |-> IF p \in S THEN Nothing ELSE cache[p]]
      BY DEF StopClear
    <3> HIDE DEF kept
    <3> QED
      BY <3>1
  <2> QED
    BY <2>1, NothingAt DEF TypeInv, DirsOK, CacheDirs
<1>6. SwitchesOK' /\ staging' \in StagingDirs /\ cd2Copy' \subseteq Keys /\ cd2Tasks' \in TasksOf
  BY DEF StopClear, SwitchesOK, StagingDirs, TypeInv, SharedOK, TasksOf
<1>7. OwnedOK'
  <2>1. UNCHANGED retries
    BY DEF StopClear
  <2>2. /\ map' = [p \in Paths |-> IF map[p] # "ABSENT" /\ ~Extracting(p) THEN "ABSENT" ELSE map[p]]
        /\ tracked' = [p \in Paths |-> IF map[p] # "ABSENT" /\ ~Extracting(p) THEN "ABSENT"
                                       ELSE tracked[p]]
    BY DEF StopClear
  <2> QED
    BY <2>1, <2>2 DEF TypeInv, OwnedOK, Statuses
<1>8. UNCHANGED <<records, source, cleaning, cd2Cache, cd2Resume, retries, events,
                  jobs, reaping, purging, ghosts>>
  BY DEF StopClear
<1> QED
  BY <1>1, <1>2, <1>3, <1>4, <1>5, <1>6, <1>7, <1>8 DEF TypeInv, RecordsOK, DirsOK, SharedOK,
     MarksOK, FlightsOK, PastOK, records, ghosts

LEMMA SwitchesTyped ==
  ASSUME TypeInv, ResumeTasks \/ PauseDownloads \/ ResumeDownloads
  PROVE  TypeInv'
<1>1. SwitchesOK' /\ cancelled' \subseteq Keys
  BY DEF ResumeTasks, PauseDownloads, ResumeDownloads, TypeInv, SwitchesOK, MarksOK, marks
<1>2. CopyOK'
  BY StoppedOK DEF ResumeTasks, PauseDownloads, ResumeDownloads, TypeInv, CopyOK, flights
<1>3. world' \in 0 .. MaxWorld
  BY ActsTyped DEF ResumeTasks, PauseDownloads, ResumeDownloads, Undoes, TypeInv, PastOK
<1>4. UNCHANGED <<records, pending, dirs, cleaning, shared, owned, events, jobs, reaping, purging,
                  ghosts>>
  BY DEF ResumeTasks, PauseDownloads, ResumeDownloads, flights, marks
<1> QED
  BY <1>1, <1>2, <1>3, <1>4 DEF TypeInv, RecordsOK, DirsOK, SharedOK, MarksOK, OwnedOK,
     FlightsOK, PastOK, records, dirs, shared, owned, ghosts

LEMMA ClearCacheTyped == ASSUME TypeInv, ClearCache PROVE TypeInv'
<1>1. /\ cache' \in CacheDirs /\ staging' \in StagingDirs /\ cd2Cache' \in Links
      /\ cd2Resume' \subseteq Paths
  BY NothingAt DEF ClearCache, CacheDirs, StagingDirs, Links, LinksAt
<1>2. UNCHANGED <<durable, source, marks, cd2Copy, cd2Tasks, owned, flights, ghosts, world>>
  BY DEF ClearCache, Undoes
<1> QED
  BY <1>1, <1>2 DEF TypeInv, SwitchesOK, RecordsOK, DirsOK, SharedOK, MarksOK, OwnedOK, CopyOK,
     FlightsOK, PastOK, durable, switches, records, marks, owned, flights, ghosts

LEMMA ClearIncompleteTyped == ASSUME TypeInv, ClearIncomplete PROVE TypeInv'
<1>1. staging' \in StagingDirs /\ pending' \subseteq PendingRecs
  BY DEF ClearIncomplete, StagingDirs, TypeInv, RecordsOK
<1>2. cd2Tasks' \in TasksOf
  BY DEF ClearIncomplete, TasksOf, TypeInv, SharedOK
<1>3. UNCHANGED <<switches, records, source, cache, marks, cd2Cache, cd2Copy, cd2Resume, owned,
                  flights, ghosts, world>>
  BY DEF ClearIncomplete, Undoes
<1> QED
  BY <1>1, <1>2, <1>3 DEF TypeInv, SwitchesOK, RecordsOK, DirsOK, SharedOK, MarksOK, OwnedOK, CopyOK,
     FlightsOK, PastOK, switches, records, marks, owned, flights, ghosts

\* What cancelling and ignoring have in common.
LEMMA RefuseTyped ==
  ASSUME TypeInv, NEW k \in Keys, Refuse(k)
  PROVE  /\ cancelled' \subseteq Keys /\ CopyOK' /\ OwnedOK'
         /\ UNCHANGED <<switches, processed, pending, dirs, cleaning, shared, retries,
                        events, jobs, reaping, purging, ghosts>>
<1>1. UNCHANGED <<switches, processed, pending, dirs, cleaning, shared, retries,
                  events, jobs, reaping, purging, ghosts>>
      /\ cancelled' = cancelled \cup TaskKeys(k) /\ copy' = Stopped(TaskKeys(k))
  BY DEF Refuse
<1>2. TaskKeys(k) \subseteq Keys
  BY TargetTyped, TargetOfPath DEF TaskKeys
<1>3. CopyOK'
  BY <1>1, StoppedOK DEF TypeInv
<1>4. OwnedOK'
  <2>1. map' \in {map, [map EXCEPT ![TargetOf(k)] = "ABSENT"]}
        /\ tracked' \in {tracked, [tracked EXCEPT ![TargetOf(k)] = "ABSENT"]}
    BY DEF Refuse
  <2> QED
    BY <1>1, <2>1 DEF TypeInv, OwnedOK, Statuses
<1> QED
  BY <1>1, <1>2, <1>3, <1>4 DEF TypeInv, MarksOK

LEMMA CancelTyped == ASSUME TypeInv, NEW k \in Keys, CancelTask(k) PROVE TypeInv'
<1> DEFINE rec == [id |-> Version(k), stage |-> "cancelled", group |-> k, cached |-> FALSE]
<1>1. /\ cancelled' \subseteq Keys /\ CopyOK' /\ OwnedOK'
      /\ UNCHANGED <<switches, processed, pending, dirs, cleaning, shared, retries,
                     events, jobs, reaping, purging, ghosts>>
  BY RefuseTyped DEF CancelTask
<1>2. world' \in 0 .. MaxWorld
  BY ActsTyped DEF CancelTask, TypeInv, PastOK
<1>3. failed' \subseteq Failures
  <2>1. CASE failed' = MarkFailed(failed, FailureOf(TargetOf(k), "cancelled"))
    BY <2>1, TargetTyped, FailureOfTyped, MarkFailedTyped DEF TypeInv, RecordsOK
  <2>2. CASE k \notin Paths /\ failed' = MarkFailed(failed, rec)
    <3>1. k \in Groups
      BY <2>2 DEF Keys
    <3>2. Target[k] \in Paths /\ source[k] \in Sizes \cup {NoSize}
      BY <3>1, TargetOfGroup DEF TypeInv, DirsOK
    <3>3. rec \in Failures
      BY <3>1, <3>2, FailureTyped DEF Version
    <3> QED
      BY <2>2, <3>3, MarkFailedTyped DEF TypeInv, RecordsOK
  <2> QED
    BY <2>1, <2>2 DEF CancelTask
<1>4. UNCHANGED ignored
  BY DEF CancelTask
<1> QED
  BY <1>1, <1>2, <1>3, <1>4 DEF TypeInv, SwitchesOK, RecordsOK, DirsOK, SharedOK, MarksOK,
     FlightsOK, PastOK, switches, dirs, shared, ghosts

LEMMA IgnoreTyped == ASSUME TypeInv, NEW k \in Keys, IgnoreTask(k) PROVE TypeInv'
<1>1. /\ cancelled' \subseteq Keys /\ CopyOK' /\ OwnedOK'
      /\ UNCHANGED <<switches, processed, pending, dirs, cleaning, shared, retries,
                     events, jobs, reaping, purging, ghosts>>
  BY RefuseTyped DEF IgnoreTask
<1>2. world' \in 0 .. MaxWorld /\ UNCHANGED failed
  BY ActsTyped DEF IgnoreTask, TypeInv, PastOK
<1>3. ignored' \subseteq Paths
  BY TargetTyped DEF IgnoreTask, TypeInv, RecordsOK
<1> QED
  BY <1>1, <1>2, <1>3 DEF TypeInv, SwitchesOK, RecordsOK, DirsOK, SharedOK, MarksOK,
     FlightsOK, PastOK, switches, dirs, shared, ghosts

LEMMA UnignoreTyped == ASSUME TypeInv, NEW p \in Paths, Unignore(p) PROVE TypeInv'
<1>1. ignored' \subseteq Paths /\ cancelled' \subseteq Keys
  BY DEF Unignore, TypeInv, RecordsOK, MarksOK
<1>2. UNCHANGED <<switches, processed, failed, pending, dirs, cleaning, shared, owned, flights,
                  ghosts, world>>
  BY DEF Unignore, Undoes
<1> QED
  BY <1>1, <1>2 DEF TypeInv, SwitchesOK, RecordsOK, DirsOK, SharedOK, MarksOK, OwnedOK, CopyOK,
     FlightsOK, PastOK, switches, dirs, shared, owned, flights, ghosts

LEMMA FailureFacts ==
  ASSUME RecordsOK, NEW r \in failed
  PROVE  /\ r.id \in Identities /\ r.id[1] \in Paths /\ r.id[2] \in Sizes \cup {NoSize}
         /\ r.cached => (r.group \in Groups /\ Target[r.group] = r.id[1])
         /\ r.group # NoGroup => r.group \in Groups
         /\ r.stage = "cleanup" => r.group \in Groups
  BY DEF RecordsOK, Failures, Identities

LEMMA RetryCachedTyped == ASSUME TypeInv, NEW r \in failed, RetryCached(r) PROVE TypeInv'
<1> DEFINE p == r.id[1]
           rec == [key |-> <<"cached", p>>, group |-> r.group, cached |-> TRUE, size |-> r.id[2]]
<1>1. /\ p \in Paths /\ r.id[2] \in Sizes \cup {NoSize}
      /\ r.cached => (r.group \in Groups /\ Target[r.group] = p)
  BY FailureFacts DEF TypeInv
<1>2. world' \in 0 .. MaxWorld
  BY ActsTyped DEF RetryCached, Retryable, TypeInv, PastOK
<1>3. processed' \subseteq Identities /\ cancelled' \subseteq Keys
  BY DEF RetryCached, TypeInv, RecordsOK, MarksOK
<1>4. /\ map' = [map EXCEPT ![p] = "ABSENT"] /\ tracked' = [tracked EXCEPT ![p] = "WAITING"]
      /\ retries' = [retries EXCEPT ![p] = 0]
  BY DEF RetryCached
<1>5. OwnedOK'
  <2>1. 0 \in 0 .. MaxRetries
    BY CacheAssumption
  <2> QED
    BY <1>4, <2>1 DEF TypeInv, OwnedOK, Statuses
<1>6. cd2Cache' \in Links /\ cd2Resume' \subseteq Paths /\ pending' \subseteq PendingRecs
  <2>1. CASE r.cached
    <3>1. /\ cd2Cache' = [cd2Cache EXCEPT ![p] = r.group] /\ cd2Resume' = cd2Resume \cup {p}
          /\ pending' \in {pending, Put(pending, rec)}
      BY <2>1 DEF RetryCached
    <3>2. r.group \in LinksAt(p)
      BY <1>1, <2>1 DEF LinksAt
    <3>3. rec \in PendingRecs
      BY <1>1, <2>1, CachedRecordOK
    <3>4. pending' \subseteq PendingRecs
      BY <3>1, <3>3, PutTyped DEF TypeInv, RecordsOK
    <3> QED
      BY <1>1, <3>1, <3>2, <3>4, LinkSet DEF TypeInv, SharedOK
  <2>2. CASE ~r.cached
    BY <2>2 DEF RetryCached, TypeInv, SharedOK, RecordsOK
  <2> QED
    BY <2>1, <2>2
<1>7. UNCHANGED <<switches, failed, ignored, dirs, cleaning, cd2Copy, cd2Tasks, flights, ghosts>>
  BY DEF RetryCached
<1> QED
  BY <1>2, <1>3, <1>5, <1>6, <1>7 DEF TypeInv, SwitchesOK, RecordsOK, DirsOK, SharedOK, MarksOK,
     CopyOK, FlightsOK, PastOK, switches, dirs, flights, ghosts

LEMMA RetryCopyTyped ==
  ASSUME TypeInv, NEW r \in failed, NEW c \in Copiers, RetryCopy(r, c)
  PROVE  TypeInv'
<1> DEFINE g == r.group
<1>1. g \in Groups
  BY FailureFacts DEF RetryCopy, TypeInv
<1>2. world' \in 0 .. MaxWorld
  BY ActsTyped DEF RetryCopy, Retryable, TypeInv, PastOK
<1>3. processed' \subseteq Identities /\ cancelled' \subseteq Keys
  BY DEF RetryCopy, TypeInv, RecordsOK, MarksOK
<1>4. pending' \subseteq PendingRecs
  BY DEF RetryCopy, TypeInv, RecordsOK
<1>5. cd2Copy' = cd2Copy \cup {g} /\ cd2Tasks' = Shown(g)
      /\ copy' = [copy EXCEPT ![c] = Copying("locked", g, g, Nothing)]
  BY DEF RetryCopy
<1>6. cd2Copy' \subseteq Keys /\ cd2Tasks' \in TasksOf
  BY <1>1, <1>5, TargetOfGroup, TaskTyped DEF TypeInv, SharedOK
<1>7. Copying("locked", g, g, Nothing) \in Copies
  BY <1>1, TargetOfGroup, CopyingTyped DEF TypeInv
<1>8. CopyOK'
  BY <1>5, <1>7, CopySet DEF TypeInv
<1>9. UNCHANGED <<switches, failed, ignored, dirs, cleaning, cd2Cache, cd2Resume, owned,
                  events, jobs, reaping, purging, ghosts>>
  BY DEF RetryCopy
<1> QED
  BY <1>2, <1>3, <1>4, <1>6, <1>8, <1>9 DEF TypeInv, SwitchesOK, RecordsOK, DirsOK, SharedOK,
     MarksOK, OwnedOK, FlightsOK, PastOK, switches, dirs, owned, ghosts

LEMMA RetryDeleteTyped == ASSUME TypeInv, NEW r \in failed, RetryDelete(r) PROVE TypeInv'
<1> DEFINE x == [at |-> "deleting", path |-> r.id[1], id |-> r.id, group |-> r.group]
<1>1. /\ r.stage = "cleanup" /\ cleaning' = cleaning \cup {r.id} /\ reaping' = reaping \cup {x}
      /\ UNCHANGED <<durable, dirs, cancelled, shared, owned, copy, events, jobs, purging, ghosts>>
  BY DEF RetryDelete
<1>2. world' \in 0 .. MaxWorld
  BY ActsTyped DEF RetryDelete, Retryable, TypeInv, PastOK
<1>3. r.id \in Identities /\ r.id[1] \in Paths /\ r.group \in Groups
  BY <1>1, FailureFacts DEF TypeInv
<1>4. x \in Deletions
  BY <1>3 DEF Deletions
<1> QED
  BY <1>1, <1>2, <1>3, <1>4 DEF TypeInv, SwitchesOK, RecordsOK, DirsOK, SharedOK,
     MarksOK, OwnedOK, CopyOK, FlightsOK, PastOK, durable, switches, records, dirs, shared, owned, ghosts

LEMMA UserTyped == ASSUME TypeInv, User PROVE TypeInv'
  BY StopClearTyped, SwitchesTyped, ClearCacheTyped, ClearIncompleteTyped, CancelTyped, IgnoreTyped,
     UnignoreTyped, RetryCachedTyped, RetryCopyTyped, RetryDeleteTyped DEF User

---------------------------------------------------------------------------
(* The mount, other programs, and restarts.                                *)

LEMMA WorldTyped == ASSUME TypeInv, World PROVE TypeInv'
<1>1. ASSUME NEW g \in Groups, NEW s \in Sizes \cup {NoSize}, Arrives(g, s) PROVE TypeInv'
  <2>1. source' \in [Groups -> Sizes \cup {NoSize}]
    BY <1>1 DEF Arrives, TypeInv, DirsOK
  <2>2. world' \in 0 .. MaxWorld
    BY <1>1, CacheAssumption DEF Arrives, TypeInv, PastOK
  <2>3. UNCHANGED <<durable, staging, cache, marks, shared, owned, flights, ghosts>>
    BY <1>1 DEF Arrives
  <2> QED
    BY <2>1, <2>2, <2>3 DEF TypeInv, SwitchesOK, RecordsOK, DirsOK, SharedOK, MarksOK, OwnedOK,
       CopyOK, FlightsOK, PastOK, durable, switches, records, marks, shared, owned, flights, ghosts
<1>2. ASSUME NEW p \in Paths, RemoveCached(p) PROVE TypeInv'
  <2>1. cache' \in CacheDirs
    BY <1>2, NothingAt, CacheSet DEF RemoveCached, TypeInv, DirsOK
  <2>2. world' \in 0 .. MaxWorld
    BY <1>2, ActsTyped DEF RemoveCached, TypeInv, PastOK
  <2>3. UNCHANGED <<durable, source, staging, marks, shared, owned, flights, ghosts>>
    BY <1>2 DEF RemoveCached
  <2> QED
    BY <2>1, <2>2, <2>3 DEF TypeInv, SwitchesOK, RecordsOK, DirsOK, SharedOK, MarksOK, OwnedOK,
       CopyOK, FlightsOK, PastOK, durable, switches, records, marks, shared, owned, flights, ghosts
<1>3. ASSUME Crash PROVE TypeInv'
  <2>1. world' \in 0 .. MaxWorld
    BY <1>3, ActsTyped DEF Crash, TypeInv, PastOK
  <2>2. SharedOK' /\ MarksOK'
    BY <1>3 DEF Crash, SharedOK, MarksOK, Links, LinksAt, TasksOf
  <2>3. OwnedOK'
    BY <1>3, CacheAssumption DEF Crash, OwnedOK, Statuses
  <2>4. CopyOK' /\ FlightsOK'
    BY <1>3 DEF Crash, CopyOK, FlightsOK
  <2>5. UNCHANGED <<durable, dirs, ghosts>>
    BY <1>3 DEF Crash
  <2> QED
    BY <2>1, <2>2, <2>3, <2>4, <2>5 DEF TypeInv, SwitchesOK, RecordsOK, DirsOK, PastOK,
       durable, switches, records, dirs, ghosts
<1> QED
  BY <1>1, <1>2, <1>3 DEF World

LEMMA StutterTyped == ASSUME TypeInv, UNCHANGED vars PROVE TypeInv'
  BY DEF TypeInv, SwitchesOK, RecordsOK, DirsOK, SharedOK, MarksOK, OwnedOK, CopyOK, FlightsOK,
     PastOK, vars, durable, switches, records, dirs, marks, shared, owned, flights, ghosts

LEMMA StepTyped == TypeInv /\ [Next]_vars => TypeInv'
<1> SUFFICES ASSUME TypeInv, [Next]_vars PROVE TypeInv'
  OBVIOUS
<1>1. CASE Scan
  BY <1>1, SkipTyped, LookTyped DEF Scan
<1>2. CASE \E c \in Copiers : CopyStep(c)
  BY <1>2, CopyTyped
<1>3. CASE Reap
  BY <1>3, TakeSourceTyped, DeletesSourceTyped, CannotDeleteTyped DEF Reap
<1> QED
  BY <1>1, <1>2, <1>3, ResumeTyped, LoopTyped, PurgeTyped, UserTyped, WorldTyped, StutterTyped DEF Next

LEMMA TypeInvAlways == Spec => []TypeInv
  BY InitTyped, StepTyped, PTL DEF Spec

LEMMA Typed == TypeInv => TypeOK
<1> SUFFICES ASSUME TypeInv PROVE TypeOK
  OBVIOUS
<1>1. Failures \subseteq [id : Identities, stage : {"extract", "cleanup", "cancelled"},
                          group : Groups \cup {NoGroup}, cached : BOOLEAN]
  BY DEF Failures
<1>2. PendingRecs \subseteq [key : PendingKeys, group : Groups, cached : BOOLEAN,
                             size : Sizes \cup {NoSize}]
  BY DEF PendingRecs
<1>3. Copies \subseteq [at : Steps, key : Keys, group : Groups, size : Sizes \cup {NoSize},
                        owns : BOOLEAN, resumed : PendingKeys \cup {Nothing}]
  BY DEF Copies
<1>4. JobRecs \subseteq [path : Paths, got : Contents \cup {Nothing}, started : BOOLEAN]
  BY DEF JobRecs, JobsAt, ContentsAt
<1>5. Calls \cup Deletions \subseteq [at : {"called", "deleting"}, path : Paths,
                                      id : Identities \cup {Nothing}, group : Groups]
  BY DEF Calls, Deletions
<1>6. /\ cache \in [Paths -> Contents \cup {Nothing}]
      /\ cd2Cache \in [Paths -> Groups \cup {NoGroup}]
  BY DEF TypeInv, DirsOK, SharedOK, CacheDirs, Links
<1>7. /\ failed \subseteq [id : Identities, stage : {"extract", "cleanup", "cancelled"},
                           group : Groups \cup {NoGroup}, cached : BOOLEAN]
      /\ pending \subseteq [key : PendingKeys, group : Groups, cached : BOOLEAN,
                            size : Sizes \cup {NoSize}]
  BY <1>1, <1>2 DEF TypeInv, RecordsOK
<1>8. copy \in [Copiers -> {Idle} \cup [at : Steps, key : Keys, group : Groups,
                                         size : Sizes \cup {NoSize}, owns : BOOLEAN,
                                         resumed : PendingKeys \cup {Nothing}]]
  BY <1>3 DEF TypeInv, CopyOK
<1>9. jobs \in [Jobs -> {Nothing} \cup [path : Paths, got : Contents \cup {Nothing},
                                         started : BOOLEAN]]
  BY <1>4 DEF TypeInv, FlightsOK
<1>10. reaping \subseteq [at : {"called", "deleting"}, path : Paths,
                          id : Identities \cup {Nothing}, group : Groups]
  BY <1>5 DEF TypeInv, FlightsOK
<1> QED
  BY <1>6, <1>7, <1>8, <1>9, <1>10 DEF TypeOK, TypeInv, SwitchesOK, RecordsOK, DirsOK, SharedOK,
     MarksOK, OwnedOK, FlightsOK, PastOK, StagingDirs, TasksOf

\* Through every step of copies, jobs, deletions, users and crashes the state
\* keeps its types: no record names a path, a group or a step that there is not,
\* and the retries of a path stay within max_retries (checkFolderStats).
THEOREM TypeCorrect == Spec => []TypeOK
  BY TypeInvAlways, Typed, PTL

---------------------------------------------------------------------------
(* One staging directory has one copy.                                     *)

\* A step after which no copy owns a lock that it did not own before.
LEMMA FewerOwners ==
  ASSUME LockInv,
         \A d \in Copiers : Owner(d)' => (Owner(d) /\ Key(d)' = Key(d) /\ Key(d) \in cd2Copy')
  PROVE  LockInv'
  BY DEF LockInv, OneCopier, Owner

\* A step that takes one lock, which was free.
LEMMA OneMoreOwner ==
  ASSUME LockInv, NEW c \in Copiers, NEW k, k \notin cd2Copy, cd2Copy' = cd2Copy \cup {k},
         Key(c)' = k, \A d \in Copiers \ {c} : copy'[d] = copy[d]
  PROVE  LockInv'
<1>1. \A d \in Copiers \ {c} : (Owner(d)' <=> Owner(d)) /\ Key(d)' = Key(d)
  BY DEF Owner, Key
<1>2. \A d \in Copiers : Owner(d)' => Key(d)' \in cd2Copy'
  BY <1>1 DEF LockInv
<1>3. \A d, e \in Copiers : d # e /\ Owner(d)' /\ Owner(e)' => Key(d)' # Key(e)'
  BY <1>1 DEF LockInv, OneCopier, Owner
<1> QED
  BY <1>2, <1>3 DEF LockInv, OneCopier, Owner

\* A copy goes on.
LEMMA GoesKeeps ==
  ASSUME LockInv, CopyOK, NEW c \in Copiers, NEW s, Goes(c, s), Busy(c), ~At(c, "looked"),
         UNCHANGED cd2Copy
  PROVE  LockInv'
<1>1. copy[c].at \in Steps \ {"looked"}
  BY CopyFacts DEF At
<1>2. copy[c] \in Copies
  BY CopyFacts
<1>3. copy'[c].key = copy[c].key /\ copy'[c].owns = copy[c].owns
  BY <1>2 DEF Goes, Copies, CopyOK
<1>4. \A d \in Copiers \ {c} : copy'[d] = copy[d]
  BY DEF Goes, CopyOK
<1>5. \A d \in Copiers : Owner(d)' => (Owner(d) /\ Key(d)' = Key(d))
  BY <1>1, <1>3, <1>4 DEF Owner, Key
<1> QED
  BY <1>5, FewerOwners DEF LockInv

\* Nothing is left of a copy, and its lock is free: of others with the key, none
\* owned it while this one did, and none does when this one did not.
LEMMA GoneKeeps ==
  ASSUME LockInv, CopyOK, NEW c \in Copiers, Gone(c), Busy(c), ~At(c, "looked"),
         cd2Copy' = cd2Copy \ {Key(c)}
  PROVE  LockInv'
<1> SUFFICES ASSUME NEW d \in Copiers, Owner(d)'
             PROVE  Owner(d) /\ Key(d)' = Key(d) /\ Key(d) \in cd2Copy'
  BY FewerOwners
<1>1. copy'[d] = IF d = c THEN Idle
                 ELSE IF Busy(d) /\ Key(d) = Key(c) /\ ~At(d, "looked") /\ ~copy[c].owns
                 THEN [copy[d] EXCEPT !.owns = FALSE] ELSE copy[d]
  BY DEF Gone
<1>2. d # c
  BY <1>1 DEF Owner, Idle, Steps
<1>3. ~(Busy(d) /\ Key(d) = Key(c) /\ ~At(d, "looked") /\ ~copy[c].owns)
  <2> SUFFICES ASSUME Busy(d), Key(d) = Key(c), ~At(d, "looked"), ~copy[c].owns PROVE FALSE
    OBVIOUS
  <2>1. copy[d] \in Copies /\ copy'[d] = [copy[d] EXCEPT !.owns = FALSE]
    BY <1>1, <1>2, CopyFacts
  <2> QED
    BY <2>1 DEF Owner, Copies
<1>4. copy'[d] = copy[d]
  BY <1>1, <1>2, <1>3
<1>5. Owner(d) /\ Key(d)' = Key(d)
  BY <1>4 DEF Owner, Key
<1>6. Key(d) # Key(c)
  <2> SUFFICES ASSUME Key(d) = Key(c) PROVE FALSE
    OBVIOUS
  <2>1. Busy(d) /\ ~At(d, "looked")
    BY <1>5 DEF Owner, Busy, At, Steps
  <2>2. copy[c].owns
    BY <1>3, <2>1
  <2>3. copy[c].at \in Steps \ {"looked"}
    BY CopyFacts DEF At
  <2> QED
    BY <1>2, <1>5, <2>2, <2>3 DEF LockInv, OneCopier, Owner
<1> QED
  BY <1>5, <1>6 DEF LockInv

\* Copies that are stopped fail, and keep their locks until they end.
LEMMA StoppedKeeps ==
  ASSUME LockInv, CopyOK, NEW keys, copy' = Stopped(keys), UNCHANGED cd2Copy
  PROVE  LockInv'
<1> SUFFICES ASSUME NEW d \in Copiers, Owner(d)'
             PROVE  Owner(d) /\ Key(d)' = Key(d) /\ Key(d) \in cd2Copy'
  BY FewerOwners
<1>1. Owner(d) /\ Key(d)' = Key(d)
  <2>1. CASE At(d, "copying") /\ Key(d) \in keys
    <3>1. copy[d] \in Copies /\ copy'[d] = [copy[d] EXCEPT !.at = "failed"]
      BY <2>1, StepBusy, CopyFacts DEF Stopped, Steps
    <3> QED
      BY <2>1, <3>1 DEF Owner, Key, At, Copies, Steps
  <2>2. CASE ~(At(d, "copying") /\ Key(d) \in keys)
    BY <2>2 DEF Stopped, Owner, Key
  <2> QED
    BY <2>1, <2>2
<1> QED
  BY <1>1 DEF LockInv

LEMMA NoneLocks == ASSUME LockInv, UNCHANGED <<copy, cd2Copy>> PROVE LockInv'
  BY DEF LockInv, OneCopier, Owner, Key

LEMMA NoOwners == ASSUME \A d \in Copiers : ~Owner(d)' PROVE LockInv'
  BY DEF LockInv, OneCopier, Owner

LEMMA LookLocks ==
  ASSUME TypeInv, LockInv, NEW c \in Copiers, NEW g \in Groups, Look(c, g)
  PROVE  LockInv'
<1>1. copy' = [copy EXCEPT ![c] = Copying("looked", g, g, Nothing)] /\ UNCHANGED cd2Copy
  BY DEF Look
<1>2. copy'[c].at = "looked" /\ \A d \in Copiers \ {c} : copy'[d] = copy[d]
  BY <1>1 DEF Copying, TypeInv, CopyOK
<1>3. \A d \in Copiers : Owner(d)' => (Owner(d) /\ Key(d)' = Key(d))
  BY <1>2 DEF Owner, Key
<1> QED
  BY <1>1, <1>3, FewerOwners DEF LockInv

LEMMA LockLocks == ASSUME TypeInv, LockInv, NEW c \in Copiers, Lock(c) PROVE LockInv'
<1>1. CASE copy' = [copy EXCEPT ![c] = Idle] /\ UNCHANGED cd2Copy
  <2>1. copy'[c].at = "idle" /\ \A d \in Copiers \ {c} : copy'[d] = copy[d]
    BY <1>1 DEF Idle, TypeInv, CopyOK
  <2>2. \A d \in Copiers : Owner(d)' => (Owner(d) /\ Key(d)' = Key(d))
    BY <2>1 DEF Owner, Key, Steps
  <2> QED
    BY <1>1, <2>2, FewerOwners DEF LockInv
<1>2. CASE Key(c) \notin cd2Copy /\ Goes(c, "locked") /\ cd2Copy' = cd2Copy \cup {Key(c)}
  <2>1. copy[c] \in Copies
    BY StepBusy, CopyFacts DEF Lock, Steps, TypeInv
  <2>2. Key(c)' = Key(c) /\ \A d \in Copiers \ {c} : copy'[d] = copy[d]
    BY <1>2, <2>1 DEF Goes, Key, Copies, TypeInv, CopyOK
  <2> QED
    BY <1>2, <2>2, OneMoreOwner
<1> QED
  BY <1>1, <1>2 DEF Lock

LEMMA CopyLocks == ASSUME TypeInv, LockInv, NEW c \in Copiers, CopyStep(c) PROVE LockInv'
<1>1. CASE Lock(c)
  BY <1>1, LockLocks
<1>2. CASE PauseResumed(c) \/ Finish(c) \/ Fails(c)
  <2>1. Busy(c) /\ ~At(c, "looked")
    BY <1>2, StepBusy DEF PauseResumed, Finish, Fails, Steps, At
  <2>2. Gone(c) /\ cd2Copy' = cd2Copy \ {Key(c)}
    BY <1>2 DEF PauseResumed, Finish, Fails, Ends
  <2> QED
    BY <2>1, <2>2, GoneKeeps DEF TypeInv
<1>3. CASE Begin(c)
  <2>1. Busy(c) /\ ~At(c, "looked") /\ UNCHANGED cd2Copy
    BY <1>3, StepBusy DEF Begin, Steps, At
  <2>2. CASE Goes(c, "failed")
    BY <2>1, <2>2, GoesKeeps DEF TypeInv
  <2>3. CASE copy' = [copy EXCEPT ![c].at = "copying", ![c].size = source[From(c)]]
    <3>1. copy[c] \in Copies /\ copy[c].at \in Steps \ {"looked"}
      BY <2>1, CopyFacts DEF TypeInv, At
    <3>2. copy'[c].key = copy[c].key /\ copy'[c].owns = copy[c].owns
      BY <2>3, <3>1 DEF Copies, TypeInv, CopyOK
    <3>3. \A d \in Copiers \ {c} : copy'[d] = copy[d]
      BY <2>3 DEF TypeInv, CopyOK
    <3>4. \A d \in Copiers : Owner(d)' => (Owner(d) /\ Key(d)' = Key(d))
      BY <3>1, <3>2, <3>3 DEF Owner, Key
    <3> QED
      BY <2>1, <3>4, FewerOwners DEF LockInv
  <2> QED
    BY <1>3, <2>2, <2>3 DEF Begin
<1>4. CASE Copied(c) \/ CopyFails(c) \/ PromoteFirst(c) \/ PromoteLast(c) \/ Record(c) \/ Inject(c)
  <2>1. Busy(c) /\ ~At(c, "looked")
    BY <1>4, StepBusy DEF Copied, CopyFails, PromoteFirst, PromoteLast, Record, Inject, Steps, At
  <2>2. UNCHANGED cd2Copy
    BY <1>4 DEF Copied, CopyFails, PromoteFirst, PromoteLast, Record, Inject, shared
  <2>3. \E s \in Steps : Goes(c, s)
    BY <1>4 DEF Copied, CopyFails, PromoteFirst, PromoteLast, Record, Inject, Steps
  <2> QED
    BY <2>1, <2>2, <2>3, GoesKeeps DEF TypeInv
<1> QED
  BY <1>1, <1>2, <1>3, <1>4 DEF CopyStep

\* A copy that starts with a lock, which was free.
LEMMA StartsLocked ==
  ASSUME CopyOK, LockInv, NEW c \in Copiers, NEW k, NEW g, NEW from,
         k \notin cd2Copy, cd2Copy' = cd2Copy \cup {k},
         copy' = [copy EXCEPT ![c] = Copying("locked", k, g, from)]
  PROVE  LockInv'
<1>1. Key(c)' = k /\ \A d \in Copiers \ {c} : copy'[d] = copy[d]
  BY DEF Key, Copying, CopyOK
<1> QED
  BY <1>1, OneMoreOwner

LEMMA UserLocks == ASSUME TypeInv, LockInv, User PROVE LockInv'
<1>1. CASE StopClear
  <2> SUFFICES ASSUME NEW d \in Copiers, Owner(d)' PROVE FALSE
    BY NoOwners
  <2> DEFINE x == Stopped(Keys)[d]
  <2>1. copy'[d] = IF Busy(d) /\ ~At(d, "looked") THEN [x EXCEPT !.owns = FALSE] ELSE copy[d]
    BY <1>1 DEF StopClear
  <2>2. Busy(d) /\ ~At(d, "looked")
    BY <2>1 DEF Owner, Busy, At, Steps
  <2>3. x \in Copies
    <3>1. x \in {Idle} \cup Copies
      BY StoppedTyped DEF TypeInv
    <3>2. x # Idle
      BY <2>2, CopyFacts DEF Stopped, TypeInv, Busy, Idle
    <3> QED
      BY <3>1, <3>2
  <2> HIDE DEF x
  <2> QED
    BY <2>1, <2>2, <2>3 DEF Owner, Copies
<1>2. CASE PauseDownloads
  BY <1>2, StoppedKeeps DEF PauseDownloads, TypeInv, shared
<1>3. CASE \E k \in Keys : CancelTask(k) \/ IgnoreTask(k)
  <2>1. PICK k \in Keys : Refuse(k)
    BY <1>3 DEF CancelTask, IgnoreTask
  <2>2. copy' = Stopped(TaskKeys(k)) /\ UNCHANGED cd2Copy
    BY <2>1 DEF Refuse, shared
  <2> QED
    BY <2>2, StoppedKeeps DEF TypeInv
<1>4. CASE \E r \in failed, c \in Copiers : RetryCopy(r, c)
  <2>1. PICK r \in failed, c \in Copiers : RetryCopy(r, c)
    BY <1>4
  <2>2. r.group \notin cd2Copy /\ cd2Copy' = cd2Copy \cup {r.group}
        /\ copy' = [copy EXCEPT ![c] = Copying("locked", r.group, r.group, Nothing)]
    BY <2>1 DEF RetryCopy, Retryable, RetryActive
  <2> QED
    BY <2>2, StartsLocked DEF TypeInv
<1>5. CASE \/ ResumeTasks \/ ClearCache \/ ResumeDownloads \/ ClearIncomplete
           \/ \E p \in Paths : Unignore(p)
           \/ \E r \in failed : RetryCached(r) \/ RetryDelete(r)
  <2>1. UNCHANGED <<copy, cd2Copy>>
    BY <1>5 DEF ResumeTasks, ClearCache, ResumeDownloads, ClearIncomplete, Unignore, RetryCached,
       RetryDelete, shared, flights
  <2> QED
    BY <2>1, NoneLocks
<1> QED
  BY <1>1, <1>2, <1>3, <1>4, <1>5 DEF User

LEMMA StepLocks == TypeInv /\ LockInv /\ [Next]_vars => LockInv'
<1> SUFFICES ASSUME TypeInv, LockInv, [Next]_vars PROVE LockInv'
  OBVIOUS
<1>1. CASE Scan
  <2>1. CASE \E g \in Groups : Skip(g)
    BY <2>1, NoneLocks DEF Skip, flights
  <2> QED
    BY <1>1, <2>1, LookLocks DEF Scan
<1>2. CASE \E c \in Copiers : CopyStep(c)
  BY <1>2, CopyLocks
<1>3. CASE Resume
  <2>1. ASSUME NEW r \in pending, ResumeCached(r) PROVE LockInv'
    BY <2>1, NoneLocks DEF ResumeCached
  <2>2. ASSUME NEW r \in pending, NEW c \in Copiers, ResumeCopy(r, c) PROVE LockInv'
    BY <2>2, StartsLocked DEF ResumeCopy, TypeInv
  <2> QED
    BY <1>3, <2>1, <2>2 DEF Resume
<1>4. CASE Loop
  <2>1. UNCHANGED <<copy, cd2Copy>>
    BY <1>4 DEF Loop, ProcessEvent, CheckFailed, CleanFolder, ExtractTracked, JobStarts, JobDropped,
       JobFindsNothing, JobFails, JobSucceeds, Answered, LoopFrame, shared
  <2> QED
    BY <2>1, NoneLocks
<1>5. CASE (\E x \in purging : Purge(x)) \/ Reap
  <2>1. UNCHANGED <<copy, cd2Copy>>
    BY <1>5 DEF Purge, Reap, TakeSource, DeletesSource, CannotDelete, ReapFrame, shared
  <2> QED
    BY <2>1, NoneLocks
<1>6. CASE World
  <2>1. CASE Crash
    <3>1. \A d \in Copiers : copy'[d] = Idle
      BY <2>1 DEF Crash
    <3> QED
      BY <3>1, NoOwners DEF Owner, Idle, Steps
  <2>2. CASE ~Crash
    <3>1. UNCHANGED <<copy, cd2Copy>>
      BY <1>6, <2>2 DEF World, Arrives, RemoveCached, shared, flights
    <3> QED
      BY <3>1, NoneLocks
  <2> QED
    BY <2>1, <2>2
<1>7. CASE UNCHANGED vars
  BY <1>7, NoneLocks DEF vars, shared, flights
<1> QED
  BY <1>1, <1>2, <1>3, <1>4, <1>5, <1>6, <1>7, UserLocks DEF Next

\* Two goroutines that see one archive at the same time do not copy it into one
\* staging directory: LoadOrStore of cd2Copy comes after the look, and whoever
\* holds the key has it until its own copy ends or stop_clear takes it
\* (cacheCloudDrivePathsForRetry, resumeCD2Pending, retryHistory).
THEOREM OneCopierAlways == Spec => []OneCopier
<1>1. Init => LockInv
  BY DEF Init, LockInv, OneCopier, Owner, Idle, Steps
<1>2. LockInv => OneCopier
  BY DEF LockInv
<1> QED
  BY <1>1, <1>2, StepLocks, TypeInvAlways, PTL DEF Spec

---------------------------------------------------------------------------
(* The cache keeps the promise of CloudArchive.                            *)

promised == <<GroupsOf(extracted), Done, GroupsOf(deleted)>>
PromiseStep == [Promise!Next]_promised

\* A step that leads to no deletion.
LEMMA EarnedKept ==
  ASSUME Earned, reaping' \subseteq reaping, UNCHANGED extracted,
         \A r \in failed' : r \in failed \/ r.stage # "cleanup"
  PROVE  Earned'
  BY DEF Earned, GroupsOf

\* A step that the promise does not see.
LEMMA Unseen == ASSUME UNCHANGED <<processed, extracted, deleted>> PROVE PromiseStep
  BY DEF PromiseStep, promised, Done, GroupsOf

LEMMA TakenBack ==
  ASSUME processed' \subseteq processed, UNCHANGED <<extracted, deleted>>
  PROVE  PromiseStep
<1>1. Done' \subseteq Done /\ UNCHANGED <<GroupsOf(extracted), GroupsOf(deleted)>>
  BY DEF Done, GroupsOf
<1>2. Done' = Done \ (Done \ Done') /\ Done \ Done' \in SUBSET Done
  BY <1>1
<1>3. Promise!TakeBack(Done \ Done')
  BY <1>1, <1>2 DEF Promise!TakeBack
<1> QED
  BY <1>2, <1>3 DEF PromiseStep, Promise!Next

LEMMA ScanEarns == ASSUME Earned, Scan PROVE Earned' /\ PromiseStep
<1>1. UNCHANGED <<reaping, failed, processed, extracted, deleted>>
  BY DEF Scan, Skip, Look, durable, records, flights, ghosts
<1> QED
  BY <1>1, EarnedKept, Unseen

LEMMA CopyEarns == ASSUME Earned, NEW c \in Copiers, CopyStep(c) PROVE Earned' /\ PromiseStep
<1>1. UNCHANGED <<reaping, failed, processed, extracted, deleted>>
  BY DEF CopyStep, Lock, PauseResumed, Begin, Copied, CopyFails, PromoteFirst, PromoteLast, Record,
     Inject, Finish, Fails, CopyFrame, durable, records, ghosts
<1> QED
  BY <1>1, EarnedKept, Unseen

LEMMA ResumeEarns == ASSUME Earned, Resume PROVE Earned' /\ PromiseStep
<1>1. UNCHANGED <<reaping, failed, processed, extracted, deleted>>
  BY DEF Resume, ResumeCached, ResumeCopy, durable, records, ghosts
<1> QED
  BY <1>1, EarnedKept, Unseen

LEMMA FailureStage == ASSUME NEW p, NEW stage PROVE FailureOf(p, stage).stage = stage
  BY DEF FailureOf

\* The one step that an extraction is accepted in: what was extracted is of the
\* group whose target the path is, and so are the record and the source to go.
LEMMA SuccessEarns ==
  ASSUME NamesApart, TypeInv, Earned, NEW j \in Jobs, JobSucceeds(j)
  PROVE  Earned' /\ PromiseStep
<1> DEFINE p == jobs[j].path
           got == jobs[j].got
           g == Group(got)
           call == [at |-> "called", path |-> p, id |-> Nothing, group |-> cd2Cache[p]]
<1>1. /\ Answered(j) /\ got # Nothing
      /\ extracted' = extracted \cup {<<g, SizeOf(got)>>} /\ UNCHANGED deleted
  BY DEF JobSucceeds, Answered
<1>2. p \in Paths /\ got \in ContentsAt(p)
  BY <1>1, JobFacts DEF TypeInv, Answered
<1>3. g \in Groups /\ Target[g] = p
  BY <1>1, <1>2, ContentsFacts DEF ContentsAt
<1>4. GroupsOf(extracted)' = GroupsOf(extracted) \cup {g}
  <2>1. <<g, SizeOf(got)>>[1] = g
    OBVIOUS
  <2> QED
    BY <1>1, <2>1 DEF GroupsOf
<1>5. /\ UNCHANGED <<processed, failed>> \/ \E id \in Identities : id[1] = p /\ MarkProcessed(id)
      /\ reaping' = reaping \/ (cd2Cache[p] = g /\ reaping' = reaping \cup {call})
  <2>1. CASE cd2Cache[p] # NoGroup
    <3>1. UNCHANGED <<processed, failed>> \/ \E id \in SuccessOf(p) : MarkProcessed(id)
      BY <2>1 DEF JobSucceeds
    <3>2. reaping' = reaping \cup {call}
      BY <2>1 DEF JobSucceeds
    <3>3. cd2Cache[p] = g
      BY <1>2, <1>3, <2>1, LinkAt DEF NamesApart, TypeInv, SharedOK
    <3> QED
      BY <1>2, <2>1, <3>1, <3>2, <3>3, SuccessTyped
  <2>2. CASE cd2Cache[p] = NoGroup
    <3>1. UNCHANGED <<processed, failed>> \/ MarkProcessed(<<p, SizeOf(cache[p])>>)
      BY <2>2 DEF JobSucceeds
    <3>2. <<p, SizeOf(cache[p])>> \in Identities /\ <<p, SizeOf(cache[p])>>[1] = p
      BY <1>2, CacheAt DEF Identities, TypeInv
    <3>3. UNCHANGED reaping
      BY <2>2 DEF JobSucceeds
    <3> QED
      BY <3>1, <3>2, <3>3
  <2> QED
    BY <2>1, <2>2
<1>6. Earned'
  <2>1. failed' \subseteq failed
    BY <1>5 DEF MarkProcessed, ClearFailed
  <2>2. \A r \in reaping' : r \in reaping \/ r.group = g
    BY <1>5
  <2> QED
    BY <1>4, <2>1, <2>2 DEF Earned
<1>7. Done' \in {Done, Done \cup {g}}
  <2>1. CASE UNCHANGED processed
    BY <2>1 DEF Done
  <2>2. ASSUME NEW id \in Identities, id[1] = p, processed' = processed \cup {id}
        PROVE  Done' \in {Done, Done \cup {g}}
    <3>1. id = <<p, id[2]>>
      BY <2>2 DEF Identities
    <3>2. \A h \in Groups, s \in Sizes : <<Target[h], s>> = id <=> h = g /\ s = id[2]
      BY <1>3, <2>2, <3>1 DEF NamesApart
    <3>3. \A h \in Groups : h \in Done' <=> h \in Done \/ (h = g /\ id[2] \in Sizes)
      BY <2>2, <3>2 DEF Done
    <3>4. Done \subseteq Groups /\ Done' \subseteq Groups
      BY DEF Done
    <3> QED
      BY <1>3, <3>3, <3>4
  <2> QED
    BY <1>5, <2>1, <2>2 DEF MarkProcessed
<1>8. GroupsOf(deleted)' = GroupsOf(deleted)
  BY <1>1 DEF GroupsOf
<1>9. Promise!Accept(g)
  BY <1>4, <1>7, <1>8 DEF Promise!Accept
<1> QED
  BY <1>3, <1>6, <1>9 DEF PromiseStep, Promise!Next

LEMMA LoopEarns == ASSUME NamesApart, TypeInv, Earned, Loop PROVE Earned' /\ PromiseStep
<1>1. CASE \E j \in Jobs : JobSucceeds(j)
  BY <1>1, SuccessEarns
<1>2. CASE \E j \in Jobs : JobFails(j)
  <2>1. PICK j \in Jobs : JobFails(j)
    BY <1>2
  <2>2. /\ failed' = MarkFailed(failed, FailureOf(jobs[j].path, "extract"))
        /\ UNCHANGED <<reaping, processed, extracted, deleted>>
    BY <2>1 DEF JobFails, Answered
  <2>3. \A r \in failed' : r \in failed \/ r.stage # "cleanup"
    BY <2>2, FailureStage DEF MarkFailed
  <2> QED
    BY <2>2, <2>3, EarnedKept, Unseen
<1>3. CASE \/ ProcessEvent
           \/ \E p \in Paths : CheckFailed(p) \/ CleanFolder(p) \/ \E j \in Jobs : ExtractTracked(p, j)
           \/ \E j \in Jobs : JobStarts(j) \/ JobDropped(j) \/ JobFindsNothing(j)
  <2>1. UNCHANGED <<reaping, failed, processed, extracted, deleted>>
    BY <1>3 DEF ProcessEvent, CheckFailed, CleanFolder, ExtractTracked, JobStarts, JobDropped,
       JobFindsNothing, Answered, ghosts
  <2> QED
    BY <2>1, EarnedKept, Unseen
<1> QED
  BY <1>1, <1>2, <1>3 DEF Loop

LEMMA ReapEarns == ASSUME NamesApart, TypeInv, Earned, Reap PROVE Earned' /\ PromiseStep
<1>1. ASSUME NEW r \in reaping, TakeSource(r) PROVE Earned' /\ PromiseStep
  <2>1. r.at = "called" /\ UNCHANGED <<failed, processed, extracted, deleted>>
    BY <1>1 DEF TakeSource, ReapFrame
  <2>2. Sources(r) = r.group
    <3>1. r.group \in Groups /\ Target[r.group] = r.path
      BY <2>1, CallFacts DEF TypeInv
    <3>2. Sources(r) \in Groups /\ Target[Sources(r)] = r.path
      BY <2>1, SourcesTyped
    <3> QED
      BY <3>1, <3>2 DEF NamesApart
  <2>3. \A x \in reaping' : x \in reaping \/ x.group = Sources(r)
    BY <1>1 DEF TakeSource
  <2>4. Earned'
    BY <2>1, <2>2, <2>3 DEF Earned, GroupsOf
  <2> QED
    BY <2>1, <2>4, Unseen
<1>2. ASSUME NEW r \in reaping, DeletesSource(r) PROVE Earned' /\ PromiseStep
  <2> DEFINE g == r.group
  <2>1. /\ reaping' = reaping \ {r} /\ failed' = ClearFailed(failed, r.id)
        /\ deleted' = IF Present(g) THEN deleted \cup {<<g, source[g]>>} ELSE deleted
        /\ UNCHANGED <<processed, extracted>>
    BY <1>2 DEF DeletesSource, ReapFrame
  <2>2. Earned'
    BY <2>1, EarnedKept DEF ClearFailed
  <2>3. CASE UNCHANGED deleted
    BY <2>1, <2>2, <2>3, Unseen
  <2>4. CASE deleted' = deleted \cup {<<g, source[g]>>}
    <3>1. g \in Groups /\ g \in GroupsOf(extracted)
      BY CallFacts DEF TypeInv, Earned
    <3>2. GroupsOf(deleted)' = GroupsOf(deleted) \cup {g}
      <4>1. <<g, source[g]>>[1] = g
        OBVIOUS
      <4> QED
        BY <2>4, <4>1 DEF GroupsOf
    <3>3. Promise!Remove(g)
      BY <2>1, <3>1, <3>2 DEF Promise!Remove, Done, GroupsOf
    <3> QED
      BY <2>2, <3>1, <3>3 DEF PromiseStep, Promise!Next
  <2> QED
    BY <2>1, <2>3, <2>4
<1>3. ASSUME NEW r \in reaping, CannotDelete(r) PROVE Earned' /\ PromiseStep
  <2> DEFINE rec == [id |-> r.id, stage |-> "cleanup", group |-> r.group, cached |-> FALSE]
  <2>1. /\ reaping' = reaping \ {r} /\ failed' = MarkFailed(failed, rec)
        /\ UNCHANGED <<processed, extracted, deleted>>
    BY <1>3 DEF CannotDelete, ghosts
  <2>2. \A x \in failed' : x \in failed \/ x.group = r.group
    BY <2>1 DEF MarkFailed
  <2>3. Earned'
    BY <2>1, <2>2 DEF Earned, GroupsOf
  <2> QED
    BY <2>1, <2>3, Unseen
<1> QED
  BY <1>1, <1>2, <1>3 DEF Reap

LEMMA UserEarns == ASSUME Earned, User PROVE Earned' /\ PromiseStep
<1>1. CASE \E k \in Keys : CancelTask(k)
  <2>1. PICK k \in Keys : CancelTask(k)
    BY <1>1
  <2>2. UNCHANGED <<reaping, processed, extracted, deleted>>
    BY <2>1 DEF CancelTask, Refuse, ghosts
  <2>3. \E rec : failed' = MarkFailed(failed, rec) /\ rec.stage = "cancelled"
    BY <2>1, FailureStage DEF CancelTask
  <2>4. \A r \in failed' : r \in failed \/ r.stage # "cleanup"
    BY <2>3 DEF MarkFailed
  <2> QED
    BY <2>2, <2>4, EarnedKept, Unseen
<1>2. CASE \E r \in failed : RetryDelete(r)
  <2>1. PICK r \in failed : RetryDelete(r)
    BY <1>2
  <2>2. UNCHANGED <<failed, processed, extracted, deleted>>
    BY <2>1 DEF RetryDelete, durable, records, ghosts
  <2>3. \A x \in reaping' : x \in reaping \/ x.group = r.group
    BY <2>1 DEF RetryDelete
  <2>4. r.stage = "cleanup"
    BY <2>1 DEF RetryDelete
  <2>5. Earned'
    BY <2>2, <2>3, <2>4 DEF Earned, GroupsOf
  <2> QED
    BY <2>2, <2>5, Unseen
<1>3. CASE \E r \in failed : RetryCached(r) \/ \E c \in Copiers : RetryCopy(r, c)
  <2>1. processed' \subseteq processed /\ UNCHANGED <<reaping, failed, extracted, deleted>>
    BY <1>3 DEF RetryCached, RetryCopy, flights, ghosts
  <2> QED
    BY <2>1, EarnedKept, TakenBack
<1>4. CASE \/ StopClear \/ ResumeTasks \/ ClearCache \/ PauseDownloads \/ ResumeDownloads
           \/ ClearIncomplete
           \/ \E k \in Keys : IgnoreTask(k)
           \/ \E p \in Paths : Unignore(p)
  <2>1. UNCHANGED <<reaping, failed, processed, extracted, deleted>>
    BY <1>4 DEF StopClear, ResumeTasks, ClearCache, PauseDownloads, ResumeDownloads, ClearIncomplete,
       IgnoreTask, Refuse, Unignore, durable, records, flights, ghosts
  <2> QED
    BY <2>1, EarnedKept, Unseen
<1> QED
  BY <1>1, <1>2, <1>3, <1>4 DEF User

LEMMA OthersEarn ==
  ASSUME Earned, (\E x \in purging : Purge(x)) \/ World \/ UNCHANGED vars
  PROVE  Earned' /\ PromiseStep
<1>1. reaping' \subseteq reaping /\ UNCHANGED <<failed, processed, extracted, deleted>>
  BY DEF Purge, World, Arrives, RemoveCached, Crash, vars, durable, records, flights, ghosts
<1> QED
  BY <1>1, EarnedKept, Unseen

(***************************************************************************)
(* Where archives have base names of their own, the copy cache implements  *)
(* CloudArchive: through all copies, retries, cancellations, replaced      *)
(* sources and crashes an archive counts as processed, and its source is   *)
(* deleted, only after a worker has extracted it whole (the callback of    *)
(* folder.go, deleteCachedSource, retrySourceDelete).                      *)
(***************************************************************************)
THEOREM KeepsPromiseAlways == ASSUME NamesApart PROVE Spec => KeepsPromise
<1>1. Init => TypeInv /\ Earned /\ Promise!Init
  <2>1. Init => Earned /\ Promise!Init
    BY DEF Init, Earned, Promise!Init, GroupsOf, Done
  <2> QED
    BY <2>1, InitTyped
<1>2. TypeInv /\ Earned /\ [Next]_vars => (TypeInv /\ Earned)' /\ [Promise!Next]_(Promise!vars)
  <2> SUFFICES ASSUME TypeInv, Earned, [Next]_vars PROVE Earned' /\ PromiseStep
    BY StepTyped DEF PromiseStep, promised, Promise!vars
  <2>1. CASE \E c \in Copiers : CopyStep(c)
    BY <2>1, CopyEarns
  <2> QED
    BY <2>1, ScanEarns, ResumeEarns, LoopEarns, ReapEarns, UserEarns, OthersEarn DEF Next
<1> QED
  BY <1>1, <1>2, PTL DEF Spec, KeepsPromise, Promise!Spec
===============================================================================
