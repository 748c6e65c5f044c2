--------------------------- MODULE CD2MonitorProofs ---------------------------
(***************************************************************************)
(* The types of the monitor, and that no set of volumes is copied twice    *)
(* but in the ways that CopiedOnce names, for any archives, overrides,     *)
(* mount points, settings and bounds, and any order of messages, scans,    *)
(* looks, refreshes, retries, stop_clears, resumes and crashes.            *)
(***************************************************************************)
EXTENDS CD2Monitor, TLAPS

---------------------------------------------------------------------------
(* The inductive invariant, in parts.                                      *)

\* A handler runs for a volume with the paths that a mapping gave.
HandlerOf(g) == [group : {g}, volume : Volumes,
                 paths : {CurrentPaths[g]}, tries : 0 .. Tries - 1]
Handlers == UNION {HandlerOf(g) : g \in Groups}

ViewOK ==
    /\ remote \in [Groups -> SUBSET Volumes] /\ mounted \in [Groups -> SUBSET Volumes]
    /\ \A g \in Groups : mounted[g] \subseteq remote[g]
LinkOK ==
    /\ stream \in {"up", "down"}
    /\ delay \in ReconnectMin .. ReconnectMax
    /\ pushed \in Seq(Groups \X Volumes) /\ (stream = "down" => pushed = <<>>)
WorkOK ==
    /\ handlers \subseteq Handlers
    /\ scanning \subseteq Groups /\ paused \in BOOLEAN
    /\ faults \in 0 .. MaxFaults
CopiesOK ==
    /\ copies \subseteq [group : Groups, files : SUBSET Volumes, resumed : BOOLEAN,
                        locked : BOOLEAN, stopped : BOOLEAN]
    /\ retry \in [Groups -> SUBSET Volumes]
RecordsOK ==
    /\ record \in [Groups -> SUBSET Volumes]
    /\ due \in [Groups -> BOOLEAN]
    /\ extracting \subseteq Groups
    /\ cached \in [Groups -> SUBSET Volumes]
    /\ processed \in [Groups -> SUBSET SUBSET Volumes]
    /\ failed \in [Groups -> SUBSET SUBSET Volumes]
    /\ copied \in [Groups -> SUBSET SUBSET Volumes]
Typed == ViewOK /\ LinkOK /\ WorkOK /\ CopiesOK /\ RecordsOK

\* The mount only gains volumes: what was copied, is copied now, or is to be
\* copied again is a part of what it shows.
Shown(g) == \A S \in copied[g] \cup Copying(g) \cup {retry[g]} : S \subseteq mounted[g]

\* If just what the mount shows has been copied, it is on record.
OnRecord(g) ==
    mounted[g] \in copied[g] => mounted[g] \in processed[g] \cup failed[g] \cup {record[g]}

NoCopyTwice == \A g \in Groups : Shown(g) /\ OnRecord(g)

IInv == Typed /\ NoCopyTwice

\* What CopiedOnce says of a step.
NewCopies ==
    \A g \in Groups : \A S \in Copying(g)' \ Copying(g) : S \in copied[g] => S = retry[g]

LEMMA InitIInv == Init => IInv
<1> SUFFICES ASSUME Init PROVE IInv
  OBVIOUS
<1>1. ViewOK /\ CopiesOK /\ RecordsOK
  BY DEF Init, ViewOK, CopiesOK, RecordsOK
<1>2. LinkOK
  BY MonitorAssumption DEF Init, LinkOK
<1>3. WorkOK
  <2>1. handlers = {} /\ scanning \in {Groups, {}} /\ paused = FALSE /\ faults = 0
    BY DEF Init
  <2>2. 0 \in 0 .. MaxFaults
    BY MonitorAssumption
  <2> QED
    BY <2>1, <2>2 DEF WorkOK
<1>4. NoCopyTwice
  BY DEF Init, NoCopyTwice, Shown, OnRecord, Copying, CopiesOf
<1> QED
  BY <1>1, <1>2, <1>3, <1>4 DEF IInv, Typed

---------------------------------------------------------------------------
(* The stream and its handlers.                                            *)

LEMMA FaultTyped == ASSUME Fault, WorkOK PROVE faults' \in 0 .. MaxFaults
  BY MonitorAssumption DEF Fault, WorkOK

LEMMA BreaksTyped ==
  ASSUME NEW clean \in BOOLEAN, Breaks(clean), Typed
  PROVE  LinkOK' /\ faults' \in 0 .. MaxFaults
<1>1. delay' \in ReconnectMin .. ReconnectMax
  <2>1. delay \in ReconnectMin .. ReconnectMax /\ ReconnectMin \in Nat /\ ReconnectMax \in Nat
        /\ ReconnectMin <= ReconnectMax
    BY MonitorAssumption DEF Typed, LinkOK
  <2> DEFINE waited == IF clean THEN ReconnectMin ELSE delay
  <2>2. waited \in ReconnectMin .. ReconnectMax
    BY <2>1
  <2>3. delay' = IF 2 * waited > ReconnectMax THEN ReconnectMax ELSE 2 * waited
    BY DEF Breaks
  <2> HIDE DEF waited
  <2> QED
    BY <2>1, <2>2, <2>3
<1>2. stream' = "down" /\ pushed' = <<>> /\ Fault
  BY DEF Breaks
<1> QED
  BY <1>1, <1>2, FaultTyped DEF LinkOK, Typed

LEMMA FirstPushed ==
  ASSUME LinkOK, pushed # <<>>
  PROVE  /\ Head(pushed)[1] \in Groups /\ Head(pushed)[2] \in Volumes
         /\ Tail(pushed) \in Seq(Groups \X Volumes)
<1>1. Head(pushed) \in Groups \X Volumes /\ Tail(pushed) \in Seq(Groups \X Volumes)
  BY DEF LinkOK
<1> QED
  BY <1>1

\* Receive starts a handler for the first message, or none.
LEMMA ReceiveTyped == ASSUME Receive, Typed PROVE LinkOK' /\ WorkOK'
<1> DEFINE g == Head(pushed)[1]
           v == Head(pushed)[2]
           accept(paths) ==
               IF paths = {} \/ paused \/ g \notin Watched THEN UNCHANGED handlers
               ELSE /\ Cardinality(handlers) < MaxHandlers
                    /\ handlers' = handlers \cup
                         {[group |-> g, volume |-> v, paths |-> paths, tries |-> 0]}
<1>1. g \in Groups /\ v \in Volumes /\ Tail(pushed) \in Seq(Groups \X Volumes) /\ pushed # <<>>
  BY FirstPushed DEF Receive, Typed
<1>2. stream # "down"
  BY <1>1 DEF Typed, LinkOK
<1>3. ASSUME accept(CurrentPaths[g]) PROVE handlers' \subseteq Handlers
  <2>1. [group |-> g, volume |-> v, paths |-> CurrentPaths[g], tries |-> 0] \in HandlerOf(g)
    BY <1>1, MonitorAssumption DEF HandlerOf
  <2>2. [group |-> g, volume |-> v, paths |-> CurrentPaths[g], tries |-> 0] \in Handlers
    BY <1>1, <2>1 DEF Handlers
  <2> QED
    BY <1>3, <2>2 DEF Typed, WorkOK
<1>4. \/ /\ accept(CurrentPaths[g])
         /\ pushed' = Tail(pushed)
         /\ UNCHANGED <<stream, delay, faults>>
      \/ /\ Overridden[g] = {}
         /\ Breaks(FALSE)
         /\ UNCHANGED handlers
  BY Zenon DEF Receive
<1>5. UNCHANGED <<scanning, paused>>
  BY DEF Receive
<1> HIDE DEF g, v, accept
<1>6. handlers' \subseteq Handlers
  BY <1>3, <1>4 DEF Typed, WorkOK
<1>7. LinkOK' /\ faults' \in 0 .. MaxFaults
  BY <1>1, <1>2, <1>4, BreaksTyped DEF Typed, LinkOK, WorkOK
<1> QED
  BY <1>5, <1>6, <1>7 DEF Typed, WorkOK

\* A handler that looks again is the same, with one look more.
LEMMA TryTyped ==
  ASSUME NEW h \in handlers, Try(h), Typed
  PROVE  handlers' \subseteq Handlers
<1>1. PICK g \in Groups : h \in HandlerOf(g)
  BY DEF Typed, WorkOK, Handlers
<1>2. ASSUME h.tries + 1 < Tries PROVE [h EXCEPT !.tries = @ + 1] \in Handlers
  <2>1. [h EXCEPT !.tries = @ + 1] \in HandlerOf(g)
    BY <1>1, <1>2, MonitorAssumption DEF HandlerOf
  <2> QED
    BY <2>1 DEF Handlers
<1>3. \/ handlers' = handlers \ {h}
      \/ handlers' = (handlers \ {h}) \cup
                    (IF h.tries + 1 < Tries THEN {[h EXCEPT !.tries = @ + 1]} ELSE {})
  BY DEF Try
<1> QED
  BY <1>2, <1>3 DEF Typed, WorkOK

---------------------------------------------------------------------------
(* The steps, by what they change: what the mount shows, what is copied,   *)
(* and what is on record.                                                  *)

\* What the mount shows grows, and is in the cloud.
Grows == \A g \in Groups : mounted[g] \subseteq mounted'[g]

LEMMA ShowsGrows ==
  ASSUME NEW g \in Groups, Shows(g), Typed, UNCHANGED remote
  PROVE  ViewOK' /\ Grows
  BY DEF Shows, Typed, ViewOK, Grows

\* No set is shown, copied or tried again that the mount did not show.
LEMMA ShownKept ==
  ASSUME IInv, Grows,
         \A g \in Groups : /\ Copying(g)' \subseteq Copying(g) \cup {retry[g]}
                           /\ retry'[g] \in Copying(g) \cup {retry[g], {}}
                           /\ copied'[g] \subseteq copied[g] \cup Copying(g)
  PROVE  NewCopies /\ \A g \in Groups : Shown(g)'
<1>1. NewCopies
  BY DEF NewCopies
<1>2. ASSUME NEW g \in Groups PROVE Shown(g)'
  <2>1. Shown(g) /\ mounted[g] \subseteq mounted'[g]
    BY DEF IInv, NoCopyTwice, Grows
  <2>2. \A S \in copied'[g] \cup Copying(g)' \cup {retry'[g]} : S \subseteq mounted[g]
    BY <2>1 DEF Shown
  <2> QED
    BY <2>1, <2>2 DEF Shown
<1> QED
  BY <1>1, <1>2

\* While the mount gains volumes, what it shows has been copied only if nothing
\* was gained, and then it stays on record, or was withdrawn.
LEMMA OnRecordKept ==
  ASSUME IInv, Grows, NEW g \in Groups,
         copied'[g] \subseteq copied[g],
         \A S \in copied'[g] : S \in processed[g] \cup failed[g] \cup {record[g]}
                                 => S \in processed'[g] \cup failed'[g] \cup {record'[g]}
  PROVE  OnRecord(g)'
<1>1. Shown(g) /\ OnRecord(g) /\ mounted[g] \subseteq mounted'[g]
  BY DEF IInv, NoCopyTwice, Grows
<1>2. mounted'[g] \in copied'[g] => mounted'[g] = mounted[g]
  BY <1>1 DEF Shown
<1> QED
  BY <1>1, <1>2 DEF OnRecord

\* The copies and their records change, and nothing is started or recorded.
LEMMA CopiesChange ==
  ASSUME IInv, Grows, UNCHANGED kept, CopiesOK',
         \A g \in Groups : /\ Copying(g)' \subseteq Copying(g) \cup {retry[g]}
                           /\ retry'[g] \in Copying(g) \cup {retry[g], {}}
  PROVE  NoCopyTwice' /\ RecordsOK' /\ NewCopies
<1>1. UNCHANGED <<record, due, extracting, cached, processed, failed, copied>>
  BY DEF kept
<1>2. NewCopies /\ \A g \in Groups : Shown(g)'
  BY <1>1, ShownKept
<1>3. \A g \in Groups : OnRecord(g)'
  BY <1>1, OnRecordKept
<1>4. RecordsOK'
  BY <1>1 DEF IInv, Typed, RecordsOK
<1> QED
  BY <1>2, <1>3, <1>4 DEF NoCopyTwice

LEMMA GrowthKeeps ==
  ASSUME IInv, Grows, UNCHANGED found
  PROVE  NoCopyTwice' /\ CopiesOK' /\ RecordsOK' /\ NewCopies
<1>1. UNCHANGED <<copies, retry, kept>>
  BY DEF found
<1>2. CopiesOK' /\ \A g \in Groups : Copying(g)' = Copying(g)
  BY <1>1 DEF IInv, Typed, CopiesOK, Copying, CopiesOf
<1> QED
  BY <1>1, <1>2, CopiesChange

\* A copy that starts is of its archive, and adds its files to what is copied.
LEMMA CopyStarts ==
  ASSUME CopiesOK, NEW g \in Groups, NEW S \in SUBSET Volumes, NEW resumed \in BOOLEAN,
         copies' = copies \cup {Copy(g, S, resumed)},
         retry' \in [Groups -> SUBSET Volumes]
  PROVE  /\ CopiesOK'
         /\ Copying(g)' \subseteq Copying(g) \cup {S}
         /\ \A a \in Groups \ {g} : Copying(a)' = Copying(a)
<1>1. /\ Copy(g, S, resumed) \in [group : Groups, files : SUBSET Volumes, resumed : BOOLEAN,
                                   locked : BOOLEAN, stopped : BOOLEAN]
      /\ Copy(g, S, resumed).group = g /\ Copy(g, S, resumed).files = S
  BY DEF Copy
<1> DEFINE new == Copy(g, S, resumed)
<1> HIDE DEF new
<1>2. copies' = copies \cup {new} /\ new.group = g /\ new.files = S
  BY <1>1 DEF new
<1>3. CopiesOK'
  BY <1>1, <1>2 DEF CopiesOK, new
<1> QED
  BY <1>2, <1>3 DEF Copying, CopiesOf

\* cacheCloudDrivePaths takes up what the mount shows, which is not a set that
\* has been copied.
LEMMA SubmitKeeps ==
  ASSUME IInv, ViewOK', Grows, UNCHANGED kept, NEW g \in Groups, Submit(g, mounted'[g])
  PROVE  NoCopyTwice' /\ CopiesOK' /\ RecordsOK' /\ NewCopies
<1> DEFINE S == mounted'[g]
<1>0. S \in SUBSET Volumes
  BY DEF ViewOK
<1>1. CASE UNCHANGED <<copies, retry>>
  BY <1>1, GrowthKeeps DEF found
<1>2. CASE ~UNCHANGED <<copies, retry>>
  <2>1. /\ Wanted(g, S)
        /\ HasPending(g, S) => retry[g] = S
        /\ retry' = IF retry[g] = S THEN [retry EXCEPT ![g] = {}] ELSE retry
        /\ copies' = copies \/ copies' = copies \cup {Copy(g, S, FALSE)}
    BY <1>2, Zenon DEF Submit
  <2>2. /\ S \notin processed[g] \cup failed[g]
        /\ S = record[g] => retry[g] = S
    BY <2>1 DEF Wanted, HasPending
  <2>3. S \in copied[g] => S = retry[g]
    <3>1. Shown(g) /\ OnRecord(g) /\ mounted[g] \subseteq S
      BY DEF IInv, NoCopyTwice, Grows
    <3> QED
      BY <2>2, <3>1 DEF Shown, OnRecord
  <2>4. /\ retry' \in [Groups -> SUBSET Volumes]
        /\ \A a \in Groups : retry'[a] \in {retry[a], {}}
    BY <2>1 DEF IInv, Typed, CopiesOK
  <2>5. /\ CopiesOK'
        /\ Copying(g)' \subseteq Copying(g) \cup {S}
        /\ \A a \in Groups \ {g} : Copying(a)' = Copying(a)
    <3>1. CASE copies' = copies
      BY <2>4, <3>1 DEF IInv, Typed, CopiesOK, Copying, CopiesOf
    <3>2. CASE copies' = copies \cup {Copy(g, S, FALSE)}
      <4> HIDE DEF S
      <4> QED
        BY <1>0, <2>4, <3>2, CopyStarts DEF IInv, Typed
    <3> QED
      BY <2>1, <3>1, <3>2
  <2>6. UNCHANGED <<record, due, extracting, cached, processed, failed, copied>>
    BY DEF kept
  <2>7. ASSUME NEW a \in Groups PROVE Shown(a)' /\ OnRecord(a)'
    <3>1. Shown(a) /\ mounted[a] \subseteq mounted'[a]
      BY DEF IInv, NoCopyTwice, Grows
    <3>2. \A T \in copied'[a] \cup Copying(a)' \cup {retry'[a]} : T \subseteq mounted'[a]
      BY <2>4, <2>5, <2>6, <3>1 DEF Shown
    <3>3. OnRecord(a)'
      BY <2>6, OnRecordKept
    <3> QED
      BY <3>2, <3>3 DEF Shown
  <2>8. NewCopies
    BY <2>3, <2>5 DEF NewCopies
  <2>9. RecordsOK'
    BY <2>6 DEF IInv, Typed, RecordsOK
  <2> QED
    BY <2>5, <2>7, <2>8, <2>9 DEF NoCopyTwice
<1> QED
  BY <1>1, <1>2

\* The failed copy is started again, which the mount has shown.
LEMMA ResumeCopyKeeps ==
  ASSUME IInv, Grows, NEW g \in Groups, ResumeCopy(g)
  PROVE  NoCopyTwice' /\ CopiesOK' /\ RecordsOK' /\ NewCopies
<1>1. copies' = copies \cup {Copy(g, retry[g], TRUE)} /\ UNCHANGED <<retry, kept>>
  BY DEF ResumeCopy
<1>2. CopiesOK /\ retry' \in [Groups -> SUBSET Volumes] /\ retry[g] \in SUBSET Volumes
  BY <1>1 DEF IInv, Typed, CopiesOK
<1>3. /\ CopiesOK'
      /\ Copying(g)' \subseteq Copying(g) \cup {retry[g]}
      /\ \A a \in Groups \ {g} : Copying(a)' = Copying(a)
  BY <1>1, <1>2, CopyStarts
<1>4. \A a \in Groups : /\ Copying(a)' \subseteq Copying(a) \cup {retry[a]}
                        /\ retry'[a] \in Copying(a) \cup {retry[a], {}}
  BY <1>1, <1>3
<1> QED
  BY <1>1, <1>3, <1>4, CopiesChange

\* A goroutine that ends leaves the others, with or without their locks.
LEMMA ReleasedLess ==
  ASSUME CopiesOK, NEW c \in copies
  PROVE  /\ \A d \in Released(c) : \E e \in copies : d.group = e.group /\ d.files = e.files
         /\ Released(c) \subseteq [group : Groups, files : SUBSET Volumes, resumed : BOOLEAN,
                                   locked : BOOLEAN, stopped : BOOLEAN]
<1>1. ASSUME NEW e \in copies
      PROVE  /\ [e EXCEPT !.locked = e.locked /\ e.group # c.group].group = e.group
             /\ [e EXCEPT !.locked = e.locked /\ e.group # c.group].files = e.files
             /\ [e EXCEPT !.locked = e.locked /\ e.group # c.group]
                   \in [group : Groups, files : SUBSET Volumes, resumed : BOOLEAN,
                        locked : BOOLEAN, stopped : BOOLEAN]
  BY DEF CopiesOK
<1> QED
  BY <1>1 DEF Released

LEMMA LessCopying ==
  ASSUME \A d \in copies' : d.files = {} \/ \E e \in copies : d.group = e.group /\ d.files = e.files
  PROVE  \A g \in Groups : Copying(g)' \subseteq Copying(g)
  BY DEF Copying, CopiesOf

LEMMA CopyFailsKeeps ==
  ASSUME IInv, Grows, NEW c \in copies, CopyFails(c) \/ ForgetRetry(c)
  PROVE  NoCopyTwice' /\ CopiesOK' /\ RecordsOK' /\ NewCopies
<1>1. CopiesOK /\ c.group \in Groups /\ c.files \in SUBSET Volumes
  BY DEF IInv, Typed, CopiesOK
<1>2. /\ copies' = Released(c) /\ UNCHANGED kept
      /\ \/ UNCHANGED retry
         \/ c.files # {} /\ retry' = [retry EXCEPT ![c.group] = c.files]
         \/ retry' = [retry EXCEPT ![c.group] = {}]
  BY DEF CopyFails, ForgetRetry
<1>3. CopiesOK'
  BY <1>1, <1>2, ReleasedLess DEF CopiesOK
<1>4. \A g \in Groups : Copying(g)' \subseteq Copying(g)
  BY <1>1, <1>2, ReleasedLess, LessCopying
<1>5. c.files # {} => c.files \in Copying(c.group)
  BY DEF Copying, CopiesOf
<1>6. \A g \in Groups : retry'[g] \in Copying(g) \cup {retry[g], {}}
  BY <1>1, <1>2, <1>5 DEF CopiesOK
<1> QED
  BY <1>2, <1>3, <1>4, <1>6, CopiesChange

\* The copied set is on record.  If that replaces what the mount shows, it does
\* not contain it, and that is withdrawn.
LEMMA CopyEndsKeeps ==
  ASSUME IInv, NEW c \in copies, CopyEnds(c)
  PROVE  NoCopyTwice' /\ CopiesOK' /\ RecordsOK' /\ NewCopies
<1> DEFINE g == c.group
           F == c.files
<1>1. CopiesOK /\ g \in Groups /\ F \in SUBSET Volumes /\ F # {}
  BY DEF IInv, Typed, CopiesOK, CopyEnds
<1>2. /\ UNCHANGED <<mounted, retry, extracting, processed, failed>>
      /\ record' = [record EXCEPT ![g] = F]
      /\ cached' = [cached EXCEPT ![g] = @ \cup F]
      /\ due' = [due EXCEPT ![g] = @ \/ g \notin extracting]
      /\ copied' = [copied EXCEPT ![g] =
                       (IF ~(record[g] \subseteq F) THEN @ \ Withdrawn(g) ELSE @) \cup {F}]
      /\ \/ copies' = (copies \ {c}) \cup {[c EXCEPT !.files = {}]}
         \/ copies' = Released(c)
  BY DEF CopyEnds, UnchangedWorld
<1>3. RecordsOK
  BY DEF IInv, Typed
<1>4. RecordsOK'
  <2>1. /\ record' \in [Groups -> SUBSET Volumes]
        /\ cached' \in [Groups -> SUBSET Volumes]
    BY <1>1, <1>2, <1>3 DEF RecordsOK
  <2>2. due' \in [Groups -> BOOLEAN]
    <3>1. (due[g] \/ g \notin extracting) \in BOOLEAN
      BY <1>1, <1>3 DEF RecordsOK
    <3>2. \A b \in BOOLEAN : [due EXCEPT ![g] = b] \in [Groups -> BOOLEAN]
      BY <1>1, <1>3 DEF RecordsOK
    <3> QED
      BY <1>2, <3>1, <3>2
  <2>3. copied' \in [Groups -> SUBSET SUBSET Volumes]
    <3>1. copied[g] \in SUBSET SUBSET Volumes
      BY <1>1, <1>3 DEF RecordsOK
    <3>2. ((IF ~(record[g] \subseteq F) THEN copied[g] \ Withdrawn(g) ELSE copied[g]) \cup {F})
             \in SUBSET SUBSET Volumes
      BY <1>1, <3>1
    <3> QED
      BY <1>1, <1>2, <1>3, <3>2 DEF RecordsOK
  <2> QED
    BY <1>2, <1>3, <2>1, <2>2, <2>3 DEF RecordsOK
<1>5. CopiesOK' /\ \A a \in Groups : Copying(a)' \subseteq Copying(a)
  <2>1. CASE copies' = Released(c)
    BY <1>1, <1>2, <2>1, ReleasedLess, LessCopying DEF CopiesOK
  <2>2. CASE copies' = (copies \ {c}) \cup {[c EXCEPT !.files = {}]}
    <3>1. /\ [c EXCEPT !.files = {}] \in [group : Groups, files : SUBSET Volumes,
                          resumed : BOOLEAN, locked : BOOLEAN, stopped : BOOLEAN]
          /\ [c EXCEPT !.files = {}].files = {}
      BY <1>1 DEF CopiesOK
    <3>2. CopiesOK'
      BY <1>1, <1>2, <2>2, <3>1 DEF CopiesOK
    <3> QED
      BY <2>2, <3>1, <3>2, LessCopying
  <2> QED
    BY <1>2, <2>1, <2>2
<1>6. F \in Copying(g)
  BY <1>1 DEF Copying, CopiesOf
<1>7. \A a \in Groups : copied'[a] \subseteq copied[a] \cup Copying(a)
  BY <1>1, <1>2, <1>3, <1>6 DEF RecordsOK
<1>8. Grows
  BY <1>2 DEF Grows
<1>9. NewCopies /\ \A a \in Groups : Shown(a)'
  <2>1. \A a \in Groups : /\ Copying(a)' \subseteq Copying(a) \cup {retry[a]}
                          /\ retry'[a] \in Copying(a) \cup {retry[a], {}}
    BY <1>2, <1>5
  <2> QED
    BY <1>7, <1>8, <2>1, ShownKept
<1>10. ASSUME NEW a \in Groups PROVE OnRecord(a)'
  <2>1. CASE a = g
    <3>1. /\ record'[g] = F
          /\ copied'[g] = (IF ~(record[g] \subseteq F) THEN copied[g] \ Withdrawn(g)
                           ELSE copied[g]) \cup {F}
      BY <1>1, <1>2, <1>3 DEF RecordsOK
    <3>2. F \subseteq mounted[g] /\ OnRecord(g)
      BY <1>1, <1>6 DEF IInv, NoCopyTwice, Shown
    <3>3. ASSUME mounted[g] \in copied'[g], mounted[g] # F,
                 mounted[g] \notin processed[g] \cup failed[g]
          PROVE  FALSE
      <4>1. mounted[g] \in copied[g]
        BY <3>1, <3>3
      <4>2. record[g] = mounted[g]
        BY <3>2, <3>3, <4>1 DEF OnRecord
      <4>3. ~(record[g] \subseteq F)
        BY <3>2, <3>3, <4>2
      <4>4. mounted[g] \in Withdrawn(g)
        BY <3>3, <4>2 DEF Withdrawn
      <4> QED
        BY <3>1, <3>3, <4>3, <4>4
    <3>4. mounted'[g] = mounted[g] /\ processed' = processed /\ failed' = failed
      BY <1>2
    <3> QED
      BY <2>1, <3>1, <3>3, <3>4 DEF OnRecord
  <2>2. CASE a # g
    <3>1. copied'[a] = copied[a] /\ record'[a] = record[a]
      BY <1>1, <1>2, <1>3, <2>2 DEF RecordsOK
    <3> QED
      BY <1>2, <1>8, <3>1, OnRecordKept
  <2> QED
    BY <2>1, <2>2
<1> QED
  BY <1>4, <1>5, <1>9, <1>10 DEF NoCopyTwice

\* Neither an extraction nor its end copies anything; the end moves the set on
\* record to those that are processed, or adds it to those that have failed.
LEMMA ExtractKeeps ==
  ASSUME IInv, NEW g \in Groups, Extract(g) \/ ExtractEnds(g)
  PROVE  NoCopyTwice' /\ CopiesOK' /\ RecordsOK' /\ NewCopies
<1>1. RecordsOK /\ CopiesOK
  BY DEF IInv, Typed
<1>2. UNCHANGED <<mounted, copies, retry, cached, copied>>
  BY DEF Extract, ExtractEnds, UnchangedWorld
<1>3. \/ UNCHANGED <<record, processed, failed>>
      \/ /\ processed' = [processed EXCEPT ![g] = @ \cup {record[g]}]
         /\ record' = [record EXCEPT ![g] = {}]
         /\ UNCHANGED failed
      \/ /\ failed' = [failed EXCEPT ![g] = @ \cup {record[g]}]
         /\ UNCHANGED <<processed, record>>
  BY DEF Extract, ExtractEnds
<1>4. /\ due' \in [Groups -> BOOLEAN]
      /\ extracting' \subseteq Groups
  BY <1>1 DEF Extract, ExtractEnds, RecordsOK
<1>5. RecordsOK' /\ CopiesOK'
  BY <1>1, <1>2, <1>3, <1>4 DEF RecordsOK, CopiesOK
<1>6. Grows /\ \A a \in Groups : Copying(a)' = Copying(a)
  BY <1>2 DEF Grows, Copying, CopiesOf
<1>7. NewCopies /\ \A a \in Groups : Shown(a)'
  BY <1>2, <1>6, ShownKept
<1>8. ASSUME NEW a \in Groups PROVE OnRecord(a)'
  <2>1. processed[a] \cup failed[a] \cup {record[a]}
            \subseteq processed'[a] \cup failed'[a] \cup {record'[a]}
    BY <1>1, <1>3 DEF RecordsOK
  <2> QED
    BY <1>2, <1>6, <2>1, OnRecordKept
<1> QED
  BY <1>5, <1>7, <1>8 DEF NoCopyTwice

\* stop_clear withdraws what it takes off the record.
LEMMA StopClearKeeps ==
  ASSUME IInv, StopClear
  PROVE  NoCopyTwice' /\ CopiesOK' /\ RecordsOK' /\ NewCopies
<1> DEFINE cleared == {g \in Groups \ extracting : record[g] # {}}
<1>1. RecordsOK /\ CopiesOK
  BY DEF IInv, Typed
<1>2. /\ UNCHANGED <<mounted, extracting, processed, failed>>
      /\ copies' = {[c EXCEPT !.locked = FALSE, !.stopped = TRUE] : c \in copies}
      /\ retry' = [g \in Groups |-> {}]
      /\ due' = [g \in Groups |-> FALSE]
  BY DEF StopClear
<1>3. /\ record' = [g \in Groups |-> IF g \in cleared THEN {} ELSE record[g]]
      /\ cached' = [g \in Groups |-> cached[g] \ (IF g \in cleared THEN {Primary(g)} ELSE {})]
      /\ copied' = [g \in Groups |-> copied[g] \ (IF g \in cleared THEN Withdrawn(g) ELSE {})]
  BY DEF StopClear
<1> HIDE DEF cleared
<1>4. RecordsOK'
  <2>1. record' \in [Groups -> SUBSET Volumes] /\ due' \in [Groups -> BOOLEAN]
    BY <1>1, <1>2, <1>3 DEF RecordsOK
  <2>2. cached' \in [Groups -> SUBSET Volumes]
    BY <1>1, <1>3 DEF RecordsOK
  <2>3. copied' \in [Groups -> SUBSET SUBSET Volumes]
    BY <1>1, <1>3 DEF RecordsOK
  <2> QED
    BY <1>1, <1>2, <2>1, <2>2, <2>3 DEF RecordsOK
<1>5. CopiesOK' /\ \A a \in Groups : Copying(a)' \subseteq Copying(a)
  <2>1. ASSUME NEW c \in copies
        PROVE  /\ [c EXCEPT !.locked = FALSE, !.stopped = TRUE] \in
                    [group : Groups, files : SUBSET Volumes, resumed : BOOLEAN,
                     locked : BOOLEAN, stopped : BOOLEAN]
               /\ [c EXCEPT !.locked = FALSE, !.stopped = TRUE].group = c.group
               /\ [c EXCEPT !.locked = FALSE, !.stopped = TRUE].files = c.files
    BY <1>1 DEF CopiesOK
  <2>2. CopiesOK'
    BY <1>2, <2>1 DEF CopiesOK
  <2> QED
    BY <1>2, <2>1, <2>2, LessCopying
<1>6. Grows
  BY <1>2 DEF Grows
<1>7. \A a \in Groups : copied'[a] \subseteq copied[a]
  BY <1>3
<1>8. NewCopies /\ \A a \in Groups : Shown(a)'
  <2>1. \A a \in Groups : retry'[a] = {}
    BY <1>2
  <2> QED
    BY <1>5, <1>6, <1>7, <2>1, ShownKept
<1>9. ASSUME NEW a \in Groups PROVE OnRecord(a)'
  <2>1. CASE a \in cleared
    <3>1. copied'[a] = copied[a] \ Withdrawn(a)
      BY <1>3, <2>1
    <3>2. \A S \in copied'[a] : S = record[a] => S \in processed[a] \cup failed[a]
      BY <3>1 DEF Withdrawn
    <3> QED
      BY <1>2, <1>6, <1>7, <3>2, OnRecordKept
  <2>2. CASE a \notin cleared
    <3>1. record'[a] = record[a]
      BY <1>3, <2>2
    <3> QED
      BY <1>2, <1>6, <1>7, <3>1, OnRecordKept
  <2> QED
    BY <2>1, <2>2
<1> QED
  BY <1>4, <1>5, <1>8, <1>9 DEF NoCopyTwice

LEMMA CrashKeeps ==
  ASSUME IInv, Crash
  PROVE  NoCopyTwice' /\ CopiesOK' /\ RecordsOK' /\ NewCopies
<1>1. RecordsOK /\ CopiesOK
  BY DEF IInv, Typed
<1>2. /\ UNCHANGED <<mounted, retry, record, cached, processed, failed, copied>>
      /\ copies' = {} /\ extracting' = {}
      /\ due' = [g \in Groups |-> record[g] # {} /\ record[g] \notin failed[g]]
  BY DEF Crash
<1>3. RecordsOK' /\ CopiesOK'
  BY <1>1, <1>2 DEF RecordsOK, CopiesOK
<1>4. Grows /\ \A a \in Groups : Copying(a)' = {}
  BY <1>2 DEF Grows, Copying, CopiesOf
<1>5. NewCopies /\ \A a \in Groups : Shown(a)'
  BY <1>2, <1>4, ShownKept
<1>6. \A a \in Groups : OnRecord(a)'
  BY <1>2, <1>4, OnRecordKept
<1> QED
  BY <1>3, <1>5, <1>6 DEF NoCopyTwice

---------------------------------------------------------------------------
(* Every step.                                                             *)

LEMMA ViewLinkWork ==
  ASSUME Typed, [Next]_vars
  PROVE  ViewOK' /\ Grows /\ LinkOK' /\ WorkOK'
<1> USE DEF Typed
<1>1. CASE \E g \in Groups, v \in Volumes : Upload(g, v)
  <2>1. PICK g \in Groups, v \in Volumes : Upload(g, v)
    BY <1>1
  <2>2. ViewOK' /\ Grows
    BY <2>1 DEF Upload, ViewOK, Grows
  <2>3. LinkOK'
    <3>1. Append(pushed, <<g, v>>) \in Seq(Groups \X Volumes)
      BY DEF LinkOK
    <3>2. \/ stream = "up" /\ pushed' = Append(pushed, <<g, v>>)
          \/ UNCHANGED pushed
      BY <2>1 DEF Upload
    <3> QED
      BY <2>1, <3>1, <3>2 DEF Upload, LinkOK
  <2> QED
    BY <2>1, <2>2, <2>3 DEF Upload, WorkOK
<1>2. CASE \E g \in Groups : FallbackScan(g)
  BY <1>2 DEF FallbackScan, link, ViewOK, Grows, LinkOK, WorkOK
<1>3. CASE \E g \in Groups : RefreshLoop(g)
  <2>1. PICK g \in Groups : RefreshLoop(g)
    BY <1>3
  <2> QED
    BY <2>1, ShowsGrows DEF RefreshLoop, link, LinkOK, WorkOK
<1>4. CASE \/ \E g \in Groups : ResumeCopy(g) \/ Extract(g) \/ ExtractEnds(g)
           \/ \E c \in copies : CopyEnds(c) \/ ForgetRetry(c) \/ CopyFails(c)
  <2>1. UnchangedWorld /\ (UNCHANGED faults \/ Fault)
    BY <1>4 DEF ResumeCopy, Extract, ExtractEnds, CopyEnds, ForgetRetry, CopyFails
  <2> QED
    BY <2>1, FaultTyped DEF UnchangedWorld, link, ViewOK, Grows, LinkOK, WorkOK
<1>5. CASE Connect
  BY <1>5 DEF Connect, ViewOK, Grows, LinkOK, WorkOK
<1>6. CASE Disconnect
  BY <1>6, BreaksTyped DEF Disconnect, ViewOK, Grows, WorkOK
<1>7. CASE Receive
  BY <1>7, ReceiveTyped DEF Receive, ViewOK, Grows
<1>8. CASE \E h \in handlers : Try(h)
  <2>1. PICK h \in handlers : Try(h)
    BY <1>8
  <2>2. /\ Shows(h.group) \/ UNCHANGED mounted
        /\ UNCHANGED <<remote, link, scanning, paused, faults>>
    BY <2>1 DEF Try
  <2>3. h.group \in Groups
    BY DEF WorkOK, Handlers, HandlerOf
  <2>4. ViewOK' /\ Grows
    BY <2>2, <2>3, ShowsGrows DEF ViewOK, Grows
  <2> QED
    BY <2>1, <2>2, <2>4, TryTyped DEF LinkOK, WorkOK, link
<1>9. CASE StopClear
  BY <1>9, FaultTyped DEF StopClear, link, ViewOK, Grows, LinkOK, WorkOK
<1>10. CASE ResumeDiscovery
  BY <1>10 DEF ResumeDiscovery, link, ViewOK, Grows, LinkOK, WorkOK
<1>11. CASE Crash
  <2>1. ViewOK' /\ Grows
    BY <1>11 DEF Crash, ViewOK, Grows
  <2>2. LinkOK'
    BY <1>11, MonitorAssumption DEF Crash, LinkOK
  <2>3. WorkOK'
    BY <1>11, FaultTyped DEF Crash, WorkOK
  <2> QED
    BY <2>1, <2>2, <2>3
<1>12. CASE UNCHANGED vars
  BY <1>12 DEF vars, link, ViewOK, Grows, LinkOK, WorkOK
<1> QED
  BY <1>1, <1>2, <1>3, <1>4, <1>5, <1>6, <1>7, <1>8, <1>9, <1>10, <1>11, <1>12 DEF Next

LEMMA NextIInv == ASSUME IInv, [Next]_vars PROVE IInv' /\ NewCopies
<1>1. ViewOK' /\ Grows /\ LinkOK' /\ WorkOK'
  BY ViewLinkWork DEF IInv
<1>2. CopiesOK' /\ RecordsOK' /\ NoCopyTwice' /\ NewCopies
  <2>1. CASE UNCHANGED found
    BY <1>1, <2>1, GrowthKeeps
  <2>2. CASE \E g \in Groups : FallbackScan(g)
    <3>1. PICK g \in Groups : FallbackScan(g)
      BY <2>2
    <3>2. Submit(g, mounted'[g]) /\ UNCHANGED kept
      BY <3>1 DEF FallbackScan
    <3> QED
      BY <1>1, <3>2, SubmitKeeps
  <2>3. CASE \E h \in handlers : Try(h)
    <3>1. PICK h \in handlers : Try(h)
      BY <2>3
    <3>2. h.group \in Groups
      BY DEF IInv, Typed, WorkOK, Handlers, HandlerOf
    <3>3. /\ Submit(h.group, mounted'[h.group]) \/ UNCHANGED <<copies, retry>>
          /\ UNCHANGED kept
      BY <3>1 DEF Try
    <3> QED
      BY <1>1, <3>2, <3>3, SubmitKeeps, GrowthKeeps DEF found
  <2>4. CASE \E g \in Groups : ResumeCopy(g)
    BY <1>1, <2>4, ResumeCopyKeeps
  <2>5. CASE \E c \in copies : CopyEnds(c)
    BY <2>5, CopyEndsKeeps
  <2>6. CASE \E c \in copies : ForgetRetry(c) \/ CopyFails(c)
    BY <1>1, <2>6, CopyFailsKeeps
  <2>7. CASE \E g \in Groups : Extract(g) \/ ExtractEnds(g)
    BY <2>7, ExtractKeeps
  <2>8. CASE StopClear
    BY <2>8, StopClearKeeps
  <2>9. CASE Crash
    BY <2>9, CrashKeeps
  <2> QED
    BY <2>1, <2>2, <2>3, <2>4, <2>5, <2>6, <2>7, <2>8, <2>9
    DEF Next, vars, Upload, RefreshLoop, Connect, Disconnect, Receive, ResumeDiscovery
<1> QED
  BY <1>1, <1>2 DEF IInv, Typed

LEMMA InvariantAlways == Spec => []IInv
<1>1. IInv /\ [Next]_vars => IInv'
  BY NextIInv
<1> QED
  BY <1>1, InitIInv, PTL DEF Spec

\* The monitor's variables have their types: its delay stays between the limits
\* of Monitor.Run, and the mount shows what is in the cloud.
THEOREM TypeCorrect == Spec => []TypeOK
<1>1. IInv => TypeOK
  BY DEF IInv, Typed, ViewOK, LinkOK, WorkOK, CopiesOK, RecordsOK, Handlers, HandlerOf, TypeOK
<1> QED
  BY <1>1, InvariantAlways, PTL

\* The same volumes of an archive are never copied again, whoever reports them,
\* how late, and how often the program is stopped, resumed and restarted, unless
\* their record was withdrawn or a failed copy of them is on record.
THEOREM CopiedOnceAlways == Spec => CopiedOnce
<1>1. IInv /\ [Next]_vars => [NewCopies]_vars
  BY NextIInv
<1>2. [NewCopies]_vars <=>
      [\A g \in Groups : \A S \in Copying(g)' \ Copying(g) :
          S \in copied[g] => S = retry[g]]_vars
  BY DEF NewCopies
<1> QED
  BY <1>1, <1>2, InvariantAlways, PTL DEF Spec, CopiedOnce

===============================================================================
