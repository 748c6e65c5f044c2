------------------------ MODULE FolderPipelineProofs ------------------------
(***************************************************************************)
(* The pipeline of a watched folder is well formed, and no source is       *)
(* deleted or archived at a path nothing was extracted from, for any       *)
(* archives, workers, sizes and numbers of retries, and for any            *)
(* interleaving of users, other programs and crashes.                      *)
(***************************************************************************)
EXTENDS FolderPipeline, TLAPS

(***************************************************************************)
(* TypeOK by the groups of variables the actions change.                   *)
(***************************************************************************)
FailureRecord == [key : Keys, path : Archives, stage : Stages]
SuccessRecord == [key : Identities, path : Archives]
RuleRecord == [name : Names, size : Sizes \cup {NoSize}, path : Archives]
Message == [path : Archives, done : BOOLEAN, size : Sizes \cup {NoSize},
            result : {"start", "nothing", "ok", "error"}]
DeleteRequest == [path : Archives, key : Keys, removed : BOOLEAN]
Job == [worker : Workers, path : Archives, size : Sizes]

\* One record for each key.
Unique(f) == \A r, q \in f : r.key = q.key => r = q

DurableOK ==
    /\ paused \in BOOLEAN
    /\ processed \subseteq SuccessRecord /\ Unique(processed)
    /\ failed \subseteq FailureRecord /\ Unique(failed)
    /\ ignored \subseteq RuleRecord

OwnedOK ==
    /\ map \in [Archives -> Statuses]
    /\ tracked \in [Archives -> Statuses]
    /\ retries \in [Archives -> Nat]

ChannelsOK ==
    /\ events \in Seq(Archives)
    /\ queue \in Seq(Archives)
    /\ running \subseteq Job
    /\ \A i, j \in running : i.worker = j.worker => i = j
    /\ updates \in Seq(Message)
    /\ scanning \subseteq Archives

CleanupOK ==
    /\ cleaning \subseteq Keys
    /\ deletes \in Seq(DeleteRequest)
    /\ source \in [Archives -> Sizes \cup {NoSize}]
    /\ removed \subseteq Archives \X Sizes

GhostsOK ==
    /\ extracted \subseteq Archives \X Sizes
    /\ credit \in [Archives -> Int]
    /\ refused \subseteq Archives
    /\ loosed \subseteq Archives

LEMMA TypeParts ==
  TypeOK <=> /\ DurableOK /\ OwnedOK /\ cancelled \subseteq Archives /\ ChannelsOK
             /\ CleanupOK /\ GhostsOK /\ world \in Nat
  BY DEF TypeOK, DurableOK, OwnedOK, ChannelsOK, CleanupOK, GhostsOK, Unique,
         FailureRecord, SuccessRecord, RuleRecord, Message, DeleteRequest, Job

LEMMA NextTypeParts ==
  TypeOK' <=> /\ DurableOK' /\ OwnedOK' /\ cancelled' \subseteq Archives /\ ChannelsOK'
              /\ CleanupOK' /\ GhostsOK' /\ world' \in Nat
  BY DEF TypeOK, DurableOK, OwnedOK, ChannelsOK, CleanupOK, GhostsOK, Unique,
         FailureRecord, SuccessRecord, RuleRecord, Message, DeleteRequest, Job

\* A successful answer names the size it extracted: what TypeOK needs to be
\* inductive.
AnswersSized ==
    \A i \in DOMAIN updates : updates[i].result = "ok" => updates[i].size \in Sizes

LEMMA VersionType ==
  ASSUME NEW a \in Archives, CleanupOK
  PROVE  /\ Present(a) => source[a] \in Sizes /\ Version(a) \in Identities
         /\ RecordKey(a) \in Keys
         /\ CancelKey(a) \in Keys
<1>1. Present(a) => source[a] \in Sizes
  BY DEF CleanupOK, Present
<1>2. Present(a) => Version(a) \in Identities
  BY <1>1, PipelineAssumption DEF Version, Identities
<1> QED
  BY <1>1, <1>2 DEF RecordKey, CancelKey, Keys

LEMMA MarkFailedType ==
  ASSUME NEW f, f \subseteq FailureRecord, Unique(f), NEW rec \in FailureRecord
  PROVE  MarkFailed(f, rec) \subseteq FailureRecord /\ Unique(MarkFailed(f, rec))
  BY DEF MarkFailed, Unique

LEMMA ClearFailedType ==
  ASSUME NEW f, f \subseteq FailureRecord, Unique(f), NEW key
  PROVE  ClearFailed(f, key) \subseteq FailureRecord /\ Unique(ClearFailed(f, key))
  BY DEF ClearFailed, Unique

LEMMA MarkProcessedType ==
  ASSUME NEW p, p \subseteq SuccessRecord, Unique(p), NEW rec \in SuccessRecord
  PROVE  MarkProcessed(p, rec) \subseteq SuccessRecord /\ Unique(MarkProcessed(p, rec))
  BY DEF MarkProcessed, Unique

LEMMA DeleteProcessedType ==
  ASSUME NEW p, p \subseteq SuccessRecord, Unique(p), NEW key
  PROVE  DeleteProcessed(p, key) \subseteq SuccessRecord /\ Unique(DeleteProcessed(p, key))
  BY DEF DeleteProcessed, Unique

LEMMA InitType == Init => TypeOK /\ AnswersSized
<1> SUFFICES ASSUME Init PROVE TypeOK /\ AnswersSized
  OBVIOUS
<1>1. DurableOK /\ OwnedOK
  BY DEF Init, DurableOK, OwnedOK, Unique, Statuses
<1>4. ChannelsOK
  BY DEF Init, ChannelsOK
<1>2. CleanupOK /\ GhostsOK /\ cancelled \subseteq Archives /\ world \in Nat
  BY DEF Init, CleanupOK, GhostsOK
<1>3. AnswersSized
  BY DEF Init, AnswersSized
<1> QED
  BY <1>1, <1>2, <1>3, <1>4, TypeParts

-----------------------------------------------------------------------------
(***************************************************************************)
(* Types, action by action.                                                *)
(***************************************************************************)
TypeInv == TypeOK /\ AnswersSized

\* A step that leaves the messages of the workers alone.
LEMMA SameAnswers ==
  ASSUME AnswersSized, updates' = updates
  PROVE  AnswersSized'
  BY DEF AnswersSized

LEMMA DurableSame ==
  ASSUME DurableOK, UNCHANGED durable
  PROVE  DurableOK'
  BY DEF DurableOK, durable

LEMMA OwnedSame ==
  ASSUME OwnedOK, UNCHANGED owned
  PROVE  OwnedOK'
  BY DEF OwnedOK, owned

LEMMA ChannelsSame ==
  ASSUME ChannelsOK, UNCHANGED channels
  PROVE  ChannelsOK' /\ updates' = updates
  BY DEF ChannelsOK, channels

LEMMA CleanupSame ==
  ASSUME CleanupOK, UNCHANGED cleanup
  PROVE  CleanupOK'
  BY DEF CleanupOK, cleanup

LEMMA GhostsSame ==
  ASSUME GhostsOK, UNCHANGED ghosts
  PROVE  GhostsOK'
  BY DEF GhostsOK, ghosts

LEMMA ScanType ==
  ASSUME TypeInv, NEW a \in Archives, Scan(a)
  PROVE  TypeInv'
<1>1. ChannelsOK' /\ AnswersSized'
  BY TypeParts DEF TypeInv, Scan, ChannelsOK, AnswersSized
<1> QED
  BY <1>1, TypeParts, NextTypeParts, DurableSame, OwnedSame, CleanupSame, GhostsSame DEF TypeInv, Scan

LEMMA ProcessEventType ==
  ASSUME TypeInv, ProcessEvent
  PROVE  TypeInv'
<1>1. NextEvent /\ events \in Seq(Archives) /\ events # <<>>
  BY TypeParts DEF ProcessEvent, DropEvent, UntrackVanished, TrackArrival, NextEvent,
                   TypeInv, ChannelsOK
<1>2. Head(events) \in Archives /\ events' \in Seq(Archives)
  BY <1>1 DEF NextEvent
<1>3. ChannelsOK' /\ AnswersSized'
  BY <1>1, <1>2, TypeParts DEF TypeInv, NextEvent, ChannelsOK, AnswersSized
<1>4. OwnedOK'
  <2>1. CASE DropEvent
    BY <2>1, TypeParts, OwnedSame DEF DropEvent, TypeInv
  <2>2. CASE UntrackVanished
    <3> DEFINE a == Head(events)
    <3>1. OwnedOK /\ a \in Archives
      BY <1>2, TypeParts DEF TypeInv
    <3>2. /\ tracked' = [tracked EXCEPT ![a] = "ABSENT"]
          /\ map' = map /\ retries' = retries
      BY <2>2 DEF UntrackVanished
    <3> HIDE DEF a
    <3> QED
      BY <3>1, <3>2 DEF OwnedOK, Statuses
  <2>3. CASE TrackArrival
    <3> DEFINE a == Head(events)
    <3>1. OwnedOK /\ a \in Archives
      BY <1>2, TypeParts DEF TypeInv
    <3>2. /\ map' = map
          /\ \/ /\ tracked' = [tracked EXCEPT ![a] = "WAITING"]
                /\ retries' = [retries EXCEPT ![a] = 0]
             \/ tracked' = tracked /\ retries' = retries
      BY <2>3 DEF TrackArrival
    <3> HIDE DEF a
    <3> QED
      BY <3>1, <3>2 DEF OwnedOK, Statuses
  <2> QED
    BY <2>1, <2>2, <2>3 DEF ProcessEvent
<1> QED
  BY <1>1, <1>3, <1>4, TypeParts, NextTypeParts, DurableSame, CleanupSame, GhostsSame
     DEF TypeInv, NextEvent

LEMMA QueueDeleteType ==
  ASSUME CleanupOK, NEW a \in Archives, NEW key \in Keys, QueueDelete(a, key)
  PROVE  cleaning' \subseteq Keys /\ deletes' \in Seq(DeleteRequest)
<1>1. [path |-> a, key |-> key, removed |-> FALSE] \in DeleteRequest
  BY DEF DeleteRequest
<1> QED
  BY <1>1 DEF QueueDelete, CleanupOK

LEMMA DeleteAfterReachedType ==
  ASSUME TypeOK, NEW a \in Archives, NEW m \in [Archives -> Statuses],
         NEW f, f \subseteq FailureRecord, Unique(f), DeleteAfterReached(a, m, f)
  PROVE  /\ map' \in [Archives -> Statuses]
         /\ tracked' \in [Archives -> Statuses]
         /\ failed' \subseteq FailureRecord /\ Unique(failed')
         /\ CleanupOK'
<1> USE TypeParts
<1>1. RecordKey(a) \in Keys /\ (Present(a) => source[a] \in Sizes)
  BY VersionType
<1>2. CASE ArchiveFails(a, m, f)
  <2>1. [key |-> RecordKey(a), path |-> a, stage |-> "cleanup"] \in FailureRecord
    BY <1>1 DEF FailureRecord, Stages
  <2>2. failed' \subseteq FailureRecord /\ Unique(failed')
    BY <1>2, <2>1, MarkFailedType DEF ArchiveFails
  <2>3. map' \in [Archives -> Statuses] /\ tracked' \in [Archives -> Statuses]
    BY <1>2 DEF ArchiveFails, OwnedOK, Statuses
  <2>4. CleanupOK'
    BY <1>2 DEF ArchiveFails, CleanupOK
  <2> QED
    BY <2>2, <2>3, <2>4
<1>3. ASSUME CleanedUp(a, m)
      PROVE  map' \in [Archives -> Statuses] /\ tracked' \in [Archives -> Statuses]
  BY <1>3 DEF CleanedUp, OwnedOK, Statuses
<1>4. CASE Archive(a, m, f)
  <2>1. CleanupOK'
    BY <1>1, <1>4 DEF Archive, CleanupOK
  <2> QED
    BY <1>3, <1>4, <2>1 DEF Archive
<1>5. CASE Delete(a, m, f)
  <2>1. CleanupOK'
    BY <1>1, <1>5, QueueDeleteType DEF Delete, CleanupOK
  <2> QED
    BY <1>3, <1>5, <2>1 DEF Delete
<1>6. CASE Keep(a, m, f)
  BY <1>3, <1>6 DEF Keep, CleanupOK
<1> QED
  BY <1>2, <1>4, <1>5, <1>6 DEF DeleteAfterReached

LEMMA CheckFolderType ==
  ASSUME TypeInv, NEW a \in Archives, CheckFolder(a)
  PROVE  TypeInv'
<1> USE TypeParts, NextTypeParts
<1>1. DurableOK /\ OwnedOK /\ ChannelsOK /\ CleanupOK /\ GhostsOK
  BY DEF TypeInv
<1>2. CASE ExtractTracked(a)
  <2>1. OwnedOK' /\ ChannelsOK' /\ updates' = updates
    <3>1. CASE a \in Redundant
      BY <1>1, <1>2, <3>1 DEF ExtractTracked, OwnedOK, ChannelsOK, Statuses
    <3>2. CASE a \notin Redundant
      <4>1. Submit(a) /\ UNCHANGED <<retries, events, running, updates, scanning>>
        BY <1>2, <3>2 DEF ExtractTracked
      <4>2. OwnedOK'
        BY <1>1, <4>1 DEF Submit, OwnedOK, Statuses
      <4>3. ChannelsOK'
        BY <1>1, <4>1 DEF Submit, ChannelsOK
      <4> QED
        BY <4>1, <4>2, <4>3
    <3> QED
      BY <3>1, <3>2
  <2> QED
    BY <1>1, <1>2, <2>1, DurableSame, CleanupSame, GhostsSame, SameAnswers
       DEF ExtractTracked, TypeInv
<1>3. ASSUME OwnedOK', UNCHANGED <<durable, cancelled, channels, cleanup, ghosts, world>>
      PROVE  TypeInv'
  <2>1. UNCHANGED durable /\ UNCHANGED channels /\ UNCHANGED cleanup /\ UNCHANGED ghosts
    BY <1>3
  <2> QED
    BY <1>1, <1>3, <2>1, DurableSame, ChannelsSame, CleanupSame, GhostsSame, SameAnswers
       DEF TypeInv
<1>4. CASE ForgetNothing(a)
  <2>1. OwnedOK'
    BY <1>1, <1>4 DEF ForgetNothing, Forget, OwnedOK, Statuses
  <2> QED
    BY <1>3, <1>4, <2>1 DEF ForgetNothing
<1>5. CASE RetryFailed(a)
  <2>1. OwnedOK'
    BY <1>1, <1>5 DEF RetryFailed, OwnedOK, Statuses
  <2> QED
    BY <1>3, <1>5, <2>1 DEF RetryFailed
<1>6. CASE GiveUp(a)
  <2>1. OwnedOK'
    BY <1>1, <1>6 DEF GiveUp, Forget, OwnedOK, Statuses
  <2> QED
    BY <1>3, <1>6, <2>1 DEF GiveUp
<1>7. CASE ExpireDeleted(a)
  <2>1. OwnedOK'
    BY <1>1, <1>7 DEF ExpireDeleted, OwnedOK, Statuses
  <2> QED
    BY <1>3, <1>7, <2>1 DEF ExpireDeleted
<1>8. CASE CleanFolder(a)
  <2>1. /\ map' \in [Archives -> Statuses] /\ tracked' \in [Archives -> Statuses]
        /\ failed' \subseteq FailureRecord /\ Unique(failed')
        /\ CleanupOK'
    BY <1>1, <1>8, DeleteAfterReachedType DEF CleanFolder, TypeInv, DurableOK, OwnedOK
  <2>2. DurableOK' /\ OwnedOK'
    BY <1>1, <1>8, <2>1 DEF CleanFolder, DurableOK, OwnedOK
  <2> QED
    BY <1>1, <1>8, <2>1, <2>2, ChannelsSame, GhostsSame, SameAnswers
       DEF CleanFolder, TypeInv
<1> QED
  BY <1>2, <1>4, <1>5, <1>6, <1>7, <1>8 DEF CheckFolder

LEMMA WorkType ==
  ASSUME TypeInv, NEW w \in Workers, Work(w)
  PROVE  TypeInv'
<1> USE TypeParts, NextTypeParts
<1>1. DurableOK /\ OwnedOK /\ ChannelsOK /\ CleanupOK /\ GhostsOK
  BY DEF TypeInv
<1>2. ASSUME ChannelsOK', AnswersSized', UNCHANGED <<durable, owned, cancelled, cleanup, ghosts, world>>
      PROVE  TypeInv'
  <2>1. UNCHANGED durable /\ UNCHANGED owned /\ UNCHANGED cleanup /\ UNCHANGED ghosts
    BY <1>2
  <2> QED
    BY <1>1, <1>2, <2>1, DurableSame, OwnedSame, CleanupSame, GhostsSame DEF TypeInv
<1>3. ASSUME NEW resp \in Message, updates' = Append(updates, resp),
             resp.result = "ok" => resp.size \in Sizes
      PROVE  updates' \in Seq(Message) /\ AnswersSized'
  <2>1. updates \in Seq(Message)
    BY <1>1 DEF ChannelsOK
  <2>2. ASSUME NEW i \in DOMAIN updates', updates'[i].result = "ok"
        PROVE  updates'[i].size \in Sizes
    BY <1>3, <2>1, <2>2 DEF TypeInv, AnswersSized
  <2> QED
    BY <1>3, <2>1, <2>2 DEF AnswersSized
<1>4. ASSUME TakeJob(w)
      PROVE  Head(queue) \in Archives /\ queue' \in Seq(Archives)
  BY <1>1, <1>4 DEF TakeJob, ChannelsOK
<1>5. CASE StartJob(w)
  <2> DEFINE a == Head(queue)
  <2>1. /\ TakeJob(w) /\ Present(a)
        /\ running' = running \cup {[worker |-> w, path |-> a, size |-> source[a]]}
        /\ updates' = Append(updates, Response(a, FALSE, "start", source[a]))
    BY <1>5 DEF StartJob
  <2>2. a \in Archives /\ source[a] \in Sizes /\ queue' \in Seq(Archives)
    BY <1>1, <1>4, <2>1, VersionType
  <2> HIDE DEF a
  <2>3. Response(a, FALSE, "start", source[a]) \in Message
        /\ Response(a, FALSE, "start", source[a]).result # "ok"
    BY <2>2 DEF Response, Message
  <2>4. updates' \in Seq(Message) /\ AnswersSized'
    BY <1>3, <2>1, <2>3
  <2>5. /\ running' \subseteq Job
        /\ \A i, j \in running' : i.worker = j.worker => i = j
    BY <1>1, <2>1, <2>2 DEF TakeJob, Idle, ChannelsOK, Job
  <2>6. ChannelsOK'
    BY <1>1, <2>1, <2>2, <2>4, <2>5 DEF TakeJob, ChannelsOK
  <2> QED
    BY <1>2, <2>1, <2>4, <2>6 DEF TakeJob
<1>6. CASE FindNothing(w)
  <2>1. /\ TakeJob(w) /\ running' = running
        /\ updates' = Append(updates, Response(Head(queue), TRUE, "nothing", NoSize))
    BY <1>6 DEF FindNothing
  <2>2. Head(queue) \in Archives /\ queue' \in Seq(Archives)
    BY <1>4, <2>1
  <2>3. Response(Head(queue), TRUE, "nothing", NoSize) \in Message
        /\ Response(Head(queue), TRUE, "nothing", NoSize).result # "ok"
    BY <2>2 DEF Response, Message
  <2>4. updates' \in Seq(Message) /\ AnswersSized'
    BY <1>3, <2>1, <2>3
  <2>5. ChannelsOK'
    BY <1>1, <2>1, <2>2, <2>4 DEF TakeJob, ChannelsOK
  <2> QED
    BY <1>2, <2>1, <2>4, <2>5 DEF TakeJob
<1>7. ASSUME NEW result \in {"ok", "error"}, FinishJob(w, result)
      PROVE  TypeInv'
  <2>1. PICK j \in running :
          /\ running' = running \ {j}
          /\ updates' = Append(updates, Response(j.path, TRUE, result, j.size))
          /\ UNCHANGED <<durable, owned, cancelled, events, queue, scanning, cleanup,
                         ghosts, world>>
    BY <1>7 DEF FinishJob
  <2>2. j.path \in Archives /\ j.size \in Sizes
    BY <1>1 DEF ChannelsOK, Job
  <2>3. Response(j.path, TRUE, result, j.size) \in Message
        /\ Response(j.path, TRUE, result, j.size).size \in Sizes
    BY <2>2 DEF Response, Message
  <2>4. updates' \in Seq(Message) /\ AnswersSized'
    BY <1>3, <2>1, <2>3
  <2>5. ChannelsOK'
    BY <1>1, <2>1, <2>4 DEF ChannelsOK
  <2> QED
    BY <1>2, <2>1, <2>4, <2>5
<1> QED
  BY <1>5, <1>6, <1>7 DEF Work

LEMMA AnswerTypes ==
  ASSUME TypeInv, NEW resp, updates # <<>>, resp = Head(updates), Answer(resp)
  PROVE  /\ resp \in Message /\ resp.path \in Archives
         /\ resp.result = "ok" => resp.size \in Sizes
         /\ AnswersSized' /\ ChannelsOK'
         /\ paused' = paused /\ ignored' = ignored /\ retries' = retries
         /\ cancelled' = cancelled /\ refused' = refused /\ loosed' = loosed
         /\ world' = world
<1> USE TypeParts
<1>1. updates \in Seq(Message) /\ AnswersSized /\ ChannelsOK
  BY DEF TypeInv, ChannelsOK
<1>2. resp \in Message /\ resp = updates[1] /\ 1 \in DOMAIN updates
  BY <1>1
<1>3. resp.path \in Archives /\ (resp.result = "ok" => resp.size \in Sizes)
  BY <1>1, <1>2 DEF AnswersSized, Message
<1>4. updates' \in Seq(Message)
      /\ \A i \in DOMAIN updates' : i + 1 \in DOMAIN updates /\ updates'[i] = updates[i + 1]
  BY <1>1 DEF Answer
<1>5. AnswersSized'
  BY <1>1, <1>4 DEF AnswersSized
<1>6. ChannelsOK'
  BY <1>1, <1>4 DEF Answer, ChannelsOK
<1> QED
  BY <1>2, <1>3, <1>5, <1>6 DEF Answer

LEMMA CallbackType ==
  ASSUME TypeInv, Callback
  PROVE  TypeInv'
<1> USE TypeParts, NextTypeParts
<1>1. DurableOK /\ OwnedOK /\ ChannelsOK /\ CleanupOK /\ GhostsOK
  BY DEF TypeInv
<1> DEFINE resp == Head(updates)
           a == resp.path
<1>2. updates # <<>> /\ Answer(resp)
  BY DEF Callback, CallbackCancelled, CallbackUnknown, CallbackStarted,
         CallbackNothing, CallbackFailed, CallbackExtracted
<1>3. /\ resp \in Message /\ a \in Archives /\ (resp.result = "ok" => resp.size \in Sizes)
      /\ AnswersSized' /\ ChannelsOK'
      /\ paused' = paused /\ ignored' = ignored /\ retries' = retries
      /\ cancelled' = cancelled /\ refused' = refused /\ loosed' = loosed
      /\ world' = world
  BY <1>2, AnswerTypes
<1> DEFINE Only == OnlyStatus /\ failed' = failed
<1>4. ASSUME OwnedOK', Only
      PROVE  TypeInv'
  <2>1. DurableOK' /\ CleanupOK' /\ GhostsOK'
    BY <1>1, <1>3, <1>4 DEF OnlyStatus, DurableOK, CleanupOK, GhostsOK, cleanup
  <2> QED
    BY <1>3, <1>4, <2>1 DEF TypeInv
<1>5. CASE CallbackCancelled(resp)
  <2>1. Only /\ (Forget(a) \/ UNCHANGED owned)
    BY <1>5 DEF CallbackCancelled
  <2> HIDE DEF resp
  <2>2. OwnedOK'
    BY <1>1, <1>3, <2>1 DEF Forget, OwnedOK, owned, Statuses
  <2> QED
    BY <1>4, <2>1, <2>2
<1>6. CASE CallbackUnknown(resp)
  <2>1. Only /\ Forget(a)
    BY <1>6 DEF CallbackUnknown
  <2> HIDE DEF resp
  <2>2. OwnedOK'
    BY <1>1, <1>3, <2>1 DEF Forget, OwnedOK, Statuses
  <2> QED
    BY <1>4, <2>1, <2>2
<1>7. ASSUME NEW status \in Statuses, SetStatus(a, status)
      PROVE  OwnedOK'
  <2> HIDE DEF resp
  <2> QED
    BY <1>1, <1>3, <1>7 DEF SetStatus, OwnedOK
<1>8. CASE CallbackStarted(resp)
  <2>1. Only /\ SetStatus(a, "EXTRACTING")
    BY <1>8 DEF CallbackStarted
  <2> QED
    BY <1>4, <1>7, <2>1 DEF Statuses
<1>9. CASE CallbackNothing(resp)
  <2>1. Only /\ SetStatus(a, "EXTRACTEDNOTHING")
    BY <1>9 DEF CallbackNothing
  <2> QED
    BY <1>4, <1>7, <2>1 DEF Statuses
<1>10. CASE CallbackFailed(resp)
  <2> DEFINE rec == [key |-> RecordKey(a), path |-> a, stage |-> "extract"]
  <2>1. OnlyStatus /\ SetStatus(a, "EXTRACTFAILED") /\ failed' = MarkFailed(failed, rec)
    BY <1>10 DEF CallbackFailed
  <2>2. rec \in FailureRecord
    BY <1>1, <1>3, VersionType DEF FailureRecord, Stages
  <2>3. OwnedOK'
    BY <1>7, <2>1 DEF Statuses
  <2>4. failed' \subseteq FailureRecord /\ Unique(failed')
    BY <1>1, <2>1, <2>2, MarkFailedType DEF DurableOK
  <2>5. DurableOK' /\ CleanupOK' /\ GhostsOK'
    BY <1>1, <1>3, <2>1, <2>4 DEF OnlyStatus, DurableOK, CleanupOK, GhostsOK, cleanup
  <2> QED
    BY <1>3, <2>3, <2>5 DEF TypeInv
<1>11. CASE CallbackExtracted(resp)
  <2> DEFINE m == [map EXCEPT ![a] = "EXTRACTED"]
             f == IF Present(a) THEN ClearFailed(failed, Version(a)) ELSE failed
  <2>1. /\ resp.result = "ok"
        /\ processed' = IF Present(a)
                        THEN MarkProcessed(processed, [key |-> Version(a), path |-> a])
                        ELSE processed
        /\ \/ DeleteAfterReached(a, m, f)
           \/ /\ tracked' = [tracked EXCEPT ![a] = "EXTRACTED"]
              /\ map' = m /\ failed' = f /\ UNCHANGED cleanup
        /\ extracted' = extracted \cup {<<a, resp.size>>}
        /\ credit' = credit \/ credit' = [credit EXCEPT ![a] = @ - 1]
    BY <1>11 DEF CallbackExtracted
  <2> HIDE DEF resp
  <2>2. m \in [Archives -> Statuses]
    BY <1>1, <1>3 DEF OwnedOK, Statuses
  <2>3. f \subseteq FailureRecord /\ Unique(f)
    BY <1>1, ClearFailedType DEF DurableOK
  <2>4. processed' \subseteq SuccessRecord /\ Unique(processed')
    <3>1. Present(a) => [key |-> Version(a), path |-> a] \in SuccessRecord
      BY <1>1, <1>3, VersionType DEF SuccessRecord
    <3> QED
      BY <1>1, <2>1, <3>1, MarkProcessedType DEF DurableOK
  <2> HIDE DEF m, f
  <2>5. /\ map' \in [Archives -> Statuses] /\ tracked' \in [Archives -> Statuses]
        /\ failed' \subseteq FailureRecord /\ Unique(failed')
        /\ CleanupOK'
    <3>1. CASE DeleteAfterReached(a, m, f)
      BY <1>3, <2>2, <2>3, <3>1, DeleteAfterReachedType DEF TypeInv
    <3>2. CASE /\ tracked' = [tracked EXCEPT ![a] = "EXTRACTED"]
               /\ map' = m /\ failed' = f /\ UNCHANGED cleanup
      BY <1>1, <2>2, <2>3, <3>2, CleanupSame DEF OwnedOK, Statuses
    <3> QED
      BY <2>1, <3>1, <3>2
  <2>6. DurableOK' /\ OwnedOK'
    BY <1>1, <1>3, <2>4, <2>5 DEF DurableOK, OwnedOK
  <2>7. GhostsOK'
    BY <1>1, <1>3, <2>1 DEF GhostsOK
  <2> QED
    BY <1>3, <2>5, <2>6, <2>7 DEF TypeInv
<1> QED
  BY <1>5, <1>6, <1>8, <1>9, <1>10, <1>11 DEF Callback

LEMMA DeleteWorkerType ==
  ASSUME TypeInv, DeleteWorker
  PROVE  TypeInv'
<1> USE TypeParts, NextTypeParts
<1>1. DurableOK /\ OwnedOK /\ ChannelsOK /\ CleanupOK /\ GhostsOK
  BY DEF TypeInv
<1> DEFINE d == Head(deletes)
<1>2. deletes # <<>> /\ deletes \in Seq(DeleteRequest)
  BY <1>1 DEF DeleteWorker, DeleteFiles, FinishDelete, CleanupOK
<1>3. d \in DeleteRequest
  BY <1>2
<1>4. d.path \in Archives /\ d.key \in Keys
  BY <1>3 DEF DeleteRequest
<1>5. CASE DeleteFiles
  <2>1. deletes' = [deletes EXCEPT ![1].removed = TRUE]
    BY <1>5 DEF DeleteFiles
  <2>2. deletes' \in Seq(DeleteRequest)
    <3>1. deletes[1] \in DeleteRequest
      BY <1>2
    <3>2. [deletes[1] EXCEPT !.removed = TRUE] \in DeleteRequest
      BY <3>1 DEF DeleteRequest
    <3>3. deletes' = [deletes EXCEPT ![1] = [deletes[1] EXCEPT !.removed = TRUE]]
      BY <2>1
    <3> QED
      BY <1>2, <3>2, <3>3
  <2>3. /\ \/ /\ source' = [source EXCEPT ![d.path] = NoSize]
              /\ removed' = IF Present(d.path) THEN removed \cup {<<d.path, source[d.path]>>}
                                               ELSE removed
           \/ UNCHANGED <<source, removed>>
        /\ UNCHANGED <<durable, owned, cancelled, channels, cleaning, ghosts, world>>
    BY <1>5 DEF DeleteFiles
  <2> HIDE DEF d
  <2>4. CleanupOK'
    BY <1>1, <1>4, <2>2, <2>3, VersionType DEF CleanupOK
  <2> QED
    BY <1>1, <2>3, <2>4, DurableSame, OwnedSame, ChannelsSame, GhostsSame, SameAnswers
       DEF TypeInv
<1>6. CASE FinishDelete
  <2> DEFINE rec == [key |-> d.key, path |-> d.path, stage |-> "delete"]
  <2>1. /\ deletes' = Tail(deletes)
        /\ cleaning' = cleaning \ {d.key}
        /\ failed' = IF Present(d.path) THEN MarkFailed(failed, rec)
                                        ELSE ClearFailed(failed, d.key)
        /\ UNCHANGED <<paused, processed, ignored, owned, cancelled, channels, source,
                       removed, ghosts, world>>
    BY <1>6 DEF FinishDelete
  <2>2. rec \in FailureRecord
    BY <1>4 DEF FailureRecord, Stages
  <2>3. failed' \subseteq FailureRecord /\ Unique(failed')
    BY <1>1, <2>1, <2>2, MarkFailedType, ClearFailedType DEF DurableOK
  <2>4. DurableOK'
    BY <1>1, <2>1, <2>3 DEF DurableOK
  <2>5. CleanupOK'
    BY <1>1, <1>2, <2>1 DEF CleanupOK
  <2> QED
    BY <1>1, <2>1, <2>4, <2>5, OwnedSame, ChannelsSame, GhostsSame, SameAnswers
       DEF TypeInv
<1> QED
  BY <1>5, <1>6 DEF DeleteWorker

LEMMA TakeBackType ==
  ASSUME TypeInv, NEW a \in Archives, TakeBack(a)
  PROVE  /\ OwnedOK' /\ ChannelsOK' /\ CleanupOK' /\ AnswersSized'
         /\ refused' \subseteq Archives => GhostsOK'
         /\ cancelled' \subseteq Archives
<1> USE TypeParts
<1>1. OwnedOK /\ ChannelsOK /\ CleanupOK /\ GhostsOK /\ cancelled \subseteq Archives
  BY DEF TypeInv
<1>2. OwnedOK'
  BY <1>1 DEF TakeBack, OwnedOK, Statuses
<1>3. (refused' \subseteq Archives => GhostsOK') /\ cancelled' \subseteq Archives
  BY <1>1 DEF TakeBack, GhostsOK
<1> QED
  BY <1>1, <1>2, <1>3, ChannelsSame, CleanupSame, SameAnswers DEF TakeBack, TypeInv

LEMMA RequeueType ==
  ASSUME TypeInv, NEW a \in Archives, NEW key, Requeue(a, key), world' \in Nat
  PROVE  TypeInv'
<1> USE TypeParts, NextTypeParts
<1>1. DurableOK /\ OwnedOK /\ ChannelsOK /\ CleanupOK /\ GhostsOK
      /\ cancelled \subseteq Archives
  BY DEF TypeInv
<1>2. DurableOK'
  BY <1>1, DeleteProcessedType DEF Requeue, DurableOK
<1>3. OwnedOK'
  BY <1>1 DEF Requeue, OwnedOK, Statuses
<1>4. GhostsOK' /\ cancelled' \subseteq Archives
  BY <1>1 DEF Requeue, GhostsOK
<1> QED
  BY <1>1, <1>2, <1>3, <1>4, ChannelsSame, CleanupSame, SameAnswers DEF Requeue, TypeInv

LEMMA UserRetryFailedType ==
  ASSUME TypeInv, NEW rec \in failed, UserRetryFailed(rec)
  PROVE  TypeInv'
<1> USE TypeParts, NextTypeParts
<1>1. DurableOK /\ OwnedOK /\ ChannelsOK /\ CleanupOK /\ GhostsOK
  BY DEF TypeInv
<1> DEFINE a == rec.path
           key == rec.key
<1>2. a \in Archives /\ key \in Keys
  BY <1>1 DEF DurableOK, FailureRecord
<1>3. world' \in Nat
  BY DEF UserRetryFailed, World, TypeInv
<1>4. RetryCleanup(a, key) \/ RetryDelete(a, key) \/ Requeue(a, key)
  BY DEF UserRetryFailed
<1> HIDE DEF a, key
<1>5. CASE RetryCleanup(a, key)
  <2> DEFINE f == ClearFailed(failed, key)
  <2>1. f \subseteq FailureRecord /\ Unique(f)
    BY <1>1, ClearFailedType DEF DurableOK
  <2> HIDE DEF f
  <2>2. DeleteAfterReached(a, map, failed) \/ DeleteAfterReached(a, map, f)
    BY <1>5 DEF RetryCleanup, DeleteAfterReached, f
  <2>3. /\ map' \in [Archives -> Statuses] /\ tracked' \in [Archives -> Statuses]
        /\ failed' \subseteq FailureRecord /\ Unique(failed')
        /\ CleanupOK'
    BY <1>1, <1>2, <2>1, <2>2, DeleteAfterReachedType DEF TypeInv, DurableOK, OwnedOK
  <2>4. UNCHANGED <<paused, processed, ignored, retries, cancelled, channels, ghosts>>
    BY <1>5 DEF RetryCleanup
  <2>5. DurableOK' /\ OwnedOK'
    BY <1>1, <2>3, <2>4 DEF DurableOK, OwnedOK
  <2> QED
    BY <1>1, <1>3, <2>3, <2>4, <2>5, ChannelsSame, GhostsSame, SameAnswers DEF TypeInv
<1>6. CASE RetryDelete(a, key)
  <2>1. /\ QueueDelete(a, key)
        /\ UNCHANGED <<durable, owned, cancelled, channels, source, removed, ghosts>>
    BY <1>6 DEF RetryDelete
  <2>2. CleanupOK'
    BY <1>1, <1>2, <2>1, QueueDeleteType DEF CleanupOK
  <2> QED
    BY <1>1, <1>3, <2>1, <2>2, DurableSame, OwnedSame, ChannelsSame, GhostsSame, SameAnswers
       DEF TypeInv
<1>7. CASE Requeue(a, key)
  BY <1>2, <1>3, <1>7, RequeueType
<1> QED
  BY <1>4, <1>5, <1>6, <1>7

LEMMA UserType ==
  ASSUME TypeInv, User
  PROVE  TypeInv'
<1> USE TypeParts, NextTypeParts
<1>1. DurableOK /\ OwnedOK /\ ChannelsOK /\ CleanupOK /\ GhostsOK
      /\ cancelled \subseteq Archives
  BY DEF TypeInv
<1>2. world' \in Nat
  <2>1. World
    BY DEF User, UserCancel, UserIgnore, UserUnignore, UserRetryFailed, UserRetryProcessed,
           StopClear, Resume, ResetHistory
  <2> QED
    BY <2>1 DEF World, TypeInv
<1>3. ASSUME NEW a \in Archives, UserCancel(a)
      PROVE  TypeInv'
  <2> DEFINE rec == [key |-> CancelKey(a), path |-> a, stage |-> "cancelled"]
  <2>1. rec \in FailureRecord
    BY <1>1, VersionType DEF FailureRecord, Stages
  <2>2. TakeBack(a) /\ failed' = MarkFailed(failed, rec)
        /\ UNCHANGED <<paused, processed, ignored>>
    BY <1>3 DEF UserCancel
  <2> HIDE DEF rec
  <2>3. DurableOK'
    BY <1>1, <2>1, <2>2, MarkFailedType DEF DurableOK
  <2>4. refused' \subseteq Archives
    BY <1>1, <1>3 DEF UserCancel, Refuse, GhostsOK
  <2> QED
    BY <1>2, <2>2, <2>3, <2>4, TakeBackType DEF TypeInv
<1>4. ASSUME NEW a \in Archives, UserIgnore(a)
      PROVE  TypeInv'
  <2> DEFINE rec == [name |-> Name[a], size |-> source[a], path |-> a]
  <2>1. rec \in RuleRecord
    BY <1>1, PipelineAssumption DEF CleanupOK, RuleRecord
  <2>2. /\ TakeBack(a)
        /\ ignored' = {r \in ignored : r.name # rec.name \/ r.size # rec.size} \cup {rec}
        /\ UNCHANGED <<paused, processed, failed>>
    BY <1>4 DEF UserIgnore
  <2> HIDE DEF rec
  <2>3. DurableOK'
    BY <1>1, <2>1, <2>2 DEF DurableOK
  <2>4. refused' \subseteq Archives
    BY <1>1, <1>4 DEF UserIgnore, GhostsOK
  <2> QED
    BY <1>2, <2>2, <2>3, <2>4, TakeBackType DEF TypeInv
<1>5. ASSUME NEW rec \in ignored, UserUnignore(rec)
      PROVE  TypeInv'
  <2>1. DurableOK'
    BY <1>1, <1>5 DEF UserUnignore, DurableOK
  <2>2. GhostsOK' /\ cancelled' \subseteq Archives
    BY <1>1, <1>5 DEF UserUnignore, Loose, GhostsOK
  <2>3. UNCHANGED owned /\ UNCHANGED channels /\ UNCHANGED cleanup
    BY <1>5 DEF UserUnignore
  <2> QED
    BY <1>1, <1>2, <2>1, <2>2, <2>3, OwnedSame, ChannelsSame, CleanupSame, SameAnswers
       DEF TypeInv
<1>6. ASSUME NEW rec \in failed, UserRetryFailed(rec)
      PROVE  TypeInv'
  BY <1>6, UserRetryFailedType
<1>7. ASSUME NEW rec \in processed, UserRetryProcessed(rec)
      PROVE  TypeInv'
  <2>1. rec.path \in Archives /\ Requeue(rec.path, rec.key)
    BY <1>1, <1>7 DEF UserRetryProcessed, DurableOK, SuccessRecord
  <2> QED
    BY <1>2, <2>1, RequeueType
<1>8. CASE StopClear
  <2> DEFINE cleared == {a \in Archives : map[a] \notin {"ABSENT", "EXTRACTING"}}
  <2>1. /\ paused' = TRUE /\ cancelled' = cancelled \cup cleared
        /\ map' = [a \in Archives |-> IF a \in cleared THEN "ABSENT" ELSE map[a]]
        /\ tracked' = [a \in Archives |-> IF a \in cleared THEN "ABSENT" ELSE tracked[a]]
        /\ UNCHANGED <<processed, failed, ignored, retries, channels, cleanup, ghosts>>
    BY <1>8 DEF StopClear
  <2>2. DurableOK' /\ OwnedOK' /\ cancelled' \subseteq Archives
    BY <1>1, <2>1 DEF DurableOK, OwnedOK, Statuses
  <2> QED
    BY <1>1, <1>2, <2>1, <2>2, ChannelsSame, CleanupSame, GhostsSame, SameAnswers DEF TypeInv
<1>9. CASE Resume
  <2>1. DurableOK' /\ ChannelsOK' /\ GhostsOK' /\ cancelled' \subseteq Archives
    BY <1>1, <1>9 DEF Resume, Loose, DurableOK, ChannelsOK, GhostsOK
  <2> QED
    BY <1>1, <1>2, <1>9, <2>1, OwnedSame, CleanupSame, SameAnswers DEF Resume, TypeInv
<1>10. CASE ResetHistory
  <2>1. DurableOK' /\ GhostsOK' /\ cancelled' \subseteq Archives
    BY <1>1, <1>10 DEF ResetHistory, Loose, DurableOK, GhostsOK, Unique
  <2> QED
    BY <1>1, <1>2, <1>10, <2>1, OwnedSame, ChannelsSame, CleanupSame, SameAnswers
       DEF ResetHistory, TypeInv
<1> QED
  BY <1>3, <1>4, <1>5, <1>6, <1>7, <1>8, <1>9, <1>10 DEF User

LEMMA EnvironmentType ==
  ASSUME TypeInv, Environment
  PROVE  TypeInv'
<1> USE TypeParts, NextTypeParts
<1>1. DurableOK /\ OwnedOK /\ ChannelsOK /\ CleanupOK /\ GhostsOK
      /\ cancelled \subseteq Archives
  BY DEF TypeInv
<1>2. world' \in Nat
  BY DEF Environment, FileArrives, FileReplaced, FileVanishes, FileChanges, RepeatedEvent,
         Restart, World, TypeInv
<1>3. ASSUME NEW a \in Archives, NEW size \in Sizes \cup {NoSize}, FileChanges(a, size)
      PROVE  TypeInv'
  <2>1. ChannelsOK' /\ CleanupOK' /\ GhostsOK' /\ updates' = updates
    BY <1>1, <1>3 DEF FileChanges, ChannelsOK, CleanupOK, GhostsOK
  <2> QED
    BY <1>1, <1>2, <1>3, <2>1, DurableSame, OwnedSame, SameAnswers DEF FileChanges, TypeInv
<1>4. ASSUME NEW a \in Archives, RepeatedEvent(a)
      PROVE  TypeInv'
  <2>1. ChannelsOK' /\ updates' = updates
    BY <1>1, <1>4 DEF RepeatedEvent, ChannelsOK
  <2> QED
    BY <1>1, <1>2, <1>4, <2>1, DurableSame, OwnedSame, CleanupSame, GhostsSame, SameAnswers
       DEF RepeatedEvent, TypeInv
<1>5. CASE Restart
  <2>1. OwnedOK' /\ cancelled' \subseteq Archives
    BY <1>5 DEF Restart, OwnedOK, Statuses
  <2>2. ChannelsOK'
    BY <1>5 DEF Restart, ChannelsOK
  <2>3. CleanupOK' /\ GhostsOK'
    BY <1>1, <1>5 DEF Restart, CleanupOK, GhostsOK
  <2>4. AnswersSized'
    BY <1>5 DEF Restart, AnswersSized
  <2> QED
    BY <1>1, <1>2, <1>5, <2>1, <2>2, <2>3, <2>4, DurableSame DEF Restart, TypeInv
<1> QED
  BY <1>3, <1>4, <1>5 DEF Environment, FileArrives, FileReplaced, FileVanishes

LEMMA NextType == TypeInv /\ [Next]_vars => TypeInv'
<1> SUFFICES ASSUME TypeInv, [Next]_vars
             PROVE  TypeInv'
  OBVIOUS
<1>1. CASE UNCHANGED vars
  BY <1>1, TypeParts, NextTypeParts, DurableSame, OwnedSame, ChannelsSame, CleanupSame,
     GhostsSame, SameAnswers DEF vars, TypeInv
<1>2. CASE Next
  BY <1>2, ProcessEventType, CallbackType, DeleteWorkerType, ScanType, CheckFolderType,
     WorkType, UserType, EnvironmentType DEF Next
<1> QED
  BY <1>1, <1>2

\* Statuses, records and messages stay well formed, with one failure and one
\* success for a key, for any archives, workers and retries.
THEOREM TypeCorrect == Spec => []TypeOK
<1>1. Init => TypeInv
  BY InitType DEF TypeInv
<1>2. TypeInv => TypeOK
  BY DEF TypeInv
<1> QED
  BY <1>1, <1>2, NextType, PTL DEF Spec

-----------------------------------------------------------------------------
(***************************************************************************)
(* No source is removed where nothing was extracted.  SourceSafe is not    *)
(* inductive: a removal may be on its way in the status of a folder, in    *)
(* the delete channel, or in the record of a failed cleanup that a retry   *)
(* takes up after any number of restarts.                                  *)
(***************************************************************************)
ExtractedFrom(E, a) == \E e \in E : e[1] = a

\* A failure record that makes a retry remove the source.
Removing(r) == r.stage \in {"cleanup", "delete"}

CleanupJustified ==
    /\ \A r \in removed : ExtractedFrom(extracted, r[1])
    /\ \A a \in Archives : tracked[a] = "EXTRACTED" => ExtractedFrom(extracted, a)
    /\ \A i \in DOMAIN deletes : ExtractedFrom(extracted, deletes[i].path)
    /\ \A r \in failed : Removing(r) => ExtractedFrom(extracted, r.path)

\* The parts of it, each with what may change.
LEMMA JustifiedBySubsets ==
  ASSUME CleanupJustified,
         extracted \subseteq extracted',
         removed' = removed,
         deletes' = deletes,
         \A a \in Archives : tracked'[a] = "EXTRACTED" =>
              tracked[a] = "EXTRACTED" \/ ExtractedFrom(extracted', a),
         \A r \in failed' : Removing(r) => r \in failed
  PROVE  CleanupJustified'
  BY DEF CleanupJustified, ExtractedFrom, Removing

LEMMA ExtractedStays ==
  ASSUME NEW a, ExtractedFrom(extracted, a), extracted \subseteq extracted'
  PROVE  ExtractedFrom(extracted', a)
  BY DEF ExtractedFrom

LEMMA QueueDeleteJustified ==
  ASSUME TypeOK, CleanupJustified, NEW a \in Archives, NEW key \in Keys,
         QueueDelete(a, key), extracted \subseteq extracted', ExtractedFrom(extracted', a)
  PROVE  \A i \in DOMAIN deletes' : ExtractedFrom(extracted', deletes'[i].path)
<1>1. \A i \in DOMAIN deletes : ExtractedFrom(extracted', deletes[i].path)
  BY ExtractedStays DEF CleanupJustified
<1>2. CASE deletes' = deletes
  BY <1>1, <1>2
<1> DEFINE d == [path |-> a, key |-> key, removed |-> FALSE]
<1>3. CASE deletes' = Append(deletes, d)
  <2>1. deletes \in Seq(DeleteRequest)
    BY TypeParts DEF CleanupOK
  <2>2. d.path = a
    OBVIOUS
  <2> HIDE DEF d
  <2> SUFFICES ASSUME NEW i \in DOMAIN deletes' PROVE ExtractedFrom(extracted', deletes'[i].path)
    OBVIOUS
  <2>3. \/ i \in DOMAIN deletes /\ deletes'[i] = deletes[i]
        \/ deletes'[i] = d
    BY <1>3, <2>1
  <2> QED
    BY <1>1, <2>2, <2>3
<1> QED
  BY <1>2, <1>3 DEF QueueDelete

LEMMA DeleteAfterReachedJustified ==
  ASSUME TypeOK, CleanupJustified, NEW a \in Archives, NEW m, NEW f,
         DeleteAfterReached(a, m, f),
         \A r \in f : Removing(r) => r \in failed,
         extracted \subseteq extracted', ExtractedFrom(extracted', a)
  PROVE  CleanupJustified'
<1> USE TypeParts
<1>1. RecordKey(a) \in Keys /\ tracked \in [Archives -> Statuses]
  BY VersionType DEF OwnedOK
<1>2. \A r \in removed : ExtractedFrom(extracted', r[1])
  BY ExtractedStays DEF CleanupJustified
<1>3. \A i \in DOMAIN deletes : ExtractedFrom(extracted', deletes[i].path)
  BY ExtractedStays DEF CleanupJustified
<1>4. \A r \in failed : Removing(r) => ExtractedFrom(extracted', r.path)
  BY ExtractedStays DEF CleanupJustified
<1>5. ASSUME NEW status \in Statuses, status # "EXTRACTED",
             tracked' = [tracked EXCEPT ![a] = status]
      PROVE  \A b \in Archives : tracked'[b] = "EXTRACTED" => ExtractedFrom(extracted', b)
  BY <1>1, <1>5, ExtractedStays DEF CleanupJustified
<1>6. CASE ArchiveFails(a, m, f)
  <2>1. /\ UNCHANGED <<cleaning, deletes, source, removed>>
        /\ \/ tracked' = [tracked EXCEPT ![a] = "ABSENT"]
           \/ tracked' = [tracked EXCEPT ![a] = "DELETEFAILED"]
    BY <1>1, <1>6 DEF ArchiveFails
  <2>2. \A r \in failed' : Removing(r) => ExtractedFrom(extracted', r.path)
    BY <1>4, <1>6 DEF ArchiveFails, MarkFailed
  <2>3. \A b \in Archives : tracked'[b] = "EXTRACTED" => ExtractedFrom(extracted', b)
    BY <1>5, <2>1 DEF Statuses
  <2> QED
    BY <1>2, <1>3, <2>1, <2>2, <2>3 DEF CleanupJustified
<1>7. ASSUME CleanedUp(a, m), failed' = f
      PROVE  /\ \A b \in Archives : tracked'[b] = "EXTRACTED" => ExtractedFrom(extracted', b)
             /\ \A r \in failed' : Removing(r) => ExtractedFrom(extracted', r.path)
  BY <1>4, <1>5, <1>7 DEF CleanedUp, Statuses
<1>8. CASE Archive(a, m, f)
  <2>1. /\ CleanedUp(a, m) /\ failed' = f /\ deletes' = deletes
        /\ removed' = removed \cup {<<a, source[a]>>}
    BY <1>8 DEF Archive
  <2>2. \A r \in removed' : ExtractedFrom(extracted', r[1])
    BY <1>2, <2>1
  <2> QED
    BY <1>3, <1>7, <2>1, <2>2 DEF CleanupJustified
<1>9. CASE Delete(a, m, f)
  <2>1. \A i \in DOMAIN deletes' : ExtractedFrom(extracted', deletes'[i].path)
    BY <1>1, <1>9, QueueDeleteJustified DEF Delete
  <2> QED
    BY <1>2, <1>7, <1>9, <2>1 DEF Delete, CleanupJustified
<1>10. CASE Keep(a, m, f)
  BY <1>2, <1>3, <1>7, <1>10 DEF Keep, CleanupJustified
<1> QED
  BY <1>6, <1>8, <1>9, <1>10 DEF DeleteAfterReached

LEMMA InitJustified == Init => CleanupJustified
  BY DEF Init, CleanupJustified

\* Events, the scanner and the workers touch nothing of it.
LEMMA DiscoveryJustified ==
  ASSUME TypeOK, CleanupJustified,
         \/ ProcessEvent
         \/ \E a \in Archives : Scan(a)
         \/ \E w \in Workers : Work(w)
  PROVE  CleanupJustified'
<1> USE TypeParts
<1>1. CASE ProcessEvent
  <2>1. Head(events) \in Archives /\ tracked \in [Archives -> Statuses]
    BY <1>1 DEF ProcessEvent, DropEvent, UntrackVanished, TrackArrival, NextEvent,
                ChannelsOK, OwnedOK
  <2>2. UNCHANGED <<durable, cleanup, ghosts>>
    BY <1>1 DEF ProcessEvent, DropEvent, UntrackVanished, TrackArrival, NextEvent
  <2>3. \/ tracked' = tracked
        \/ tracked' = [tracked EXCEPT ![Head(events)] = "ABSENT"]
        \/ tracked' = [tracked EXCEPT ![Head(events)] = "WAITING"]
    BY <1>1 DEF ProcessEvent, DropEvent, UntrackVanished, TrackArrival, owned
  <2>4. \A b \in Archives : tracked'[b] = "EXTRACTED" => tracked[b] = "EXTRACTED"
    BY <2>1, <2>3
  <2> QED
    BY <2>2, <2>4, JustifiedBySubsets DEF durable, cleanup, ghosts
<1>2. CASE \E a \in Archives : Scan(a)
  BY <1>2, JustifiedBySubsets DEF Scan, durable, owned, cleanup, ghosts
<1>3. CASE \E w \in Workers : Work(w)
  BY <1>3, JustifiedBySubsets
     DEF Work, StartJob, FindNothing, TakeJob, FinishJob, durable, owned, cleanup, ghosts
<1> QED
  BY <1>1, <1>2, <1>3

LEMMA CheckFolderJustified ==
  ASSUME TypeOK, CleanupJustified, NEW a \in Archives, CheckFolder(a)
  PROVE  CleanupJustified'
<1>1. tracked \in [Archives -> Statuses]
  BY TypeParts DEF OwnedOK
<1>2. CASE CleanFolder(a)
  <2>1. ExtractedFrom(extracted, a) /\ extracted' = extracted
    BY <1>2 DEF CleanFolder, ReadyToClean, CleanupJustified, ghosts
  <2> QED
    BY <1>2, <2>1, ExtractedStays, DeleteAfterReachedJustified DEF CleanFolder
<1>3. ASSUME UNCHANGED <<durable, cleanup, ghosts>>,
             \A b \in Archives : tracked'[b] = "EXTRACTED" => tracked[b] = "EXTRACTED"
      PROVE  CleanupJustified'
  BY <1>3, JustifiedBySubsets DEF durable, cleanup, ghosts
<1>4. CASE ExtractTracked(a)
  <2>1. \A b \in Archives : tracked'[b] = "EXTRACTED" => tracked[b] = "EXTRACTED"
    BY <1>1, <1>4 DEF ExtractTracked, Submit
  <2> QED
    BY <1>3, <1>4, <2>1 DEF ExtractTracked
<1>5. CASE ForgetNothing(a) \/ GiveUp(a)
  BY <1>1, <1>3, <1>5 DEF ForgetNothing, GiveUp, Forget
<1>6. CASE RetryFailed(a)
  BY <1>1, <1>3, <1>6 DEF RetryFailed
<1>7. CASE ExpireDeleted(a)
  BY <1>3, <1>7 DEF ExpireDeleted
<1> QED
  BY <1>2, <1>4, <1>5, <1>6, <1>7 DEF CheckFolder

LEMMA CallbackJustified ==
  ASSUME TypeInv, CleanupJustified, Callback
  PROVE  CleanupJustified'
<1> DEFINE resp == Head(updates)
           a == resp.path
<1>1. tracked \in [Archives -> Statuses] /\ failed \subseteq FailureRecord
  BY TypeParts DEF TypeInv, OwnedOK, DurableOK
<1>2. updates # <<>> /\ Answer(resp)
  BY DEF Callback, CallbackCancelled, CallbackUnknown, CallbackStarted,
         CallbackNothing, CallbackFailed, CallbackExtracted
<1>3. a \in Archives
  BY <1>2, AnswerTypes
<1>4. ASSUME OnlyStatus, \A r \in failed' : Removing(r) => r \in failed,
             tracked' = tracked \/ \E s \in Statuses \ {"EXTRACTED"} :
                                      tracked' = [tracked EXCEPT ![a] = s]
      PROVE  CleanupJustified'
  <2> HIDE DEF resp
  <2>1. \A b \in Archives : tracked'[b] = "EXTRACTED" => tracked[b] = "EXTRACTED"
    BY <1>1, <1>3, <1>4
  <2> QED
    BY <1>4, <2>1, JustifiedBySubsets DEF OnlyStatus, cleanup
<1>5. CASE CallbackCancelled(resp) \/ CallbackUnknown(resp)
  BY <1>4, <1>5 DEF CallbackCancelled, CallbackUnknown, Forget, owned, Statuses
<1>6. CASE CallbackStarted(resp) \/ CallbackNothing(resp)
  BY <1>4, <1>6 DEF CallbackStarted, CallbackNothing, SetStatus, Statuses
<1>7. CASE CallbackFailed(resp)
  <2>1. \A r \in failed' : Removing(r) => r \in failed
    BY <1>7 DEF CallbackFailed, MarkFailed, Removing
  <2> QED
    BY <1>4, <1>7, <2>1 DEF CallbackFailed, SetStatus, Statuses
<1>8. CASE CallbackExtracted(resp)
  <2> DEFINE m == [map EXCEPT ![a] = "EXTRACTED"]
             f == IF Present(a) THEN ClearFailed(failed, Version(a)) ELSE failed
  <2>1. /\ \/ DeleteAfterReached(a, m, f)
           \/ /\ tracked' = [tracked EXCEPT ![a] = "EXTRACTED"]
              /\ failed' = f /\ UNCHANGED cleanup
        /\ extracted' = extracted \cup {<<a, resp.size>>}
    BY <1>8 DEF CallbackExtracted
  <2>2. f \subseteq failed
    BY DEF ClearFailed
  <2> HIDE DEF resp, m, f
  <2>3. extracted \subseteq extracted' /\ ExtractedFrom(extracted', a)
    <3>1. extracted' = extracted \cup {<<a, resp.size>>}
      BY <2>1
    <3>2. <<a, resp.size>> \in extracted' /\ extracted \subseteq extracted'
      BY <3>1
    <3> HIDE DEF a
    <3>3. <<a, resp.size>>[1] = a
      OBVIOUS
    <3> QED
      BY <3>2, <3>3 DEF ExtractedFrom
  <2>4. CASE DeleteAfterReached(a, m, f)
    BY <1>3, <2>2, <2>3, <2>4, DeleteAfterReachedJustified DEF TypeInv
  <2>5. CASE /\ tracked' = [tracked EXCEPT ![a] = "EXTRACTED"]
             /\ failed' = f /\ UNCHANGED cleanup
    <3>1. \A b \in Archives : tracked'[b] = "EXTRACTED" =>
            tracked[b] = "EXTRACTED" \/ ExtractedFrom(extracted', b)
      BY <1>1, <1>3, <2>3, <2>5
    <3> QED
      BY <2>2, <2>3, <2>5, <3>1, JustifiedBySubsets DEF cleanup
  <2> QED
    BY <2>1, <2>4, <2>5
<1> QED
  BY <1>5, <1>6, <1>7, <1>8 DEF Callback

LEMMA DeleteWorkerJustified ==
  ASSUME TypeOK, CleanupJustified, DeleteWorker
  PROVE  CleanupJustified'
<1> DEFINE d == Head(deletes)
<1>1. deletes # <<>> /\ deletes \in Seq(DeleteRequest)
  BY TypeParts DEF DeleteWorker, DeleteFiles, FinishDelete, CleanupOK
<1>2. d = deletes[1] /\ 1 \in DOMAIN deletes
  BY <1>1
<1>3. ExtractedFrom(extracted, d.path)
  BY <1>2 DEF CleanupJustified
<1>4. UNCHANGED <<tracked, extracted>>
  BY DEF DeleteWorker, DeleteFiles, FinishDelete, owned, ghosts
<1>5. ASSUME NEW b, ExtractedFrom(extracted, b)
      PROVE  ExtractedFrom(extracted', b)
  BY <1>4, <1>5 DEF ExtractedFrom
<1>6. CASE DeleteFiles
  <2>1. /\ deletes' = [deletes EXCEPT ![1].removed = TRUE]
        /\ removed' = removed \/ removed' = removed \cup {<<d.path, source[d.path]>>}
        /\ failed' = failed
    BY <1>6 DEF DeleteFiles, durable
  <2>2. \A i \in DOMAIN deletes' : i \in DOMAIN deletes /\ deletes'[i].path = deletes[i].path
    <3>1. \A i \in DOMAIN deletes : deletes[i] \in DeleteRequest
      BY <1>1
    <3> QED
      BY <1>1, <2>1, <3>1 DEF DeleteRequest
  <2>3. \A i \in DOMAIN deletes' : ExtractedFrom(extracted', deletes'[i].path)
    BY <1>5, <2>2 DEF CleanupJustified
  <2> HIDE DEF d
  <2>4. \A r \in removed' : ExtractedFrom(extracted', r[1])
    BY <1>3, <1>5, <2>1 DEF CleanupJustified
  <2> QED
    BY <1>4, <1>5, <2>1, <2>3, <2>4 DEF CleanupJustified
<1>7. CASE FinishDelete
  <2>1. /\ deletes' = Tail(deletes) /\ removed' = removed
        /\ \/ failed' = MarkFailed(failed, [key |-> d.key, path |-> d.path,
                                            stage |-> "delete"])
           \/ failed' = ClearFailed(failed, d.key)
    BY <1>7 DEF FinishDelete
  <2>2. \A i \in DOMAIN deletes' : i + 1 \in DOMAIN deletes /\ deletes'[i] = deletes[i + 1]
    BY <1>1, <2>1
  <2>3. \A i \in DOMAIN deletes' : ExtractedFrom(extracted', deletes'[i].path)
    BY <1>5, <2>2 DEF CleanupJustified
  <2> HIDE DEF d
  <2>4. \A r \in failed' : Removing(r) => ExtractedFrom(extracted', r.path)
    BY <1>3, <1>5, <2>1 DEF MarkFailed, ClearFailed, CleanupJustified
  <2> QED
    BY <1>4, <1>5, <2>1, <2>3, <2>4 DEF CleanupJustified
<1> QED
  BY <1>6, <1>7 DEF DeleteWorker

LEMMA UserJustified ==
  ASSUME TypeOK, CleanupJustified, User
  PROVE  CleanupJustified'
<1>1. /\ tracked \in [Archives -> Statuses] /\ failed \subseteq FailureRecord
      /\ processed \subseteq SuccessRecord
  BY TypeParts DEF OwnedOK, DurableOK
<1>2. extracted' = extracted
  BY DEF User, UserCancel, UserIgnore, UserUnignore, UserRetryFailed, UserRetryProcessed,
         TakeBack, RetryCleanup, RetryDelete, Requeue, StopClear, Resume, ResetHistory, ghosts
<1>3. ASSUME NEW a \in Archives, TakeBack(a), \A r \in failed' : Removing(r) => r \in failed
      PROVE  CleanupJustified'
  <2>1. \A b \in Archives : tracked'[b] = "EXTRACTED" => tracked[b] = "EXTRACTED"
    BY <1>1, <1>3 DEF TakeBack, Submitted
  <2> QED
    BY <1>2, <1>3, <2>1, JustifiedBySubsets DEF TakeBack, cleanup
<1>4. ASSUME NEW a \in Archives, UserCancel(a) \/ UserIgnore(a)
      PROVE  CleanupJustified'
  <2>1. TakeBack(a) /\ \A r \in failed' : Removing(r) => r \in failed
    BY <1>4 DEF UserCancel, UserIgnore, MarkFailed, Removing
  <2> QED
    BY <1>3, <2>1
<1>5. ASSUME NEW a \in Archives, NEW key, Requeue(a, key)
      PROVE  CleanupJustified'
  <2>1. \A b \in Archives : tracked'[b] = "EXTRACTED" => tracked[b] = "EXTRACTED"
    BY <1>1, <1>5 DEF Requeue
  <2> QED
    BY <1>2, <1>5, <2>1, JustifiedBySubsets DEF Requeue, cleanup
<1>6. ASSUME NEW rec \in failed, UserRetryFailed(rec)
      PROVE  CleanupJustified'
  <2> DEFINE a == rec.path
             key == rec.key
  <2>1. a \in Archives /\ key \in Keys
    BY <1>1 DEF FailureRecord
  <2>2. \/ rec.stage = "cleanup" /\ RetryCleanup(a, key)
        \/ rec.stage = "delete" /\ RetryDelete(a, key)
        \/ Requeue(a, key)
    BY <1>6 DEF UserRetryFailed
  <2>3. Removing(rec) => ExtractedFrom(extracted', a)
    BY <1>2, ExtractedStays DEF CleanupJustified
  <2> HIDE DEF a, key
  <2>4. CASE rec.stage = "cleanup" /\ RetryCleanup(a, key)
    <3> DEFINE f == ClearFailed(failed, key)
    <3>1. DeleteAfterReached(a, map, failed) \/ DeleteAfterReached(a, map, f)
      BY <2>4 DEF RetryCleanup, DeleteAfterReached
    <3>2. f \subseteq failed
      BY DEF ClearFailed
    <3> HIDE DEF f
    <3> QED
      BY <1>2, <2>1, <2>3, <2>4, <3>1, <3>2, DeleteAfterReachedJustified DEF Removing
  <2>5. CASE rec.stage = "delete" /\ RetryDelete(a, key)
    <3>1. QueueDelete(a, key) /\ UNCHANGED <<durable, owned, source, removed>>
      BY <2>5 DEF RetryDelete
    <3>2. \A i \in DOMAIN deletes' : ExtractedFrom(extracted', deletes'[i].path)
      BY <1>2, <2>1, <2>3, <2>5, <3>1, QueueDeleteJustified DEF Removing
    <3> QED
      BY <1>2, <3>1, <3>2, ExtractedStays DEF durable, owned, CleanupJustified
  <2>6. CASE Requeue(a, key)
    BY <1>5, <2>1, <2>6
  <2> QED
    BY <2>2, <2>4, <2>5, <2>6
<1>7. ASSUME NEW rec \in processed, UserRetryProcessed(rec)
      PROVE  CleanupJustified'
  BY <1>1, <1>5, <1>7 DEF UserRetryProcessed, SuccessRecord
<1>8. ASSUME NEW rec \in ignored, UserUnignore(rec)
      PROVE  CleanupJustified'
  BY <1>2, <1>8, JustifiedBySubsets DEF UserUnignore, owned, cleanup
<1>9. CASE StopClear
  <2>1. \A b \in Archives : tracked'[b] = "EXTRACTED" => tracked[b] = "EXTRACTED"
    BY <1>1, <1>9 DEF StopClear
  <2> QED
    BY <1>2, <1>9, <2>1, JustifiedBySubsets DEF StopClear, cleanup
<1>10. CASE Resume
  BY <1>2, <1>10, JustifiedBySubsets DEF Resume, owned, cleanup
<1>11. CASE ResetHistory
  BY <1>2, <1>11, JustifiedBySubsets DEF ResetHistory, owned, cleanup
<1> QED
  BY <1>4, <1>6, <1>7, <1>8, <1>9, <1>10, <1>11 DEF User

LEMMA EnvironmentJustified ==
  ASSUME TypeOK, CleanupJustified, Environment
  PROVE  CleanupJustified'
<1>1. ASSUME NEW a \in Archives, NEW size, FileChanges(a, size)
      PROVE  CleanupJustified'
  BY <1>1, JustifiedBySubsets DEF FileChanges, durable, owned
<1>2. ASSUME NEW a \in Archives, RepeatedEvent(a)
      PROVE  CleanupJustified'
  BY <1>2, JustifiedBySubsets DEF RepeatedEvent, durable, owned, cleanup, ghosts
<1>3. CASE Restart
  <2>1. /\ deletes' = <<>> /\ failed' = failed /\ removed' = removed
        /\ extracted' = extracted /\ tracked' = [a \in Archives |-> "ABSENT"]
    BY <1>3 DEF Restart, durable
  <2> QED
    BY <2>1, ExtractedStays DEF CleanupJustified
<1> QED
  BY <1>1, <1>2, <1>3 DEF Environment, FileArrives, FileReplaced, FileVanishes

LEMMA NextJustified == TypeInv /\ CleanupJustified /\ [Next]_vars => CleanupJustified'
<1> SUFFICES ASSUME TypeInv, CleanupJustified, [Next]_vars
             PROVE  CleanupJustified'
  OBVIOUS
<1>1. TypeOK
  BY DEF TypeInv
<1>2. CASE UNCHANGED vars
  BY <1>2, JustifiedBySubsets DEF vars, durable, owned, cleanup, ghosts
<1>3. CASE Next
  BY <1>1, <1>3, DiscoveryJustified, CheckFolderJustified, CallbackJustified,
     DeleteWorkerJustified, UserJustified, EnvironmentJustified DEF Next
<1> QED
  BY <1>2, <1>3

\* However a cleanup is reached - at once, after its delay, by a retry after
\* any number of restarts - the path it removes a source from is one an
\* extraction of which was accepted.
THEOREM SourceSafeAlways == Spec => []SourceSafe
<1>1. Init => TypeInv
  BY InitType DEF TypeInv
<1>2. CleanupJustified => SourceSafe
  BY DEF CleanupJustified, ExtractedFrom, SourceSafe
<1> QED
  BY <1>1, <1>2, InitJustified, NextType, NextJustified, PTL DEF Spec

=============================================================================
