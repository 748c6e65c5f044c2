----------------------- MODULE FolderPipelineJobProofs -----------------------
(***************************************************************************)
(* What the statuses of an archive are good for: they keep a second job of *)
(* a path from being submitted until the answer to the first one has been  *)
(* received, so that no task hangs, none is dropped by a late answer, and  *)
(* an archive is extracted once for every time somebody asked for it.      *)
(***************************************************************************)
EXTENDS FolderPipelineProofs, FiniteSetTheorems

-----------------------------------------------------------------------------
(***************************************************************************)
(* The places of a job.                                                    *)
(***************************************************************************)
Queued(a) == \E i \in DOMAIN queue : queue[i] = a
Running(a) == \E j \in running : j.path = a
EndOf(a, i) == Finished(i) /\ updates[i].path = a
Answered(a) == \E i \in DOMAIN updates : EndOf(a, i)

QueuedOnce(a) == \A i, k \in DOMAIN queue : queue[i] = a /\ queue[k] = a => i = k
RunningOnce(a) == \A i, j \in running : i.path = a /\ j.path = a => i = j
AnsweredOnce(a) == \A i, k \in DOMAIN updates : EndOf(a, i) /\ EndOf(a, k) => i = k

\* A job is in one place, and there once.
OneJob(a) ==
    /\ QueuedOnce(a) /\ RunningOnce(a) /\ AnsweredOnce(a)
    /\ Queued(a) => ~Running(a) /\ ~Answered(a)
    /\ Running(a) => ~Answered(a)

\* The end of every job whose start is announced is still to be announced.
Announced ==
    \A i \in DOMAIN updates : ~Finished(i) =>
        \/ Running(updates[i].path)
        \/ \E k \in DOMAIN updates : k > i /\ EndOf(updates[i].path, k)

\* Nothing is submitted for a path whose statuses say that it is, nor for a
\* cancelled one while the system is paused.
Held(a) ==
    \/ map[a] \in Submitted /\ tracked[a] \in Submitted
    \/ paused /\ a \in cancelled

Locked(a) == OneJob(a) /\ (InFlight(a) => Held(a))
LockHeld == \A a \in Archives \ loosed : Locked(a)

JobInv == TypeInv /\ Announced /\ NoStuckTask /\ LockHeld

LEMMA InPlaces ==
  ASSUME NEW a \in Archives
  PROVE  /\ InFlight(a) <=> Queued(a) \/ Running(a) \/ Answered(a)
         /\ InFlight(a)' <=> (Queued(a) \/ Running(a) \/ Answered(a))'
  BY DEF InFlight, Queued, Running, Answered, EndOf

LEMMA AtMostOne ==
  ASSUME NEW S, \A x, y \in S : x = y
  PROVE  Cardinality(S) = IF S = {} THEN 0 ELSE 1
<1>1. CASE S = {}
  BY <1>1, FS_EmptySet
<1>2. CASE S # {}
  <2>1. PICK x : S = {x}
    BY <1>2
  <2> QED
    BY <1>2, <2>1, FS_Singleton
<1> QED
  BY <1>1, <1>2

LEMMA OneJobCounts ==
  ASSUME NEW a \in Archives, OneJob(a)
  PROVE  Jobs(a) <= 1
<1> DEFINE Q == {i \in DOMAIN queue : queue[i] = a}
           R == {j \in running : j.path = a}
           U == {i \in DOMAIN updates : Finished(i) /\ updates[i].path = a}
<1>1. /\ \A x, y \in Q : x = y
      /\ \A x, y \in R : x = y
      /\ \A x, y \in U : x = y
  BY DEF OneJob, QueuedOnce, RunningOnce, AnsweredOnce, EndOf
<1>2. /\ Q # {} => R = {} /\ U = {}
      /\ R # {} => U = {}
  BY DEF OneJob, Queued, Running, Answered, EndOf
<1>3. Jobs(a) = Cardinality(Q) + Cardinality(R) + Cardinality(U)
  BY DEF Jobs
<1> HIDE DEF Q, R, U
<1>4. /\ Cardinality(Q) = IF Q = {} THEN 0 ELSE 1
      /\ Cardinality(R) = IF R = {} THEN 0 ELSE 1
      /\ Cardinality(U) = IF U = {} THEN 0 ELSE 1
  BY <1>1, AtMostOne
<1> QED
  BY <1>2, <1>3, <1>4

(***************************************************************************)
(* What the channels do to the places.                                     *)
(***************************************************************************)
LEMMA TailElements ==
  ASSUME NEW S, NEW s \in Seq(S), s # <<>>
  PROVE  /\ 1 \in DOMAIN s /\ Head(s) = s[1] /\ Head(s) \in S
         /\ DOMAIN s \subseteq Nat
         /\ \A k \in DOMAIN Tail(s) : k \in Nat \ {0} /\ k + 1 \in DOMAIN s
                                      /\ Tail(s)[k] = s[k + 1]
         /\ \A i \in DOMAIN s : i # 1 => i - 1 \in DOMAIN Tail(s) /\ Tail(s)[i - 1] = s[i]
  OBVIOUS

LEMMA AppendElements ==
  ASSUME NEW S, NEW s \in Seq(S), NEW e \in S
  PROVE  /\ \A i \in DOMAIN s : /\ i \in DOMAIN Append(s, e)
                                /\ Append(s, e)[i] = s[i]
                                /\ i < Len(s) + 1
         /\ Len(s) + 1 \in DOMAIN Append(s, e) /\ Append(s, e)[Len(s) + 1] = e
         /\ \A i \in DOMAIN Append(s, e) : i \in DOMAIN s \/ i = Len(s) + 1
  OBVIOUS

LEMMA PlacesStay ==
  ASSUME UNCHANGED <<queue, running, updates>>
  PROVE  /\ \A a \in Archives : (OneJob(a) <=> OneJob(a)') /\ (InFlight(a) <=> InFlight(a)')
         /\ Announced => Announced'
  BY DEF OneJob, Queued, Running, Answered, QueuedOnce, RunningOnce, AnsweredOnce, EndOf,
         InFlight, Finished, Announced

LEMMA QueueAppends ==
  ASSUME NEW a \in Archives, NEW s \in Archives, ChannelsOK, queue' = Append(queue, s)
  PROVE  /\ Queued(a)' <=> Queued(a) \/ s = a
         /\ QueuedOnce(a) /\ (s = a => ~Queued(a)) => QueuedOnce(a)'
<1>1. /\ \A i \in DOMAIN queue : i \in DOMAIN queue' /\ queue'[i] = queue[i]
      /\ Len(queue) + 1 \in DOMAIN queue' /\ queue'[Len(queue) + 1] = s
      /\ \A i \in DOMAIN queue' : i \in DOMAIN queue \/ i = Len(queue) + 1
  BY AppendElements DEF ChannelsOK
<1> QED
  BY <1>1 DEF Queued, QueuedOnce

LEMMA QueuePops ==
  ASSUME NEW a \in Archives, ChannelsOK, queue # <<>>, queue' = Tail(queue)
  PROVE  /\ Queued(a)' => Queued(a)
         /\ Queued(a) => Queued(a)' \/ Head(queue) = a
         /\ QueuedOnce(a) => QueuedOnce(a)'
         /\ Head(queue) = a => Queued(a) /\ (QueuedOnce(a) => ~Queued(a)')
<1>1. /\ 1 \in DOMAIN queue /\ Head(queue) = queue[1]
      /\ \A k \in DOMAIN queue' : k \in Nat \ {0} /\ k + 1 \in DOMAIN queue
                                  /\ queue'[k] = queue[k + 1]
      /\ \A i \in DOMAIN queue : i # 1 => i - 1 \in DOMAIN queue' /\ queue'[i - 1] = queue[i]
  BY TailElements DEF ChannelsOK
<1>2. /\ Queued(a)' => Queued(a)
      /\ Queued(a) => Queued(a)' \/ Head(queue) = a
  <2>1. ASSUME NEW k \in DOMAIN queue', queue'[k] = a
        PROVE  Queued(a)
    BY <1>1, <2>1 DEF Queued
  <2>2. ASSUME NEW i \in DOMAIN queue, queue[i] = a
        PROVE  Queued(a)' \/ Head(queue) = a
    <3>1. CASE i = 1
      BY <1>1, <2>2, <3>1
    <3>2. CASE i # 1
      <4>1. i - 1 \in DOMAIN queue' /\ queue'[i - 1] = a
        BY <1>1, <2>2, <3>2
      <4> QED
        BY <4>1 DEF Queued
    <3> QED
      BY <3>1, <3>2
  <2> QED
    BY <2>1, <2>2 DEF Queued
<1>3. ASSUME QueuedOnce(a)
      PROVE  QueuedOnce(a)'
  <2> SUFFICES ASSUME NEW i \in DOMAIN queue', NEW k \in DOMAIN queue',
                      queue'[i] = a, queue'[k] = a
               PROVE  i = k
    BY DEF QueuedOnce
  <2>1. i + 1 = k + 1
    BY <1>1, <1>3 DEF QueuedOnce
  <2> QED
    BY <1>1, <2>1
<1>4. ASSUME Head(queue) = a
      PROVE  Queued(a) /\ (QueuedOnce(a) => ~Queued(a)')
  <2>1. Queued(a)
    BY <1>1, <1>4 DEF Queued
  <2>2. ASSUME QueuedOnce(a), NEW k \in DOMAIN queue', queue'[k] = a
        PROVE  FALSE
    <3>1. k + 1 = 1
      BY <1>1, <1>4, <2>2 DEF QueuedOnce
    <3> QED
      BY <1>1, <3>1
  <2> QED
    BY <2>1, <2>2 DEF Queued
<1> QED
  BY <1>2, <1>3, <1>4

LEMMA UpdatesAppend ==
  ASSUME NEW a \in Archives, NEW u \in Message, ChannelsOK, updates' = Append(updates, u)
  PROVE  /\ Answered(a)' <=> Answered(a) \/ (u.done /\ u.path = a)
         /\ AnsweredOnce(a) /\ (u.done /\ u.path = a => ~Answered(a)) => AnsweredOnce(a)'
<1>1. PICK n : /\ \A i \in DOMAIN updates : i \in DOMAIN updates' /\ updates'[i] = updates[i]
               /\ n \in DOMAIN updates' /\ updates'[n] = u
               /\ \A i \in DOMAIN updates' : i \in DOMAIN updates \/ i = n
  BY AppendElements DEF ChannelsOK
<1>2. \A i \in DOMAIN updates' :
          EndOf(a, i)' <=> IF i = n THEN u.done /\ u.path = a ELSE EndOf(a, i)
  BY <1>1 DEF EndOf, Finished
<1>3. n \in DOMAIN updates => (EndOf(a, n) <=> u.done /\ u.path = a)
  BY <1>1 DEF EndOf, Finished
<1> QED
  BY <1>1, <1>2, <1>3 DEF Answered, AnsweredOnce

LEMMA UpdatesPop ==
  ASSUME NEW a \in Archives, ChannelsOK, updates # <<>>, updates' = Tail(updates)
  PROVE  /\ Answered(a)' => Answered(a)
         /\ Answered(a) => Answered(a)' \/ (Head(updates).done /\ Head(updates).path = a)
         /\ AnsweredOnce(a) => AnsweredOnce(a)'
         /\ Head(updates).done /\ Head(updates).path = a
               => Answered(a) /\ (AnsweredOnce(a) => ~Answered(a)')
<1>1. /\ 1 \in DOMAIN updates /\ Head(updates) = updates[1]
      /\ \A k \in DOMAIN updates' : k \in Nat \ {0} /\ k + 1 \in DOMAIN updates
                                    /\ updates'[k] = updates[k + 1]
      /\ \A i \in DOMAIN updates : i # 1 => i - 1 \in DOMAIN updates' /\ updates'[i - 1] = updates[i]
  BY TailElements DEF ChannelsOK
<1>2. \A k \in DOMAIN updates' : EndOf(a, k)' <=> EndOf(a, k + 1)
  BY <1>1 DEF EndOf, Finished
<1>3. Answered(a)' => Answered(a)
  BY <1>1, <1>2 DEF Answered
<1>4. Answered(a) => Answered(a)' \/ (Head(updates).done /\ Head(updates).path = a)
  <2> SUFFICES ASSUME NEW i \in DOMAIN updates, EndOf(a, i), i # 1
               PROVE  Answered(a)'
    BY <1>1 DEF Answered, EndOf, Finished
  <2>1. EndOf(a, i - 1)' /\ i - 1 \in DOMAIN updates'
    BY <1>1 DEF EndOf, Finished
  <2> QED
    BY <2>1 DEF Answered
<1>5. ASSUME AnsweredOnce(a)
      PROVE  AnsweredOnce(a)'
  <2> SUFFICES ASSUME NEW i \in DOMAIN updates', NEW k \in DOMAIN updates',
                      EndOf(a, i)', EndOf(a, k)'
               PROVE  i = k
    BY DEF AnsweredOnce
  <2>1. i + 1 = k + 1
    BY <1>1, <1>2, <1>5 DEF AnsweredOnce
  <2> QED
    BY <1>1, <2>1
<1>6. ASSUME Head(updates).done, Head(updates).path = a
      PROVE  Answered(a) /\ (AnsweredOnce(a) => ~Answered(a)')
  <2>1. EndOf(a, 1)
    BY <1>1, <1>6 DEF EndOf, Finished
  <2>2. ASSUME AnsweredOnce(a), NEW k \in DOMAIN updates', EndOf(a, k)'
        PROVE  FALSE
    <3>1. k + 1 = 1
      BY <1>1, <1>2, <2>1, <2>2 DEF AnsweredOnce
    <3> QED
      BY <1>1, <3>1
  <2> QED
    BY <1>1, <2>1, <2>2 DEF Answered
<1> QED
  BY <1>3, <1>4, <1>5, <1>6

\* A worker appends an answer; if it ends a job, a finished one of its path.
LEMMA AppendAnnounced ==
  ASSUME NEW u \in Message, ChannelsOK, Announced, updates' = Append(updates, u),
         \A j \in running : j \in running' \/ (u.done /\ u.path = j.path),
         u.done \/ Running(u.path)'
  PROVE  Announced'
<1>1. PICK n : /\ \A i \in DOMAIN updates : /\ i \in DOMAIN updates'
                                            /\ updates'[i] = updates[i]
                                            /\ i < n
               /\ n \in DOMAIN updates' /\ updates'[n] = u
               /\ \A i \in DOMAIN updates' : i \in DOMAIN updates \/ i = n
  BY AppendElements DEF ChannelsOK
<1> SUFFICES ASSUME NEW i \in DOMAIN updates', ~updates'[i].done
             PROVE  \/ \E j \in running' : j.path = updates'[i].path
                    \/ \E k \in DOMAIN updates' : k > i /\ updates'[k].done
                                                  /\ updates'[k].path = updates'[i].path
  BY DEF Announced, Finished, EndOf, Running
<1>2. CASE i = n
  BY <1>1, <1>2 DEF Running
<1>3. CASE i \in DOMAIN updates
  <2>1. \/ \E j \in running : j.path = updates[i].path
        \/ \E k \in DOMAIN updates : k > i /\ updates[k].done
                                     /\ updates[k].path = updates[i].path
    BY <1>1, <1>3 DEF Announced, Finished, EndOf, Running
  <2>2. CASE \E j \in running : j.path = updates[i].path
    <3>1. PICK j \in running : j.path = updates[i].path
      BY <2>2
    <3>2. j \in running' \/ (n > i /\ updates'[n].done /\ updates'[n].path = updates'[i].path)
      BY <1>1, <1>3, <3>1 DEF ChannelsOK
    <3> QED
      BY <1>1, <1>3, <3>1, <3>2
  <2>3. CASE \E k \in DOMAIN updates : k > i /\ updates[k].done
                                      /\ updates[k].path = updates[i].path
    BY <1>1, <1>3, <2>3
  <2> QED
    BY <2>1, <2>2, <2>3
<1> QED
  BY <1>1, <1>2, <1>3

LEMMA PopAnnounced ==
  ASSUME ChannelsOK, Announced, updates # <<>>, updates' = Tail(updates), running' = running
  PROVE  /\ Announced'
         /\ ~Head(updates).done => InFlight(Head(updates).path)
<1>1. /\ 1 \in DOMAIN updates /\ Head(updates) = updates[1] /\ DOMAIN updates \subseteq Nat
      /\ \A k \in DOMAIN updates' : k \in Nat \ {0} /\ k + 1 \in DOMAIN updates
                                    /\ updates'[k] = updates[k + 1]
      /\ \A i \in DOMAIN updates : i # 1 => i - 1 \in DOMAIN updates' /\ updates'[i - 1] = updates[i]
  BY TailElements DEF ChannelsOK
<1>2. ~Head(updates).done => InFlight(Head(updates).path)
  BY <1>1 DEF Announced, Finished, EndOf, Running, InFlight
<1> SUFFICES ASSUME NEW i \in DOMAIN updates', ~updates'[i].done
             PROVE  \/ \E j \in running' : j.path = updates'[i].path
                    \/ \E k \in DOMAIN updates' : k > i /\ updates'[k].done
                                                  /\ updates'[k].path = updates'[i].path
  BY <1>2 DEF Announced, Finished, EndOf, Running
<1>3. \/ \E j \in running : j.path = updates[i + 1].path
      \/ \E k \in DOMAIN updates : k > i + 1 /\ updates[k].done
                                   /\ updates[k].path = updates[i + 1].path
  BY <1>1 DEF Announced, Finished, EndOf, Running
<1>4. CASE \E k \in DOMAIN updates : k > i + 1 /\ updates[k].done
                                    /\ updates[k].path = updates[i + 1].path
  <2>1. PICK k \in DOMAIN updates : k > i + 1 /\ updates[k].done
                                   /\ updates[k].path = updates[i + 1].path
    BY <1>4
  <2>2. i \in Nat /\ k \in Nat
    BY <1>1
  <2>3. k # 1 /\ k - 1 > i
    BY <2>1, <2>2
  <2> QED
    BY <1>1, <2>1, <2>3
<1> QED
  BY <1>1, <1>3, <1>4

-----------------------------------------------------------------------------
(***************************************************************************)
(* The workers, and the answers the main loop receives.                    *)
(***************************************************************************)
LEMMA WorkKeeps ==
  ASSUME JobInv, NEW w \in Workers, Work(w)
  PROVE  Announced' /\ NoStuckTask' /\ LockHeld'
<1>1. ChannelsOK /\ Announced /\ source \in [Archives -> Sizes \cup {NoSize}]
  BY TypeParts DEF JobInv, TypeInv, CleanupOK
<1>2. UNCHANGED <<map, tracked, paused, cancelled, loosed>>
  BY DEF Work, StartJob, FindNothing, FinishJob, TakeJob, durable, owned, ghosts
\* One job of a path stays one, and the path keeps it.
<1> DEFINE Moved == \A a \in Archives : /\ OneJob(a) => OneJob(a)'
                                        /\ InFlight(a) <=> InFlight(a)'
<1>3. ASSUME Moved, Announced'
      PROVE  Announced' /\ NoStuckTask' /\ LockHeld'
  <2>1. \A a \in Archives : Held(a) => Held(a)'
    BY <1>2 DEF Held
  <2> QED
    BY <1>2, <1>3, <2>1 DEF JobInv, NoStuckTask, LockHeld, Locked
<1>4. CASE StartJob(w)
  <2> DEFINE j == [worker |-> w, path |-> Head(queue), size |-> source[Head(queue)]]
             u == Response(Head(queue), FALSE, "start", source[Head(queue)])
  <2>1. /\ queue # <<>> /\ queue' = Tail(queue) /\ running' = running \cup {j}
        /\ updates' = Append(updates, u)
    BY <1>4 DEF StartJob, TakeJob
  <2>2. Head(queue) \in Archives
    BY <1>1, <2>1, TailElements DEF ChannelsOK
  <2>3. u \in Message /\ ~u.done /\ u.path = Head(queue)
    BY <1>1, <2>2 DEF Response, Message
  <2>4. j.path = Head(queue)
    OBVIOUS
  <2> HIDE DEF j, u
  <2>5. Announced'
    BY <1>1, <2>1, <2>3, <2>4, AppendAnnounced DEF Running
  <2>6. ASSUME NEW a \in Archives
        PROVE  (OneJob(a) => OneJob(a)') /\ (InFlight(a) <=> InFlight(a)')
    <3>1. /\ Answered(a)' <=> Answered(a)
          /\ AnsweredOnce(a) => AnsweredOnce(a)'
      BY <1>1, <2>1, <2>3, UpdatesAppend
    <3>2. /\ Running(a)' <=> Running(a) \/ Head(queue) = a
          /\ RunningOnce(a) /\ (Head(queue) = a => ~Running(a)) => RunningOnce(a)'
      BY <2>1, <2>4 DEF Running, RunningOnce
    <3> QED
      BY <1>1, <2>1, <3>1, <3>2, QueuePops, InPlaces DEF OneJob
  <2> QED
    BY <1>3, <2>5, <2>6
<1>5. CASE FindNothing(w)
  <2> DEFINE u == Response(Head(queue), TRUE, "nothing", NoSize)
  <2>1. /\ queue # <<>> /\ queue' = Tail(queue) /\ running' = running
        /\ updates' = Append(updates, u)
    BY <1>5 DEF FindNothing, TakeJob
  <2>2. Head(queue) \in Archives
    BY <1>1, <2>1, TailElements DEF ChannelsOK
  <2>3. u \in Message /\ u.done /\ u.path = Head(queue)
    BY <2>2 DEF Response, Message
  <2> HIDE DEF u
  <2>4. Announced'
    BY <1>1, <2>1, <2>3, AppendAnnounced
  <2>5. ASSUME NEW a \in Archives
        PROVE  (OneJob(a) => OneJob(a)') /\ (InFlight(a) <=> InFlight(a)')
    <3>1. /\ Answered(a)' <=> Answered(a) \/ Head(queue) = a
          /\ AnsweredOnce(a) /\ (Head(queue) = a => ~Answered(a)) => AnsweredOnce(a)'
      BY <1>1, <2>1, <2>3, UpdatesAppend
    <3>2. /\ Running(a)' <=> Running(a)
          /\ RunningOnce(a) => RunningOnce(a)'
      BY <2>1 DEF Running, RunningOnce
    <3> QED
      BY <1>1, <2>1, <3>1, <3>2, QueuePops, InPlaces DEF OneJob
  <2> QED
    BY <1>3, <2>4, <2>5
<1>6. ASSUME NEW result \in {"ok", "error"}, FinishJob(w, result)
      PROVE  Announced' /\ NoStuckTask' /\ LockHeld'
  <2>1. PICK j \in running :
           /\ running' = running \ {j} /\ queue' = queue
           /\ updates' = Append(updates, Response(j.path, TRUE, result, j.size))
    BY <1>6 DEF FinishJob
  <2> DEFINE u == Response(j.path, TRUE, result, j.size)
  <2>2. u \in Message /\ u.done /\ u.path = j.path
    BY <1>1 DEF Response, Message, ChannelsOK, Job
  <2>3. updates' = Append(updates, u)
    BY <2>1
  <2> HIDE DEF u
  <2>4. Announced'
    BY <1>1, <2>1, <2>2, <2>3, AppendAnnounced
  <2>5. ASSUME NEW a \in Archives
        PROVE  (OneJob(a) => OneJob(a)') /\ (InFlight(a) <=> InFlight(a)')
    <3>1. /\ Answered(a)' <=> Answered(a) \/ j.path = a
          /\ AnsweredOnce(a) /\ (j.path = a => ~Answered(a)) => AnsweredOnce(a)'
      BY <1>1, <2>2, <2>3, UpdatesAppend
    <3>2. /\ Running(a)' => Running(a)
          /\ Running(a) => Running(a)' \/ j.path = a
          /\ j.path = a => Running(a) /\ (RunningOnce(a) => ~Running(a)')
          /\ RunningOnce(a) => RunningOnce(a)'
      BY <2>1 DEF Running, RunningOnce
    <3>3. (Queued(a)' <=> Queued(a)) /\ (QueuedOnce(a) => QueuedOnce(a)')
      BY <2>1 DEF Queued, QueuedOnce
    <3> QED
      BY <3>1, <3>2, <3>3, InPlaces DEF OneJob
  <2> QED
    BY <1>3, <2>4, <2>5
<1> QED
  BY <1>4, <1>5, <1>6 DEF Work

\* What an answer does to the statuses: of its path only, and the end of a job
\* leaves none that waits for one.
LEMMA CallbackEffects ==
  ASSUME TypeInv, Callback, NEW resp, resp = Head(updates), NEW a, a = resp.path
  PROVE  /\ updates # <<>> /\ Answer(resp) /\ a \in Archives /\ resp \in Message
         /\ \A b \in Archives \ {a} : map'[b] = map[b] /\ tracked'[b] = tracked[b]
         /\ resp.done => map'[a] \notin Submitted /\ tracked'[a] \notin Submitted
         /\ ~resp.done =>
               \/ a \in cancelled /\ UNCHANGED owned
               \/ a \notin cancelled /\ ~Known(a) /\ map'[a] = "ABSENT" /\ tracked'[a] = "ABSENT"
               \/ a \notin cancelled /\ Known(a) /\ map'[a] = "EXTRACTING" /\ tracked'[a] = "EXTRACTING"
<1>1. updates # <<>> /\ Answer(resp)
  BY DEF Callback, CallbackCancelled, CallbackUnknown, CallbackStarted,
         CallbackNothing, CallbackFailed, CallbackExtracted
<1>2. a \in Archives /\ resp \in Message
  BY <1>1, AnswerTypes
<1>3. map \in [Archives -> Statuses] /\ tracked \in [Archives -> Statuses]
  BY TypeParts DEF TypeInv, OwnedOK
<1>4. resp.done \in BOOLEAN
  BY <1>2 DEF Message
<1>5. CASE CallbackCancelled(resp)
  BY <1>1, <1>2, <1>3, <1>4, <1>5 DEF CallbackCancelled, Forget, owned, Submitted
<1>6. CASE CallbackUnknown(resp)
  BY <1>1, <1>2, <1>3, <1>4, <1>6 DEF CallbackUnknown, Forget, Submitted
<1>7. CASE CallbackStarted(resp)
  BY <1>1, <1>2, <1>3, <1>4, <1>7 DEF CallbackStarted, Accepted, SetStatus
<1>8. CASE CallbackNothing(resp)
  BY <1>1, <1>2, <1>3, <1>4, <1>8 DEF CallbackNothing, SetStatus, Submitted
<1>9. CASE CallbackFailed(resp)
  BY <1>1, <1>2, <1>3, <1>4, <1>9 DEF CallbackFailed, SetStatus, Submitted
<1>10. CASE CallbackExtracted(resp)
  <2> DEFINE m == [map EXCEPT ![a] = "EXTRACTED"]
             f == IF Present(a) THEN ClearFailed(failed, Version(a)) ELSE failed
  <2>1. /\ resp.done
        /\ \/ DeleteAfterReached(a, m, f)
           \/ tracked' = [tracked EXCEPT ![a] = "EXTRACTED"] /\ map' = m
    BY <1>10 DEF CallbackExtracted
  <2>2. /\ m \in [Archives -> Statuses] /\ m[a] = "EXTRACTED"
        /\ \A b \in Archives \ {a} : m[b] = map[b]
    BY <1>2, <1>3 DEF Statuses
  <2> HIDE DEF m, f
  <2>3. /\ \A b \in Archives \ {a} : map'[b] = map[b] /\ tracked'[b] = tracked[b]
        /\ map'[a] \notin Submitted /\ tracked'[a] \notin Submitted
    BY <1>2, <1>3, <2>1, <2>2
       DEF DeleteAfterReached, ArchiveFails, Archive, Delete, Keep, CleanedUp, Submitted
  <2> QED
    BY <1>1, <1>2, <2>1, <2>3
<1> QED
  BY <1>1, <1>5, <1>6, <1>7, <1>8, <1>9, <1>10 DEF Callback

LEMMA CallbackKeeps ==
  ASSUME JobInv, Callback
  PROVE  Announced' /\ NoStuckTask' /\ LockHeld'
<1> DEFINE resp == Head(updates)
           p == resp.path
<1>1. /\ updates # <<>> /\ Answer(resp) /\ p \in Archives /\ resp.done \in BOOLEAN
      /\ \A b \in Archives \ {p} : map'[b] = map[b] /\ tracked'[b] = tracked[b]
      /\ resp.done => map'[p] \notin Submitted /\ tracked'[p] \notin Submitted
      /\ ~resp.done =>
            \/ p \in cancelled /\ map' = map /\ tracked' = tracked
            \/ p \notin cancelled /\ ~Known(p) /\ map'[p] = "ABSENT" /\ tracked'[p] = "ABSENT"
            \/ p \notin cancelled /\ Known(p) /\ map'[p] = "EXTRACTING" /\ tracked'[p] = "EXTRACTING"
  BY CallbackEffects DEF JobInv, owned, Message
<1>2. /\ updates' = Tail(updates)
      /\ UNCHANGED <<queue, running, paused, cancelled, loosed>>
  BY <1>1 DEF Answer
<1>3. ChannelsOK
  BY TypeParts DEF JobInv, TypeInv
<1>4. Announced' /\ (~resp.done => InFlight(p))
  BY <1>1, <1>2, <1>3, PopAnnounced DEF JobInv
<1>5. ASSUME NEW a \in Archives
      PROVE  /\ OneJob(a) => OneJob(a)'
             /\ InFlight(a)' => InFlight(a)
             /\ ~(resp.done /\ p = a) /\ InFlight(a) => InFlight(a)'
             /\ resp.done /\ p = a /\ OneJob(a) => ~InFlight(a)'
  <2>1. /\ Queued(a)' <=> Queued(a)
        /\ QueuedOnce(a) => QueuedOnce(a)'
        /\ Running(a)' <=> Running(a)
        /\ RunningOnce(a) => RunningOnce(a)'
    BY <1>2 DEF Queued, QueuedOnce, Running, RunningOnce
  <2> QED
    BY <1>1, <1>2, <1>3, <2>1, UpdatesPop, InPlaces DEF OneJob
<1> HIDE DEF p, resp
<1>6. NoStuckTask'
  <2> SUFFICES ASSUME NEW a \in Archives, map'[a] \in Submitted \/ tracked'[a] \in Submitted
               PROVE  InFlight(a)'
    BY DEF NoStuckTask
  <2>1. ~(resp.done /\ p = a)
    BY <1>1
  <2>2. InFlight(a)
    <3>1. CASE a = p
      BY <1>4, <2>1, <3>1
    <3>2. CASE a # p
      BY <1>1, <3>2 DEF JobInv, NoStuckTask
    <3> QED
      BY <3>1, <3>2
  <2> QED
    BY <1>5, <2>1, <2>2
<1>7. LockHeld'
  <2> SUFFICES ASSUME NEW a \in Archives, a \notin loosed, InFlight(a)'
               PROVE  Held(a)'
    BY <1>2, <1>5 DEF JobInv, LockHeld, Locked
  <2>1. OneJob(a) /\ InFlight(a) /\ Held(a)
    BY <1>5 DEF JobInv, LockHeld, Locked
  <2>2. CASE a = p
    <3>1. ~resp.done
      BY <1>5, <2>1, <2>2
    <3> QED
      BY <1>1, <1>2, <2>1, <2>2, <3>1 DEF Held, Known, Submitted
  <2>3. CASE a # p
    BY <1>1, <1>2, <2>1, <2>3 DEF Held
  <2> QED
    BY <2>2, <2>3
<1> QED
  BY <1>4, <1>6, <1>7

-----------------------------------------------------------------------------
(***************************************************************************)
(* Steps that submit nothing and answer nothing.                           *)
(***************************************************************************)
LEMMA QuietKeeps ==
  ASSUME JobInv, UNCHANGED <<queue, running, updates>>, loosed \subseteq loosed',
         \A a \in Archives : (map'[a] \in Submitted \/ tracked'[a] \in Submitted)
                             => (map[a] \in Submitted \/ tracked[a] \in Submitted),
         \A a \in Archives : a \notin loosed' /\ InFlight(a) /\ Held(a) => Held(a)'
  PROVE  Announced' /\ NoStuckTask' /\ LockHeld'
  BY PlacesStay DEF JobInv, NoStuckTask, LockHeld, Locked

\* The statuses change of one path, and they do not hold it.
LEMMA OneChanges ==
  ASSUME JobInv, UNCHANGED <<queue, running, updates, paused, cancelled, loosed>>,
         NEW a \in Archives, map[a] \notin Submitted \/ tracked[a] \notin Submitted,
         \A b \in Archives \ {a} : map'[b] = map[b] /\ tracked'[b] = tracked[b],
         map'[a] \in Submitted => map[a] \in Submitted,
         tracked'[a] \in Submitted => tracked[a] \in Submitted
  PROVE  Announced' /\ NoStuckTask' /\ LockHeld'
<1>1. \A b \in Archives : Held(b) => Held(b)'
  BY DEF Held
<1> QED
  BY <1>1, QuietKeeps

LEMMA NothingChanges ==
  ASSUME JobInv, UNCHANGED <<queue, running, updates, paused, cancelled, loosed, map, tracked>>
  PROVE  Announced' /\ NoStuckTask' /\ LockHeld'
<1>1. \A b \in Archives : Held(b) => Held(b)'
  BY DEF Held
<1> QED
  BY <1>1, QuietKeeps

LEMMA DiscoveryKeeps ==
  ASSUME JobInv, ProcessEvent \/ \E a \in Archives : Scan(a)
  PROVE  Announced' /\ NoStuckTask' /\ LockHeld'
<1>1. CASE \E a \in Archives : Scan(a)
  BY <1>1, NothingChanges DEF Scan, durable, owned, ghosts
<1>2. CASE DropEvent
  BY <1>2, NothingChanges DEF DropEvent, NextEvent, durable, owned, ghosts
<1>3. CASE UntrackVanished \/ TrackArrival
  <2> DEFINE e == Head(events)
  <2>1. /\ UNCHANGED <<queue, running, updates, paused, cancelled, loosed>>
        /\ events # <<>> /\ ~Unwanted(e)
    BY <1>3 DEF UntrackVanished, TrackArrival, NextEvent, durable, ghosts
  <2>2. e \in Archives
    BY <2>1, TypeParts DEF JobInv, TypeInv, ChannelsOK
  <2>3. tracked \in [Archives -> Statuses]
    BY TypeParts DEF JobInv, TypeInv, OwnedOK
  <2>4. map[e] \notin Submitted
    BY <2>1 DEF Unwanted, FolderTaskInProgress, UpToExtracting, Submitted
  <2>5. /\ map' = map
        /\ \A b \in Archives \ {e} : tracked'[b] = tracked[b]
        /\ tracked'[e] \in Submitted => tracked[e] \in Submitted
    BY <1>3, <2>2, <2>3 DEF UntrackVanished, TrackArrival, Submitted
  <2> HIDE DEF e
  <2> QED
    BY <2>1, <2>2, <2>4, <2>5, OneChanges
<1> QED
  BY <1>1, <1>2, <1>3 DEF ProcessEvent

\* What a cleanup does to the statuses.
LEMMA CleanupStatuses ==
  ASSUME NEW a \in Archives, NEW f, map \in [Archives -> Statuses],
         tracked \in [Archives -> Statuses],
         DeleteAfterReached(a, map, f)
  PROVE  /\ \A b \in Archives \ {a} : map'[b] = map[b] /\ tracked'[b] = tracked[b]
         /\ map'[a] \notin Submitted /\ tracked'[a] \notin Submitted
         /\ tracked'[a] = "ABSENT" \/ tracked'[a] = "DELETEFAILED"
  BY DEF DeleteAfterReached, ArchiveFails, Archive, Delete, Keep, CleanedUp, Submitted

\* A submission finds its path without a job.
LEMMA SubmitKeeps ==
  ASSUME JobInv, NEW a \in Archives, Submit(a), ~Held(a),
         UNCHANGED <<running, updates, paused, cancelled, loosed>>
  PROVE  Announced' /\ NoStuckTask' /\ LockHeld'
<1>1. ChannelsOK /\ map \in [Archives -> Statuses] /\ tracked \in [Archives -> Statuses]
  BY TypeParts DEF JobInv, TypeInv, OwnedOK
<1>2. /\ queue' = Append(queue, a)
      /\ map'[a] = "QUEUED" /\ tracked'[a] = "QUEUED"
      /\ \A b \in Archives \ {a} : map'[b] = map[b] /\ tracked'[b] = tracked[b]
  BY <1>1 DEF Submit
<1>3. Announced'
  BY DEF JobInv, Announced, Finished, EndOf, Running
<1>4. ASSUME NEW b \in Archives
      PROVE  /\ Queued(b)' <=> Queued(b) \/ a = b
             /\ QueuedOnce(b) /\ (a = b => ~Queued(b)) => QueuedOnce(b)'
             /\ Running(b)' <=> Running(b)
             /\ RunningOnce(b) => RunningOnce(b)'
             /\ Answered(b)' <=> Answered(b)
             /\ AnsweredOnce(b) => AnsweredOnce(b)'
  <2>1. /\ Queued(b)' <=> Queued(b) \/ a = b
        /\ QueuedOnce(b) /\ (a = b => ~Queued(b)) => QueuedOnce(b)'
    BY <1>1, <1>2, QueueAppends
  <2> QED
    BY <2>1 DEF Running, RunningOnce, Answered, AnsweredOnce, EndOf, Finished
<1>5. ASSUME NEW b \in Archives
      PROVE  InFlight(b)' <=> InFlight(b) \/ a = b
  BY <1>4, InPlaces
<1>6. NoStuckTask'
  BY <1>2, <1>5 DEF JobInv, NoStuckTask
<1>7. LockHeld'
  <2> SUFFICES ASSUME NEW b \in Archives, b \notin loosed
               PROVE  Locked(b)'
    BY DEF LockHeld
  <2>1. Locked(b)
    BY DEF JobInv, LockHeld
  <2>2. CASE a = b
    <3>1. ~InFlight(b)
      BY <2>1, <2>2 DEF Locked
    <3>2. OneJob(b)'
      BY <1>4, <2>1, <3>1, InPlaces DEF OneJob, Locked
    <3>3. Held(b)'
      BY <1>2, <2>2 DEF Held, Submitted
    <3> QED
      BY <3>2, <3>3 DEF Locked
  <2>3. CASE a # b
    <3>1. OneJob(b)'
      BY <1>4, <2>1, <2>3 DEF OneJob, Locked
    <3>2. Held(b) => Held(b)'
      BY <1>2, <2>3 DEF Held
    <3> QED
      BY <1>5, <2>1, <2>3, <3>1, <3>2 DEF Locked
  <2> QED
    BY <2>2, <2>3
<1> QED
  BY <1>3, <1>6, <1>7

LEMMA CheckFolderKeeps ==
  ASSUME JobInv, NEW a \in Archives, CheckFolder(a)
  PROVE  Announced' /\ NoStuckTask' /\ LockHeld'
<1>1. map \in [Archives -> Statuses] /\ tracked \in [Archives -> Statuses]
  BY TypeParts DEF JobInv, TypeInv, OwnedOK
<1>2. UNCHANGED <<running, updates, paused, cancelled, loosed>>
  BY DEF CheckFolder, ExtractTracked, ForgetNothing, RetryFailed, GiveUp, CleanFolder,
         ExpireDeleted, durable, channels, ghosts
<1>3. map[a] \notin Submitted \/ tracked[a] \notin Submitted
  BY DEF CheckFolder, ExtractTracked, ForgetNothing, RetryFailed, GiveUp, CleanFolder,
         ReadyToClean, ExpireDeleted, Submitted
<1>4. CASE ExtractTracked(a) /\ a \notin Redundant
  BY <1>2, <1>3, <1>4, SubmitKeeps DEF ExtractTracked, Held
<1>5. CASE /\ ExtractTracked(a) \/ ForgetNothing(a) \/ RetryFailed(a) \/ GiveUp(a)
                                \/ ExpireDeleted(a)
           /\ ~(ExtractTracked(a) /\ a \notin Redundant)
  <2>1. UNCHANGED queue
    BY <1>5 DEF ExtractTracked, ForgetNothing, RetryFailed, GiveUp, ExpireDeleted, channels
  <2>2. /\ \A b \in Archives \ {a} : map'[b] = map[b] /\ tracked'[b] = tracked[b]
        /\ map'[a] \in Submitted => map[a] \in Submitted
        /\ tracked'[a] \in Submitted => tracked[a] \in Submitted
    BY <1>1, <1>5
       DEF ExtractTracked, ForgetNothing, RetryFailed, GiveUp, ExpireDeleted, Forget, Submitted
  <2> QED
    BY <1>2, <1>3, <2>1, <2>2, OneChanges
<1>6. CASE CleanFolder(a)
  BY <1>1, <1>2, <1>3, <1>6, CleanupStatuses, OneChanges DEF CleanFolder, channels
<1> QED
  BY <1>4, <1>5, <1>6 DEF CheckFolder

LEMMA UserKeeps ==
  ASSUME JobInv, User
  PROVE  Announced' /\ NoStuckTask' /\ LockHeld'
<1>1. map \in [Archives -> Statuses] /\ tracked \in [Archives -> Statuses]
  BY TypeParts DEF JobInv, TypeInv, OwnedOK
<1>2. ASSUME NEW a \in Archives, UserCancel(a) \/ UserIgnore(a)
      PROVE  Announced' /\ NoStuckTask' /\ LockHeld'
  <2>1. TakeBack(a) /\ paused' = paused
    BY <1>2 DEF UserCancel, UserIgnore
  <2>2. UNCHANGED <<queue, running, updates, loosed>> /\ cancelled \subseteq cancelled'
    BY <2>1 DEF TakeBack, channels
  <2>3. \A b \in Archives : /\ map'[b] \in Submitted <=> map[b] \in Submitted
                            /\ tracked'[b] \in Submitted <=> tracked[b] \in Submitted
    BY <1>1, <2>1 DEF TakeBack, Submitted
  <2>4. \A b \in Archives : Held(b) => Held(b)'
    BY <2>1, <2>2, <2>3 DEF Held
  <2> QED
    BY <2>2, <2>3, <2>4, QuietKeeps
<1>3. ASSUME NEW rec \in ignored, UserUnignore(rec)
      PROVE  Announced' /\ NoStuckTask' /\ LockHeld'
  <2>1. /\ UNCHANGED <<queue, running, updates, map, tracked, paused>>
        /\ loosed' = loosed \cup {a \in cancelled \cap {rec.path} : InFlight(a)}
        /\ cancelled' = cancelled \ {rec.path}
    BY <1>3 DEF UserUnignore, Loose, channels, owned
  <2>2. \A a \in Archives : a \notin loosed' /\ InFlight(a) /\ Held(a) => Held(a)'
    BY <2>1 DEF Held
  <2> QED
    BY <2>1, <2>2, QuietKeeps
<1>4. ASSUME NEW a \in Archives, NEW key, MayUserRetry(a, key),
             Requeue(a, key) \/ RetryCleanup(a, key) \/ RetryDelete(a, key)
      PROVE  Announced' /\ NoStuckTask' /\ LockHeld'
  <2>1. UNCHANGED <<queue, running, updates, paused, loosed>>
    BY <1>4 DEF Requeue, RetryCleanup, RetryDelete, channels, durable, ghosts
  <2>2. ~Held(a) /\ ~paused
    BY <1>4 DEF MayUserRetry, RetryActive, UpToExtracting, Submitted, Held
  <2>3. /\ \A b \in Archives \ {a} : map'[b] = map[b] /\ tracked'[b] = tracked[b]
        /\ map'[a] \in Submitted => map[a] \in Submitted
        /\ tracked'[a] \in Submitted => tracked[a] \in Submitted
    <3>1. CASE Requeue(a, key)
      BY <1>1, <3>1 DEF Requeue, Submitted
    <3>2. CASE RetryCleanup(a, key)
      <4>1. \E f : DeleteAfterReached(a, map, f)
        BY <3>2 DEF RetryCleanup, DeleteAfterReached
      <4> QED
        BY <1>1, <4>1, CleanupStatuses
    <3>3. CASE RetryDelete(a, key)
      BY <3>3 DEF RetryDelete, owned
    <3> QED
      BY <1>4, <3>1, <3>2, <3>3
  <2>4. \A b \in Archives : Held(b) => Held(b)'
    BY <2>1, <2>2, <2>3 DEF Held
  <2> QED
    BY <2>1, <2>3, <2>4, QuietKeeps
<1>5. ASSUME NEW rec \in failed, UserRetryFailed(rec)
      PROVE  Announced' /\ NoStuckTask' /\ LockHeld'
  <2>1. rec.path \in Archives
    BY TypeParts DEF JobInv, TypeInv, DurableOK, FailureRecord
  <2> QED
    BY <1>4, <1>5, <2>1 DEF UserRetryFailed
<1>6. ASSUME NEW rec \in processed, UserRetryProcessed(rec)
      PROVE  Announced' /\ NoStuckTask' /\ LockHeld'
  <2>1. rec.path \in Archives
    BY TypeParts DEF JobInv, TypeInv, DurableOK, SuccessRecord
  <2> QED
    BY <1>4, <1>6, <2>1 DEF UserRetryProcessed
<1>7. CASE StopClear
  <2> DEFINE cleared == {a \in Archives : map[a] \notin {"ABSENT", "EXTRACTING"}}
  <2>1. /\ UNCHANGED <<queue, running, updates, loosed>>
        /\ paused' = TRUE /\ cancelled' = cancelled \cup cleared
        /\ map' = [a \in Archives |-> IF a \in cleared THEN "ABSENT" ELSE map[a]]
        /\ tracked' = [a \in Archives |-> IF a \in cleared THEN "ABSENT" ELSE tracked[a]]
    BY <1>7 DEF StopClear, channels, ghosts
  <2> HIDE DEF cleared
  <2>2. \A a \in Archives : Held(a) => Held(a)'
    BY <2>1 DEF Held
  <2> QED
    BY <2>1, <2>2, QuietKeeps DEF Submitted
<1>8. CASE Resume \/ ResetHistory
  <2>1. /\ UNCHANGED <<queue, running, updates, map, tracked>>
        /\ loosed' = loosed \cup {a \in cancelled \cap Archives : InFlight(a)}
    BY <1>8 DEF Resume, ResetHistory, Loose, channels, owned
  <2>2. \A a \in Archives : a \notin loosed' /\ InFlight(a) /\ Held(a) => Held(a)'
    BY <2>1 DEF Held
  <2> QED
    BY <2>1, <2>2, QuietKeeps
<1> QED
  BY <1>2, <1>3, <1>5, <1>6, <1>7, <1>8 DEF User

LEMMA EnvironmentKeeps ==
  ASSUME JobInv, Environment
  PROVE  Announced' /\ NoStuckTask' /\ LockHeld'
<1>1. CASE \E a \in Archives :
              \/ \E size \in Sizes : FileArrives(a, size) \/ FileReplaced(a, size)
              \/ FileVanishes(a)
              \/ RepeatedEvent(a)
  BY <1>1, NothingChanges
     DEF FileArrives, FileReplaced, FileVanishes, FileChanges, RepeatedEvent,
         durable, owned, ghosts
<1>2. CASE Restart
  <2>1. /\ queue' = <<>> /\ running' = {} /\ updates' = <<>>
        /\ \A a \in Archives : map'[a] = "ABSENT" /\ tracked'[a] = "ABSENT"
    BY <1>2 DEF Restart
  <2>2. /\ \A a \in Archives : OneJob(a)' /\ ~InFlight(a)'
        /\ Announced'
    BY <2>1 DEF OneJob, Queued, Running, Answered, QueuedOnce, RunningOnce, AnsweredOnce,
                EndOf, InFlight, Announced
  <2> QED
    BY <2>1, <2>2 DEF NoStuckTask, LockHeld, Locked, Submitted
<1> QED
  BY <1>1, <1>2 DEF Environment

-----------------------------------------------------------------------------
LEMMA InitJobs == Init => JobInv
<1> SUFFICES ASSUME Init PROVE JobInv
  OBVIOUS
<1>1. TypeInv
  BY InitType DEF TypeInv
<1>2. /\ queue = <<>> /\ running = {} /\ updates = <<>>
      /\ \A a \in Archives : map[a] = "ABSENT" /\ tracked[a] = "ABSENT"
  BY DEF Init
<1>3. /\ \A a \in Archives : OneJob(a) /\ ~InFlight(a)
      /\ Announced
  BY <1>2 DEF OneJob, Queued, Running, Answered, QueuedOnce, RunningOnce, AnsweredOnce,
              EndOf, InFlight, Announced
<1> QED
  BY <1>1, <1>2, <1>3 DEF JobInv, NoStuckTask, LockHeld, Locked, Submitted

LEMMA NextJobs == JobInv /\ [Next]_vars => JobInv'
<1> SUFFICES ASSUME JobInv, [Next]_vars PROVE JobInv'
  OBVIOUS
<1>1. TypeInv'
  BY NextType DEF JobInv
<1>2. ASSUME DeleteWorker
      PROVE  Announced' /\ NoStuckTask' /\ LockHeld'
  BY <1>2, NothingChanges
     DEF DeleteWorker, DeleteFiles, FinishDelete, durable, owned, channels, ghosts
<1>3. ASSUME UNCHANGED vars
      PROVE  Announced' /\ NoStuckTask' /\ LockHeld'
  BY <1>3, NothingChanges DEF vars, durable, owned, channels, ghosts
<1>4. Announced' /\ NoStuckTask' /\ LockHeld'
  BY <1>2, <1>3, DiscoveryKeeps, CallbackKeeps, CheckFolderKeeps, WorkKeeps, UserKeeps,
     EnvironmentKeeps
     DEF Next
<1> QED
  BY <1>1, <1>4 DEF JobInv

LEMMA JobsAlways == Spec => []JobInv
  BY InitJobs, NextJobs, PTL DEF Spec

(***************************************************************************)
(* xtractr never holds two jobs of a path whose cancellations were not     *)
(* lifted while one was in flight: folderTaskInProgress and                *)
(* historyRetryActive find the statuses that the job in flight keeps.      *)
(***************************************************************************)
THEOREM SingleJobAlways == Spec => []SingleJob
<1>1. JobInv => SingleJob
  BY OneJobCounts DEF JobInv, LockHeld, Locked, SingleJob
<1> QED
  BY <1>1, JobsAlways, PTL

(***************************************************************************)
(* A task shown as queued or extracting has a job that will answer.        *)
(***************************************************************************)
THEOREM NoStuckTaskAlways == Spec => []NoStuckTask
<1>1. JobInv => NoStuckTask
  BY DEF JobInv
<1> QED
  BY <1>1, JobsAlways, PTL

-----------------------------------------------------------------------------
(***************************************************************************)
(* What moves a task into, and out of, the list of those that wait.        *)
(***************************************************************************)
\* The path of an answer has a job in flight until the answer is received.
LEMMA AnswerInFlight ==
  ASSUME JobInv, Callback
  PROVE  InFlight(Head(updates).path)
<1> DEFINE resp == Head(updates)
<1>1. /\ Answer(resp) /\ updates # <<>> /\ resp.path \in Archives
  BY CallbackEffects DEF JobInv
<1>2. ChannelsOK
  BY TypeParts DEF JobInv, TypeInv
<1>3. CASE resp.done
  BY <1>1, <1>2, <1>3, UpdatesPop, InPlaces DEF Answer
<1>4. CASE ~resp.done
  BY <1>1, <1>2, <1>4, PopAnnounced DEF Answer, JobInv
<1> QED
  BY <1>3, <1>4

\* A step of the main loop that is nobody's request lets a waiting task go only
\* for its file: an answer to a job in flight finds the path held.
LEMMA WaitingStays ==
  ASSUME JobInv, NEW a \in Archives, tracked[a] = "WAITING", tracked'[a] = "ABSENT",
         ProcessEvent \/ Callback \/ \E b \in Archives : CheckFolder(b)
  PROVE  a \in loosed \/ paused' \/ ~Present(a)
<1>1. map \in [Archives -> Statuses] /\ tracked \in [Archives -> Statuses] /\ ChannelsOK
  BY TypeParts DEF JobInv, TypeInv, OwnedOK
<1>2. CASE ProcessEvent
  <2>1. Head(events) \in Archives
    BY <1>1, <1>2 DEF ProcessEvent, DropEvent, UntrackVanished, TrackArrival, NextEvent,
                      ChannelsOK
  <2> QED
    BY <1>1, <1>2, <2>1 DEF ProcessEvent, DropEvent, UntrackVanished, TrackArrival, owned
<1>3. CASE Callback
  <2> DEFINE resp == Head(updates)
  <2>1. /\ Answer(resp) /\ updates # <<>> /\ resp.path \in Archives
        /\ \A b \in Archives \ {resp.path} : tracked'[b] = tracked[b]
    BY <1>3, CallbackEffects DEF JobInv
  <2>2. a = resp.path
    BY <2>1
  <2>3. InFlight(a)
    BY <1>3, <2>2, AnswerInFlight
  <2>4. a \in loosed \/ paused
    BY <2>3 DEF JobInv, LockHeld, Locked, Held, Submitted
  <2> QED
    BY <2>1, <2>4 DEF Answer
<1>4. ASSUME NEW b \in Archives, CheckFolder(b)
      PROVE  FALSE
  <2>1. CASE CleanFolder(b)
    BY <1>1, <2>1, CleanupStatuses DEF CleanFolder, ReadyToClean
  <2>2. CASE ~CleanFolder(b)
    BY <1>1, <1>4, <2>2
       DEF CheckFolder, ExtractTracked, ForgetNothing, RetryFailed, GiveUp, ExpireDeleted,
           Forget, Submit
  <2> QED
    BY <2>1, <2>2
<1> QED
  BY <1>2, <1>3, <1>4

\* What users and a restart take from the list, they stop, or cancel, or the
\* scan is about to find it again.
LEMMA WaitingTaken ==
  ASSUME JobInv, NEW a \in Archives, tracked[a] = "WAITING", tracked'[a] = "ABSENT",
         User \/ Environment
  PROVE  a \in cancelled' \cup scanning' \/ paused'
<1>1. map \in [Archives -> Statuses] /\ tracked \in [Archives -> Statuses]
  BY TypeParts DEF JobInv, TypeInv, OwnedOK
<1>2. ASSUME NEW b \in Archives, UserCancel(b) \/ UserIgnore(b)
      PROVE  a \in cancelled'
  BY <1>1, <1>2 DEF UserCancel, UserIgnore, TakeBack
<1>3. ASSUME NEW b \in Archives, NEW key, MayUserRetry(b, key),
             Requeue(b, key) \/ RetryCleanup(b, key) \/ RetryDelete(b, key)
      PROVE  FALSE
  <2>1. CASE RetryCleanup(b, key)
    <3>1. \E f : DeleteAfterReached(b, map, f)
      BY <2>1 DEF RetryCleanup, DeleteAfterReached
    <3>2. a = b
      BY <1>1, <3>1, CleanupStatuses
    <3> QED
      BY <1>3, <3>2 DEF MayUserRetry, RetryActive, UpToExtracting
  <2> QED
    BY <1>1, <1>3, <2>1 DEF Requeue, RetryDelete, owned
<1>4. ASSUME NEW rec \in failed, UserRetryFailed(rec)
      PROVE  FALSE
  <2>1. rec.path \in Archives
    BY TypeParts DEF JobInv, TypeInv, DurableOK, FailureRecord
  <2> QED
    BY <1>3, <1>4, <2>1 DEF UserRetryFailed
<1>5. ASSUME NEW rec \in processed, UserRetryProcessed(rec)
      PROVE  FALSE
  <2>1. rec.path \in Archives
    BY TypeParts DEF JobInv, TypeInv, DurableOK, SuccessRecord
  <2> QED
    BY <1>3, <1>5, <2>1 DEF UserRetryProcessed
<1>6. ASSUME NEW rec \in ignored, UserUnignore(rec)
      PROVE  FALSE
  BY <1>6 DEF UserUnignore, owned
<1>7. CASE User
  BY <1>2, <1>4, <1>5, <1>6, <1>7 DEF User, StopClear, Resume, ResetHistory, owned
<1>8. CASE Environment
  <2>1. paused \in BOOLEAN
    BY TypeParts DEF JobInv, TypeInv, DurableOK
  <2> QED
    BY <1>8, <2>1
       DEF Environment, FileArrives, FileReplaced, FileVanishes, FileChanges, RepeatedEvent,
           Restart, owned, durable
<1> QED
  BY <1>7, <1>8

LEMMA NextDrops ==
  ASSUME JobInv, [Next]_vars, NEW a \in Archives,
         tracked[a] = "WAITING", tracked'[a] = "ABSENT"
  PROVE  \/ a \in refused' \cup cancelled' \cup scanning' \cup loosed
         \/ paused'
         \/ ~Present(a)
<1>1. \/ ProcessEvent \/ Callback \/ \E b \in Archives : CheckFolder(b)
      \/ User \/ Environment
  <2>1. UNCHANGED tracked => FALSE
    OBVIOUS
  <2>2. ASSUME DeleteWorker \/ (\E b \in Archives : Scan(b)) \/ UNCHANGED vars
        PROVE  UNCHANGED tracked
    BY <2>2 DEF DeleteWorker, DeleteFiles, FinishDelete, Scan, vars, owned
  <2>3. ASSUME NEW w \in Workers, Work(w)
        PROVE  UNCHANGED tracked
    BY <2>3 DEF Work, StartJob, FindNothing, FinishJob, TakeJob, owned
  <2> QED
    BY <2>1, <2>2, <2>3 DEF Next
<1> QED
  BY <1>1, WaitingStays, WaitingTaken

(***************************************************************************)
(* No task that waits is dropped, by a late answer least of all.           *)
(***************************************************************************)
THEOREM NoSilentDropAlways == Spec => NoSilentDrop
<1>1. JobInv /\ [Next]_vars =>
        [\A a \in Archives :
           tracked[a] = "WAITING" /\ tracked'[a] = "ABSENT"
           => \/ a \in refused' \cup cancelled' \cup scanning' \cup loosed
              \/ paused'
              \/ ~Present(a)]_vars
  BY NextDrops
<1> QED
  BY <1>1, JobsAlways, PTL DEF Spec, NoSilentDrop

\* Who puts a path in the list, and what the records then say.
LEMMA NextWaits ==
  ASSUME TypeInv, [Next]_vars, NEW a \in Archives,
         tracked[a] \notin {"WAITING", "EXTRACTFAILED"}, tracked'[a] = "WAITING"
  PROVE  \/ ~HasFailedVersion(a)
         \/ \E rec \in failed : rec.path = a /\ rec.stage \notin {"cleanup", "delete"}
         \/ \E rec \in processed : rec.path = a /\ \A r \in failed : r.key # rec.key
<1>1. /\ map \in [Archives -> Statuses] /\ tracked \in [Archives -> Statuses]
      /\ ChannelsOK /\ DurableOK
  BY TypeParts DEF TypeInv, OwnedOK
<1>2. CASE ProcessEvent
  <2>1. Head(events) \in Archives
    BY <1>1, <1>2 DEF ProcessEvent, DropEvent, UntrackVanished, TrackArrival, NextEvent,
                      ChannelsOK
  <2>2. TrackArrival /\ a = Head(events)
    BY <1>1, <1>2, <2>1 DEF ProcessEvent, DropEvent, UntrackVanished, TrackArrival, owned
  <2> QED
    BY <2>2 DEF TrackArrival, Unwanted
<1>3. CASE Callback
  <2> DEFINE resp == Head(updates)
  <2>1. /\ resp.path \in Archives
        /\ \A b \in Archives \ {resp.path} : tracked'[b] = tracked[b]
    BY <1>3, CallbackEffects
  <2>2. a = resp.path
    BY <2>1
  <2>3. CASE CallbackExtracted(resp)
    <3>1. \/ tracked'[a] = "EXTRACTED"
          \/ \E m, f : DeleteAfterReached(a, m, f)
      BY <1>1, <2>2, <2>3 DEF CallbackExtracted
    <3>2. \A m, f : DeleteAfterReached(a, m, f) => tracked'[a] \in {"ABSENT", "DELETEFAILED"}
      BY <1>1 DEF DeleteAfterReached, ArchiveFails, Archive, Delete, Keep, CleanedUp
    <3> QED
      BY <3>1, <3>2
  <2> QED
    BY <1>1, <1>3, <2>1, <2>2, <2>3
       DEF Callback, CallbackCancelled, CallbackUnknown, CallbackStarted, CallbackNothing,
           CallbackFailed, Forget, SetStatus, owned
<1>4. ASSUME NEW b \in Archives, CheckFolder(b)
      PROVE  FALSE
  <2>1. CASE CleanFolder(b)
    BY <1>1, <2>1, CleanupStatuses DEF CleanFolder
  <2>2. CASE ~CleanFolder(b)
    BY <1>1, <1>4, <2>2
       DEF CheckFolder, ExtractTracked, ForgetNothing, RetryFailed, GiveUp, ExpireDeleted,
           Forget, Submit
  <2> QED
    BY <2>1, <2>2
<1>5. ASSUME NEW rec \in failed, UserRetryFailed(rec)
      PROVE  \E r \in failed : r.path = a /\ r.stage \notin {"cleanup", "delete"}
  <2>1. rec.path \in Archives
    BY <1>1 DEF DurableOK, FailureRecord
  <2>2. ~RetryCleanup(rec.path, rec.key)
    <3>1. \A f : DeleteAfterReached(rec.path, map, f) => tracked'[a] = tracked[a] \/ tracked'[a] # "WAITING"
      BY <1>1, <2>1, CleanupStatuses
    <3> QED
      BY <3>1 DEF RetryCleanup, DeleteAfterReached
  <2>3. ~RetryDelete(rec.path, rec.key)
    BY DEF RetryDelete, owned
  <2>4. rec.stage \notin {"cleanup", "delete"} /\ Requeue(rec.path, rec.key)
    BY <1>5, <2>2, <2>3 DEF UserRetryFailed
  <2>5. rec.path = a
    BY <1>1, <2>1, <2>4 DEF Requeue
  <2> QED
    BY <2>4, <2>5
<1>6. ASSUME NEW rec \in processed, UserRetryProcessed(rec)
      PROVE  rec.path = a /\ \A r \in failed : r.key # rec.key
  <2>1. rec.path \in Archives
    BY <1>1 DEF DurableOK, SuccessRecord
  <2> QED
    BY <1>1, <1>6, <2>1 DEF UserRetryProcessed, Requeue
<1>7. CASE User
  BY <1>1, <1>5, <1>6, <1>7, ZenonT(30)
     DEF User, UserCancel, UserIgnore, TakeBack, UserUnignore, StopClear, Resume, ResetHistory,
         owned
<1>8. ASSUME \/ DeleteWorker \/ UNCHANGED vars \/ Environment
             \/ \E b \in Archives : Scan(b)
      PROVE  FALSE
  BY <1>8
     DEF DeleteWorker, DeleteFiles, FinishDelete, Scan, vars, owned, Environment, FileArrives,
         FileReplaced, FileVanishes, FileChanges, RepeatedEvent, Restart
<1>9. ASSUME NEW w \in Workers, Work(w)
      PROVE  FALSE
  BY <1>9 DEF Work, StartJob, FindNothing, FinishJob, TakeJob, owned
<1> QED
  BY <1>2, <1>3, <1>4, <1>7, <1>8, <1>9 DEF Next

(***************************************************************************)
(* While the version of an archive has a failed cleanup on record, and no  *)
(* other record of its path can be retried, nothing puts it back in the    *)
(* list (retryHistory): a record of a key has one stage, and a success     *)
(* yields to a failure.                                                    *)
(***************************************************************************)
THEOREM CleanupNeverReextractsAlways == Spec => CleanupNeverReextracts
<1> DEFINE Kept(a) ==
             (/\ \E r \in failed : r.path = a /\ r.stage \in {"cleanup", "delete"}
              /\ \A r \in RecordsOf(a) : Present(a) /\ r.key = Version(a))
             => ~(tracked[a] \notin {"WAITING", "EXTRACTFAILED"} /\ tracked'[a] = "WAITING")
<1>1. ASSUME TypeInv, [Next]_vars, NEW a \in Archives
      PROVE  Kept(a)
  <2> SUFFICES ASSUME NEW r \in failed, r.path = a, r.stage \in {"cleanup", "delete"},
                      \A q \in RecordsOf(a) : Present(a) /\ q.key = Version(a),
                      tracked[a] \notin {"WAITING", "EXTRACTFAILED"}, tracked'[a] = "WAITING"
               PROVE  FALSE
    OBVIOUS
  <2>1. Unique(failed)
    BY <1>1, TypeParts DEF TypeInv, DurableOK
  <2>2. HasFailedVersion(a)
    BY DEF RecordsOf, HasFailedVersion
  <2>3. \A rec \in failed : rec.path = a => rec = r
    BY <2>1 DEF RecordsOf, Unique
  <2>4. \A rec \in processed : rec.path = a => r.key = rec.key
    BY DEF RecordsOf
  <2> QED
    BY <1>1, <2>2, <2>3, <2>4, NextWaits
<1>2. TypeInv /\ [Next]_vars => [\A a \in Archives : Kept(a)]_vars
  BY <1>1
<1>3. Spec => []TypeInv
  BY JobsAlways, PTL DEF JobInv
<1> QED
  BY <1>2, <1>3, PTL DEF Spec, CleanupNeverReextracts

-----------------------------------------------------------------------------
(***************************************************************************)
(* Extractions asked for, and those accepted, where no two paths share a   *)
(* base name, and with it the identity their records are kept under.       *)
(***************************************************************************)
NamesApart == \A a, b \in Archives : Name[a] = Name[b] => a = b

\* A record of a path lies under the name of that path, or under the path.
OwnKey(a, key) == key = a \/ (key \in Identities /\ key[1] = Name[a])

KeysOwn ==
    /\ \A r \in processed : r.key[1] = Name[r.path]
    /\ \A r \in failed : OwnKey(r.path, r.key)
    /\ \A r \in ignored : r.name = Name[r.path]
    /\ \A i \in DOMAIN deletes : OwnKey(deletes[i].path, deletes[i].key)

\* Statuses of tasks that an answer may yet extract.
Listed == {"WAITING", "QUEUED", "EXTRACTING", "EXTRACTFAILED"}

\* Somebody asked for what is in the list, and for what a scan would put there.
Paid(a) ==
    /\ credit[a] >= 0
    /\ a \notin loosed /\ tracked[a] \in Listed => credit[a] >= 1
    /\ Present(a) /\ ~WasProcessed(a) => credit[a] >= 1

\* What was refused is kept out of the list by a record on disk, and what it
\* left in the list by its cancellation.
Fenced(a) ==
    a \in refused =>
        /\ Present(a) => HasFailedVersion(a) \/ IsIgnored(a) \/ WasProcessed(a)
        /\ a \notin loosed => /\ tracked[a] \notin {"WAITING", "EXTRACTFAILED"}
                              /\ a \notin cancelled => tracked[a] \notin Submitted

Delivered(a) == Paid(a) /\ Fenced(a)

DeliveryInv == KeysOwn /\ \A a \in Archives : Delivered(a)

\* The records still say of the file at the path what they said of it.
MarksStay(a) ==
    Present(a)' => /\ source'[a] = source[a]
                   /\ WasProcessed(a) => WasProcessed(a)'
                   /\ HasFailedVersion(a) => HasFailedVersion(a)' \/ WasProcessed(a)'
                   /\ IsIgnored(a) => IsIgnored(a)'

\* How a path may change and still be paid for, and fenced.
LEMMA StaysPaid ==
  ASSUME NEW a \in Archives, Paid(a),
         Present(a)' => source'[a] = source[a] /\ (WasProcessed(a) => WasProcessed(a)'),
         loosed \subseteq loosed', credit'[a] = credit[a],
         tracked'[a] = tracked[a] \/ tracked'[a] \notin Listed
  PROVE  Paid(a)'
<1>1. /\ credit'[a] >= 0
      /\ a \notin loosed' /\ tracked'[a] \in Listed => credit'[a] >= 1
  BY DEF Paid
<1>2. Present(a)' /\ ~WasProcessed(a)' => credit'[a] >= 1
  BY DEF Paid, Present
<1> QED
  BY <1>1, <1>2 DEF Paid

LEMMA StaysFenced ==
  ASSUME NEW a \in Archives,
         a \in refused' => /\ a \in refused /\ Fenced(a) /\ MarksStay(a)
                           /\ a \in cancelled => a \in cancelled',
         loosed \subseteq loosed',
         tracked'[a] = tracked[a] \/ tracked'[a] \notin Listed
  PROVE  Fenced(a)'
<1> SUFFICES ASSUME a \in refused', a \in refused, Fenced(a), MarksStay(a),
                    a \in cancelled => a \in cancelled'
             PROVE  Fenced(a)'
  BY DEF Fenced
<1>1. Present(a)' => HasFailedVersion(a)' \/ IsIgnored(a)' \/ WasProcessed(a)'
  BY DEF Fenced, MarksStay, Present
<1>2. a \notin loosed'
        => /\ tracked'[a] \notin {"WAITING", "EXTRACTFAILED"}
           /\ a \notin cancelled' => tracked'[a] \notin Submitted
  BY DEF Fenced, Listed, Submitted
<1> QED
  BY <1>1, <1>2 DEF Fenced

LEMMA StaysDelivered ==
  ASSUME NEW a \in Archives, Delivered(a), MarksStay(a),
         loosed \subseteq loosed', a \in refused' => a \in refused,
         a \in cancelled => a \in cancelled', credit'[a] = credit[a],
         tracked'[a] = tracked[a] \/ tracked'[a] \notin Listed
  PROVE  Delivered(a)'
  BY StaysPaid, StaysFenced DEF Delivered, MarksStay

\* What waits, or may be tried again, is paid for and not refused: it may take
\* any status.
LEMMA ListedDelivered ==
  ASSUME NEW a \in Archives, Delivered(a), MarksStay(a),
         UNCHANGED <<loosed, refused, cancelled, credit>>,
         a \notin loosed => credit[a] >= 1 /\ a \notin refused
  PROVE  Delivered(a)'
<1>1. Paid(a)'
  BY DEF Delivered, Paid, MarksStay, Present
<1>2. Fenced(a)'
  BY DEF Delivered, Fenced, MarksStay, Present
<1> QED
  BY <1>1, <1>2 DEF Delivered

(***************************************************************************)
(* Keys and marks.                                                         *)
(***************************************************************************)
LEMMA OwnRecordKey ==
  ASSUME NEW a \in Archives, CleanupOK
  PROVE  OwnKey(a, RecordKey(a)) /\ OwnKey(a, CancelKey(a))
<1>1. OwnKey(a, RecordKey(a))
  BY VersionType DEF OwnKey, RecordKey, Version
<1> QED
  BY <1>1 DEF OwnKey, CancelKey

\* A key of one path is nothing to another, nor to the identity of a file if
\* it is a bare path.
LEMMA ForeignKey ==
  ASSUME NamesApart, NEW a \in Archives, NEW b \in Archives, NEW key, OwnKey(a, key),
         CleanupOK, Present(b)
  PROVE  /\ key = Version(b) => a = b /\ Present(a)
         /\ key = a => key # Version(b)
<1>1. Version(b) \in Identities /\ Version(b)[1] = Name[b]
  BY VersionType DEF Version
<1>2. \A c \in Archives : c # Version(b)
  BY <1>1, PipelineAssumption DEF Identities
<1> QED
  BY <1>1, <1>2 DEF OwnKey, NamesApart

\* A record of the key is still there.
KeyStays(key, before, after) == (\E r \in before : r.key = key) => \E r \in after : r.key = key

\* How the records and the file of a path may change for its marks to stay.
LEMMA MarksKept ==
  ASSUME NEW a \in Archives,
         Present(a)' => /\ source'[a] = source[a]
                        /\ KeyStays(Version(a), processed, processed')
                        /\ \/ KeyStays(Version(a), failed, failed')
                           \/ \E r \in processed' : r.key = Version(a),
         \A r \in ignored : r.name = Name[a] =>
             \E q \in ignored' : q.name = r.name /\ q.size = r.size
  PROVE  MarksStay(a)
<1> SUFFICES ASSUME Present(a)'
             PROVE  /\ source'[a] = source[a]
                    /\ WasProcessed(a) => WasProcessed(a)'
                    /\ HasFailedVersion(a) => HasFailedVersion(a)' \/ WasProcessed(a)'
                    /\ IsIgnored(a) => IsIgnored(a)'
  BY DEF MarksStay
<1>1. source'[a] = source[a] /\ Version(a)' = Version(a) /\ Present(a)
  BY DEF Version, Present
<1>2. WasProcessed(a) => WasProcessed(a)'
  BY <1>1 DEF KeyStays, WasProcessed
<1>3. HasFailedVersion(a) => HasFailedVersion(a)' \/ WasProcessed(a)'
  BY <1>1 DEF KeyStays, HasFailedVersion, WasProcessed
<1>4. IsIgnored(a) => IsIgnored(a)'
  BY <1>1 DEF IsIgnored
<1> QED
  BY <1>1, <1>2, <1>3, <1>4

LEMMA MarkFailedKeys ==
  ASSUME NEW f, NEW rec, NEW key
  PROVE  /\ KeyStays(key, f, MarkFailed(f, rec)) /\ KeyStays(key, f, f)
         /\ \E r \in MarkFailed(f, rec) : r.key = rec.key
  BY DEF KeyStays, MarkFailed

LEMMA MarkProcessedKeys ==
  ASSUME NEW p, NEW rec, NEW key
  PROVE  /\ KeyStays(key, p, MarkProcessed(p, rec)) /\ KeyStays(key, p, p)
         /\ \E r \in MarkProcessed(p, rec) : r.key = rec.key
  BY DEF KeyStays, MarkProcessed

LEMMA OtherKeysStay ==
  ASSUME NEW s, NEW key, NEW gone, gone # key
  PROVE  /\ KeyStays(key, s, ClearFailed(s, gone))
         /\ KeyStays(key, s, DeleteProcessed(s, gone))
  BY DEF KeyStays, ClearFailed, DeleteProcessed

\* The records of a step that makes no record and forgets none.
LEMMA MarksSame ==
  ASSUME NEW a \in Archives, UNCHANGED <<processed, failed, ignored>>,
         Present(a)' => source'[a] = source[a]
  PROVE  MarksStay(a)
  BY MarksKept DEF KeyStays

\* A step that changes nothing the delivery of any archive depends on.
LEMMA NothingDelivered ==
  ASSUME DeliveryInv, UNCHANGED <<processed, failed, ignored, deletes, source, credit, refused,
                                  loosed, cancelled, tracked>>
  PROVE  DeliveryInv'
<1>1. KeysOwn'
  BY DEF DeliveryInv, KeysOwn
<1>2. ASSUME NEW a \in Archives
      PROVE  Delivered(a)'
  BY MarksSame, StaysDelivered DEF DeliveryInv
<1> QED
  BY <1>1, <1>2 DEF DeliveryInv

-----------------------------------------------------------------------------
(***************************************************************************)
(* Keys of the records, action by action.                                  *)
(***************************************************************************)
LEMMA KeysSame ==
  ASSUME KeysOwn, processed' \subseteq processed, failed' \subseteq failed,
         ignored' \subseteq ignored, deletes' = deletes
  PROVE  KeysOwn'
  BY DEF KeysOwn

LEMMA CleanupKeys ==
  ASSUME KeysOwn, CleanupOK, NEW a \in Archives, NEW m, NEW f, f \subseteq failed,
         processed' \subseteq SuccessRecord, \A r \in processed' : r.key[1] = Name[r.path],
         ignored' = ignored, DeleteAfterReached(a, m, f)
  PROVE  KeysOwn'
<1>1. OwnKey(a, RecordKey(a))
  BY OwnRecordKey
<1>2. \A r \in failed' : OwnKey(r.path, r.key)
  BY <1>1 DEF KeysOwn, DeleteAfterReached, ArchiveFails, Archive, Delete, Keep, MarkFailed
<1>3. \A i \in DOMAIN deletes' : OwnKey(deletes'[i].path, deletes'[i].key)
  <2>1. CASE deletes' = deletes
    BY <2>1 DEF KeysOwn
  <2>2. CASE deletes' = Append(deletes, [path |-> a, key |-> RecordKey(a), removed |-> FALSE])
    BY <1>1, <2>2 DEF KeysOwn, CleanupOK
  <2> QED
    BY <2>1, <2>2 DEF DeleteAfterReached, ArchiveFails, Archive, Delete, Keep, QueueDelete
<1> QED
  BY <1>2, <1>3 DEF KeysOwn

LEMMA NextKeys ==
  ASSUME TypeInv, KeysOwn, [Next]_vars
  PROVE  KeysOwn'
<1>1. CleanupOK /\ DurableOK /\ ChannelsOK
  BY TypeParts DEF TypeInv
<1>2. CASE ProcessEvent
  BY <1>2, KeysSame DEF ProcessEvent, DropEvent, UntrackVanished, TrackArrival, NextEvent,
                        durable, cleanup
<1>3. CASE Callback
  <2> DEFINE resp == Head(updates)
             a == resp.path
  <2>1. a \in Archives
    BY <1>3, CallbackEffects
  <2>2. ignored' = ignored
    BY <1>3, CallbackEffects DEF Answer
  <2>3. CASE CallbackFailed(resp)
    <3>1. OwnKey(a, RecordKey(a))
      BY <1>1, <2>1, OwnRecordKey
    <3> HIDE DEF a
    <3>2. UNCHANGED <<processed, deletes>>
      BY <2>3 DEF CallbackFailed, OnlyStatus, cleanup
    <3>3. \A r \in failed' : OwnKey(r.path, r.key)
      BY <2>3, <3>1 DEF CallbackFailed, MarkFailed, KeysOwn, a
    <3> QED
      BY <2>2, <3>2, <3>3 DEF KeysOwn
  <2>4. CASE CallbackExtracted(resp)
    <3> DEFINE m == [map EXCEPT ![a] = "EXTRACTED"]
               f == IF Present(a) THEN ClearFailed(failed, Version(a)) ELSE failed
    <3>1. f \subseteq failed
      BY DEF ClearFailed
    <3>2. processed' \subseteq SuccessRecord /\ \A r \in processed' : r.key[1] = Name[r.path]
      <4>1. Present(a) => Version(a) \in Identities /\ Version(a)[1] = Name[a]
        BY <1>1, <2>1, VersionType DEF Version
      <4>2. processed' = IF Present(a)
                         THEN MarkProcessed(processed, [key |-> Version(a), path |-> a])
                         ELSE processed
        BY <2>4 DEF CallbackExtracted
      <4> HIDE DEF a
      <4> QED
        BY <1>1, <2>1, <4>1, <4>2 DEF MarkProcessed, DurableOK, SuccessRecord, KeysOwn
    <3>3. \/ DeleteAfterReached(a, m, f)
          \/ failed' = f /\ UNCHANGED deletes
      BY <2>4 DEF CallbackExtracted, cleanup
    <3> HIDE DEF m, f, a
    <3>4. CASE DeleteAfterReached(a, m, f)
      BY <1>1, <2>1, <2>2, <3>1, <3>2, <3>4, CleanupKeys
    <3>5. CASE failed' = f /\ UNCHANGED deletes
      BY <2>2, <3>1, <3>2, <3>5 DEF KeysOwn
    <3> QED
      BY <3>3, <3>4, <3>5
  <2>5. CASE ~CallbackFailed(resp) /\ ~CallbackExtracted(resp)
    <3>1. UNCHANGED <<processed, failed, deletes>>
      BY <1>3, <2>5 DEF Callback, CallbackCancelled, CallbackUnknown, CallbackStarted,
                        CallbackNothing, OnlyStatus, cleanup
    <3> QED
      BY <2>2, <3>1, KeysSame
  <2> QED
    BY <2>3, <2>4, <2>5
<1>4. CASE DeleteWorker
  <2> DEFINE d == Head(deletes)
  <2>1. deletes # <<>> /\ d \in DeleteRequest
    BY <1>1, <1>4 DEF DeleteWorker, DeleteFiles, FinishDelete, CleanupOK
  <2>2. OwnKey(d.path, d.key)
    BY <1>1, <2>1 DEF KeysOwn, CleanupOK
  <2>3. UNCHANGED <<processed, ignored>>
    BY <1>4 DEF DeleteWorker, DeleteFiles, FinishDelete, durable
  <2>4. \A r \in failed' : OwnKey(r.path, r.key)
    <3>1. \/ failed' = failed
          \/ failed' = MarkFailed(failed, [key |-> d.key, path |-> d.path, stage |-> "delete"])
          \/ failed' = ClearFailed(failed, d.key)
      BY <1>4 DEF DeleteWorker, DeleteFiles, FinishDelete, durable
    <3> HIDE DEF d
    <3> QED
      BY <2>2, <3>1 DEF MarkFailed, ClearFailed, KeysOwn
  <2>5. \A i \in DOMAIN deletes' : OwnKey(deletes'[i].path, deletes'[i].key)
    <3>1. CASE deletes' = [deletes EXCEPT ![1].removed = TRUE]
      <4>1. \A i \in DOMAIN deletes : deletes[i] \in DeleteRequest
        BY <1>1 DEF CleanupOK
      <4>2. \A i \in DOMAIN deletes' : /\ i \in DOMAIN deletes
                                       /\ deletes'[i].path = deletes[i].path
                                       /\ deletes'[i].key = deletes[i].key
        BY <3>1, <4>1 DEF DeleteRequest
      <4> QED
        BY <4>2 DEF KeysOwn
    <3>2. CASE deletes' = Tail(deletes)
      <4>1. \A k \in DOMAIN deletes' : k + 1 \in DOMAIN deletes /\ deletes'[k] = deletes[k + 1]
        BY <1>1, <2>1, <3>2, TailElements DEF CleanupOK
      <4> QED
        BY <4>1 DEF KeysOwn
    <3> QED
      BY <1>4, <3>1, <3>2 DEF DeleteWorker, DeleteFiles, FinishDelete
  <2> QED
    BY <2>3, <2>4, <2>5 DEF KeysOwn
<1>5. ASSUME NEW a \in Archives, Scan(a) \/ CheckFolder(a)
      PROVE  KeysOwn'
  <2>1. CASE CleanFolder(a)
    BY <1>1, <2>1, CleanupKeys DEF CleanFolder, DurableOK, KeysOwn
  <2>2. CASE ~CleanFolder(a)
    BY <1>5, <2>2, KeysSame
       DEF Scan, CheckFolder, ExtractTracked, ForgetNothing, RetryFailed, GiveUp,
           ExpireDeleted, durable, cleanup
  <2> QED
    BY <2>1, <2>2
<1>6. ASSUME NEW w \in Workers, Work(w)
      PROVE  KeysOwn'
  BY <1>6, KeysSame DEF Work, StartJob, FindNothing, FinishJob, TakeJob, durable, cleanup
<1>7. CASE User
  <2>1. ASSUME NEW a \in Archives, UserCancel(a)
        PROVE  KeysOwn'
    <3>1. UNCHANGED <<processed, ignored, deletes>>
      BY <2>1 DEF UserCancel, TakeBack, cleanup
    <3>2. failed' = MarkFailed(failed, [key |-> CancelKey(a), path |-> a, stage |-> "cancelled"])
      BY <2>1 DEF UserCancel
    <3>3. OwnKey(a, CancelKey(a))
      BY <1>1, OwnRecordKey
    <3>4. \A r \in failed' : OwnKey(r.path, r.key)
      BY <3>2, <3>3 DEF MarkFailed, KeysOwn
    <3> QED
      BY <3>1, <3>4 DEF KeysOwn
  <2>2. ASSUME NEW a \in Archives, UserIgnore(a)
        PROVE  KeysOwn'
    <3>1. UNCHANGED <<processed, failed, deletes>>
      BY <2>2 DEF UserIgnore, TakeBack, cleanup
    <3>2. \A r \in ignored' : r \in ignored \/ (r.name = Name[a] /\ r.path = a)
      BY <2>2 DEF UserIgnore
    <3> QED
      BY <3>1, <3>2 DEF KeysOwn
  <2>3. ASSUME NEW rec \in ignored, UserUnignore(rec)
        PROVE  KeysOwn'
    BY <2>3, KeysSame DEF UserUnignore, cleanup
  <2>4. ASSUME NEW rec \in failed, UserRetryFailed(rec)
        PROVE  KeysOwn'
    <3>1. rec.path \in Archives /\ OwnKey(rec.path, rec.key)
      BY <1>1 DEF DurableOK, FailureRecord, KeysOwn
    <3>2. CASE RetryCleanup(rec.path, rec.key)
      <4>1. \E f : f \subseteq failed /\ DeleteAfterReached(rec.path, map, f)
        BY <3>2 DEF RetryCleanup, DeleteAfterReached, ClearFailed
      <4> QED
        BY <1>1, <3>1, <3>2, <4>1, CleanupKeys DEF RetryCleanup, DurableOK, KeysOwn
    <3>3. CASE RetryDelete(rec.path, rec.key)
      <4>1. UNCHANGED <<processed, failed, ignored>>
        BY <3>3 DEF RetryDelete, durable
      <4>2. \/ deletes' = deletes
            \/ deletes' = Append(deletes, [path |-> rec.path, key |-> rec.key, removed |-> FALSE])
        BY <3>3 DEF RetryDelete, QueueDelete
      <4>3. \A i \in DOMAIN deletes' : OwnKey(deletes'[i].path, deletes'[i].key)
        BY <1>1, <3>1, <4>2 DEF KeysOwn, CleanupOK
      <4> QED
        BY <4>1, <4>3 DEF KeysOwn
    <3>4. CASE Requeue(rec.path, rec.key)
      BY <3>4, KeysSame DEF Requeue, DeleteProcessed, cleanup
    <3> QED
      BY <2>4, <3>2, <3>3, <3>4 DEF UserRetryFailed
  <2>5. ASSUME NEW rec \in processed, UserRetryProcessed(rec)
        PROVE  KeysOwn'
    BY <2>5, KeysSame DEF UserRetryProcessed, Requeue, DeleteProcessed, cleanup
  <2>6. CASE StopClear \/ Resume \/ ResetHistory
    BY <2>6, KeysSame DEF StopClear, Resume, ResetHistory, cleanup
  <2> QED
    BY <1>7, <2>1, <2>2, <2>3, <2>4, <2>5, <2>6 DEF User
<1>8. CASE Environment
  <2>1. CASE Restart
    BY <2>1 DEF Restart, durable, KeysOwn
  <2>2. CASE ~Restart
    BY <1>8, <2>2, KeysSame
       DEF Environment, FileArrives, FileReplaced, FileVanishes, FileChanges, RepeatedEvent,
           durable, cleanup
  <2> QED
    BY <2>1, <2>2
<1>9. CASE UNCHANGED vars
  BY <1>9, KeysSame DEF vars, durable, cleanup
<1> QED
  BY <1>2, <1>3, <1>4, <1>5, <1>6, <1>7, <1>8, <1>9 DEF Next

-----------------------------------------------------------------------------
(***************************************************************************)
(* Payments and fences, action by action.                                  *)
(***************************************************************************)
LEMMA DiscoveryDelivers ==
  ASSUME JobInv, DeliveryInv, ProcessEvent, NEW a \in Archives
  PROVE  Delivered(a)'
<1>1. tracked \in [Archives -> Statuses]
  BY TypeParts DEF JobInv, TypeInv, OwnedOK
<1>2. UNCHANGED <<processed, failed, ignored, source, cancelled, loosed, refused, credit>>
  BY DEF ProcessEvent, DropEvent, UntrackVanished, TrackArrival, NextEvent, durable, cleanup,
         ghosts
<1>3. MarksStay(a) /\ Delivered(a)
  BY <1>2, MarksSame DEF DeliveryInv
<1>4. CASE DropEvent \/ UntrackVanished \/ a # Head(events)
  <2>1. tracked'[a] = tracked[a] \/ tracked'[a] = "ABSENT"
    BY <1>1, <1>4 DEF ProcessEvent, DropEvent, UntrackVanished, TrackArrival, owned
  <2> QED
    BY <1>2, <1>3, <2>1, StaysDelivered DEF Listed
<1>5. CASE TrackArrival /\ a = Head(events)
  <2>1. Present(a) /\ ~WasProcessed(a) /\ ~HasFailedVersion(a) /\ ~IsIgnored(a)
    BY <1>5 DEF TrackArrival, Unwanted
  <2>2. credit[a] >= 1 /\ a \notin refused
    BY <1>3, <2>1 DEF Delivered, Paid, Fenced
  <2> QED
    BY <1>2, <1>3, <2>2, ListedDelivered
<1> QED
  BY <1>4, <1>5 DEF ProcessEvent

\* The marks of a cleanup: only its own file goes, and a failure stays one.
LEMMA CleanupMarks ==
  ASSUME CleanupOK, NEW a \in Archives, NEW m, NEW f, DeleteAfterReached(a, m, f),
         NEW b \in Archives
  PROVE  /\ Present(b)' => source'[b] = source[b]
         /\ \A key : KeyStays(key, f, failed')
  BY MarkFailedKeys
     DEF DeleteAfterReached, ArchiveFails, Archive, Delete, Keep, CleanupOK, Present

LEMMA CheckFolderDelivers ==
  ASSUME JobInv, DeliveryInv, NEW b \in Archives, CheckFolder(b), NEW a \in Archives
  PROVE  Delivered(a)'
<1>1. map \in [Archives -> Statuses] /\ tracked \in [Archives -> Statuses] /\ CleanupOK
  BY TypeParts DEF JobInv, TypeInv, OwnedOK
<1>2. UNCHANGED <<processed, ignored, cancelled, loosed, refused, credit>>
  BY DEF CheckFolder, ExtractTracked, ForgetNothing, RetryFailed, GiveUp, CleanFolder,
         ExpireDeleted, durable, ghosts
<1>3. MarksStay(a)
  <2>1. /\ Present(a)' => source'[a] = source[a]
        /\ KeyStays(Version(a), failed, failed')
    <3>1. CASE CleanFolder(b)
      BY <1>1, <3>1, CleanupMarks DEF CleanFolder
    <3>2. CASE ~CleanFolder(b)
      BY <3>2, MarkFailedKeys
         DEF CheckFolder, ExtractTracked, ForgetNothing, RetryFailed, GiveUp, ExpireDeleted,
             durable, cleanup
    <3> QED
      BY <3>1, <3>2
  <2> QED
    BY <1>2, <2>1, MarkProcessedKeys, MarksKept
<1>4. Delivered(a)
  BY DEF DeliveryInv
<1>5. CASE a = b /\ (ExtractTracked(b) \/ RetryFailed(b))
  <2>1. tracked[a] \in {"WAITING", "EXTRACTFAILED"}
    BY <1>5 DEF ExtractTracked, RetryFailed
  <2>2. a \notin loosed => credit[a] >= 1 /\ a \notin refused
    BY <1>4, <2>1 DEF Delivered, Paid, Fenced, Listed
  <2> QED
    BY <1>2, <1>3, <1>4, <2>2, ListedDelivered
<1>6. CASE ~(a = b /\ (ExtractTracked(b) \/ RetryFailed(b)))
  <2>1. tracked'[a] = tracked[a] \/ tracked'[a] \in {"ABSENT", "DELETEFAILED"}
    <3>1. CASE CleanFolder(b)
      BY <1>1, <3>1, CleanupStatuses DEF CleanFolder
    <3>2. CASE ~CleanFolder(b)
      BY <1>1, <1>6, <3>2
         DEF CheckFolder, ExtractTracked, ForgetNothing, RetryFailed, GiveUp, ExpireDeleted,
             Forget, Submit
    <3> QED
      BY <3>1, <3>2
  <2> QED
    BY <1>2, <1>3, <1>4, <2>1, StaysDelivered DEF Listed
<1> QED
  BY <1>5, <1>6

\* An answer that is taken finds a task that was paid for, and that nobody
\* refused.
LEMMA AcceptedDelivery ==
  ASSUME JobInv, DeliveryInv, Callback, NEW p, p = Head(updates).path, p \notin cancelled,
         p \notin loosed
  PROVE  credit[p] >= 1 /\ p \notin refused
<1>1. p \in Archives
  BY CallbackEffects DEF JobInv
<1>2. tracked[p] \in Submitted
  BY <1>1, AnswerInFlight DEF JobInv, LockHeld, Locked, Held
<1> QED
  BY <1>1, <1>2 DEF DeliveryInv, Delivered, Paid, Fenced, Listed, Submitted

LEMMA CallbackDelivers ==
  ASSUME NamesApart, JobInv, DeliveryInv, Callback, NEW a \in Archives
  PROVE  Delivered(a)'
<1> DEFINE resp == Head(updates)
           p == resp.path
<1>1. /\ Answer(resp) /\ p \in Archives /\ resp \in Message
      /\ \A b \in Archives \ {p} : tracked'[b] = tracked[b]
      /\ resp.done => tracked'[p] \notin Submitted
  BY CallbackEffects DEF JobInv
<1>2. /\ map \in [Archives -> Statuses] /\ tracked \in [Archives -> Statuses] /\ CleanupOK
      /\ credit \in [Archives -> Int]
  BY TypeParts DEF JobInv, TypeInv, OwnedOK, GhostsOK
<1>3. UNCHANGED <<ignored, cancelled, loosed, refused>>
  BY <1>1 DEF Answer
<1>4. Delivered(a)
  BY DEF DeliveryInv
<1>5. p \notin cancelled /\ p \notin loosed => credit[p] >= 1 /\ p \notin refused
  BY AcceptedDelivery
<1>6. CASE CallbackExtracted(resp)
  <2> DEFINE m == [map EXCEPT ![p] = "EXTRACTED"]
             f == IF Present(p) THEN ClearFailed(failed, Version(p)) ELSE failed
  <2>1. /\ processed' = IF Present(p)
                        THEN MarkProcessed(processed, [key |-> Version(p), path |-> p])
                        ELSE processed
        /\ credit' = IF p \in loosed THEN credit ELSE [credit EXCEPT ![p] = @ - 1]
        /\ p \notin cancelled
    BY <1>6 DEF CallbackExtracted, Accepted
  <2>2. /\ \/ DeleteAfterReached(p, m, f)
           \/ failed' = f /\ source' = source /\ tracked' = [tracked EXCEPT ![p] = "EXTRACTED"]
    BY <1>6 DEF CallbackExtracted, cleanup
  <2> HIDE DEF m
  <2>3. tracked'[p] \in {"EXTRACTED", "ABSENT", "DELETEFAILED"}
    BY <1>1, <1>2, <2>2
       DEF DeleteAfterReached, ArchiveFails, Archive, Delete, Keep, CleanedUp
  <2> HIDE DEF p, resp
  <2>4. /\ Present(a)' => source'[a] = source[a]
        /\ \A key : KeyStays(key, f, failed')
    <3> HIDE DEF f
    <3> QED
      BY <1>1, <1>2, <2>2, CleanupMarks, MarkFailedKeys
  <2>5. KeyStays(Version(a), processed, processed')
    BY <2>1, MarkProcessedKeys
  <2>6. CASE a = p
    <3>1. Present(a)' => WasProcessed(a)'
      <4>1. Present(a)' => Present(a) /\ Version(a)' = Version(a)
        BY <2>4 DEF Present, Version
      <4>2. Present(a) => \E r \in processed' : r.key = Version(a)
        <5> DEFINE rec == [key |-> Version(p), path |-> p]
        <5>1. rec.key = Version(p) /\ (Present(p) => processed' = MarkProcessed(processed, rec))
          BY <2>1
        <5> HIDE DEF rec
        <5> QED
          BY <2>6, <5>1, MarkProcessedKeys
      <4> QED
        BY <4>1, <4>2 DEF WasProcessed
    <3>2. Paid(a)'
      <4>1. credit'[a] >= 0
        BY <1>2, <1>4, <1>5, <2>1, <2>6 DEF Delivered, Paid
      <4> QED
        BY <2>3, <2>6, <3>1, <4>1 DEF Paid, Listed
    <3>3. Fenced(a)'
      BY <2>3, <2>6, <3>1 DEF Fenced, Submitted
    <3> QED
      BY <3>2, <3>3 DEF Delivered
  <2>7. CASE a # p
    <3>1. Present(a) => KeyStays(Version(a), failed, f)
      BY <1>1, <1>2, <2>7, ForeignKey, OwnRecordKey, OtherKeysStay, MarkFailedKeys DEF RecordKey
    <3>2. Present(a)' => KeyStays(Version(a), failed, failed')
      BY <2>4, <3>1 DEF KeyStays, Present
    <3>3. MarksStay(a)
      BY <1>3, <2>4, <2>5, <3>2, MarksKept
    <3>4. credit'[a] = credit[a]
      BY <1>2, <2>1, <2>7
    <3> QED
      BY <1>1, <1>3, <1>4, <2>7, <3>3, <3>4, StaysDelivered
  <2> QED
    BY <2>6, <2>7
<1>7. CASE ~CallbackExtracted(resp)
  <2>1. /\ UNCHANGED <<processed, source, credit>>
        /\ \/ failed' = failed
           \/ failed' = MarkFailed(failed, [key |-> RecordKey(p), path |-> p,
                                            stage |-> "extract"])
    BY <1>7 DEF Callback, CallbackCancelled, CallbackUnknown, CallbackStarted, CallbackNothing,
                CallbackFailed, OnlyStatus, cleanup
  <2>2. \/ tracked'[p] = tracked[p]
        \/ tracked'[p] \in {"ABSENT", "EXTRACTEDNOTHING"}
        \/ p \notin cancelled
    BY <1>1, <1>2, <1>7
       DEF Callback, CallbackCancelled, CallbackUnknown, CallbackStarted, CallbackNothing,
           CallbackFailed, Accepted, Forget, owned
  <2> HIDE DEF p, resp
  <2>3. MarksStay(a)
    BY <1>3, <2>1, MarkFailedKeys, MarkProcessedKeys, MarksKept
  <2>4. CASE a = p /\ p \notin cancelled
    BY <1>3, <1>4, <1>5, <2>1, <2>3, <2>4, ListedDelivered
  <2>5. CASE ~(a = p /\ p \notin cancelled)
    <3>1. tracked'[a] = tracked[a] \/ tracked'[a] \notin Listed
      BY <1>1, <2>2, <2>5 DEF Listed
    <3> QED
      BY <1>3, <1>4, <2>1, <2>3, <3>1, StaysDelivered
  <2> QED
    BY <2>4, <2>5
<1> QED
  BY <1>6, <1>7

LEMMA DeleteWorkerDelivers ==
  ASSUME NamesApart, JobInv, DeliveryInv, DeleteWorker, NEW a \in Archives
  PROVE  Delivered(a)'
<1> DEFINE d == Head(deletes)
<1>1. CleanupOK
  BY TypeParts DEF JobInv, TypeInv
<1>2. deletes # <<>> /\ d \in DeleteRequest /\ OwnKey(d.path, d.key)
  BY <1>1 DEF DeleteWorker, DeleteFiles, FinishDelete, CleanupOK, DeliveryInv, KeysOwn
<1>3. UNCHANGED <<processed, ignored, tracked, cancelled, loosed, refused, credit>>
  BY DEF DeleteWorker, DeleteFiles, FinishDelete, durable, owned, ghosts
<1>4. d.path \in Archives
  BY <1>2 DEF DeleteRequest
<1>5. \/ failed' = failed /\ (source' = source \/ source' = [source EXCEPT ![d.path] = NoSize])
      \/ source' = source
         /\ failed' = IF Present(d.path)
                      THEN MarkFailed(failed, [key |-> d.key, path |-> d.path,
                                               stage |-> "delete"])
                      ELSE ClearFailed(failed, d.key)
  BY DEF DeleteWorker, DeleteFiles, FinishDelete, durable
<1> HIDE DEF d
<1>6. Present(a)' => source'[a] = source[a]
  BY <1>1, <1>4, <1>5 DEF CleanupOK, Present
<1>7. Present(a)' => KeyStays(Version(a), failed, failed')
  <2> SUFFICES ASSUME Present(a)'
               PROVE  KeyStays(Version(a), failed, failed')
    OBVIOUS
  <2>1. Present(a)
    BY <1>6 DEF Present
  <2>2. d.key = Version(a) => Present(d.path)
    BY <1>1, <1>2, <1>4, <2>1, ForeignKey
  <2> QED
    BY <1>5, <2>2, MarkFailedKeys, OtherKeysStay
<1>8. MarksStay(a)
  BY <1>3, <1>6, <1>7, MarkProcessedKeys, MarksKept
<1> QED
  BY <1>3, <1>8, StaysDelivered DEF DeliveryInv

LEMMA TakeBackDelivers ==
  ASSUME JobInv, DeliveryInv, NEW b \in Archives, UserCancel(b) \/ UserIgnore(b),
         NEW a \in Archives
  PROVE  Delivered(a)'
<1>1. map \in [Archives -> Statuses] /\ tracked \in [Archives -> Statuses] /\ CleanupOK
  BY TypeParts DEF JobInv, TypeInv, OwnedOK
<1>2. /\ TakeBack(b)
      /\ UNCHANGED <<processed, source, loosed, credit>> /\ cancelled \subseteq cancelled'
      /\ a # b => (a \in refused' <=> a \in refused)
  BY DEF UserCancel, UserIgnore, TakeBack, Refuse, cleanup
<1>3. /\ tracked'[a] = tracked[a] \/ tracked'[a] = "ABSENT"
      /\ a = b => tracked'[a] \in Submitted \cup {"ABSENT"} /\ a \in cancelled'
  BY <1>1, <1>2 DEF TakeBack
<1>4. MarksStay(a)
  <2>1. KeyStays(Version(a), failed, failed')
    BY MarkFailedKeys DEF UserCancel, UserIgnore
  <2>2. \A r \in ignored : \E q \in ignored' : q.name = r.name /\ q.size = r.size
    <3>1. CASE UserCancel(b)
      BY <3>1 DEF UserCancel
    <3>2. CASE UserIgnore(b)
      <4> DEFINE rec == [name |-> Name[b], size |-> source[b], path |-> b]
      <4>1. ignored' = {r \in ignored : r.name # rec.name \/ r.size # rec.size} \cup {rec}
        BY <3>2 DEF UserIgnore
      <4> HIDE DEF rec
      <4> QED
        BY <4>1
    <3> QED
      BY <3>1, <3>2
  <2> QED
    BY <1>2, <2>1, <2>2, MarkProcessedKeys, MarksKept
<1>5. Delivered(a)
  BY DEF DeliveryInv
<1>6. CASE a # b \/ a \in refused
  BY <1>2, <1>3, <1>4, <1>5, <1>6, StaysDelivered DEF Listed
<1>7. CASE a = b /\ a \notin refused
  <2>1. Paid(a)'
    BY <1>2, <1>3, <1>4, <1>5, StaysPaid DEF Delivered, MarksStay, Listed
  <2>2. a \in refused' /\ Present(a)' => HasFailedVersion(a)' \/ IsIgnored(a)'
    <3> SUFFICES ASSUME a \in refused', Present(a)'
                 PROVE  HasFailedVersion(a)' \/ IsIgnored(a)'
      OBVIOUS
    <3>1. Present(a) /\ Version(a)' = Version(a) /\ source'[a] = source[a]
      BY <1>2 DEF Present, Version
    <3>2. CASE UserCancel(b)
      <4>1. CancelKey(a) = Version(a)
        BY <1>7, <3>1, <3>2 DEF UserCancel, Refuse, CancelKey, RecordKey
      <4>2. \E r \in failed' : r.key = Version(a)
        <5> DEFINE rec == [key |-> CancelKey(b), path |-> b, stage |-> "cancelled"]
        <5>1. rec.key = CancelKey(b) /\ failed' = MarkFailed(failed, rec)
          BY <3>2 DEF UserCancel
        <5> HIDE DEF rec
        <5> QED
          BY <1>7, <4>1, <5>1, MarkFailedKeys
      <4> QED
        BY <3>1, <4>2 DEF HasFailedVersion
    <3>3. CASE UserIgnore(b)
      <4> DEFINE rec == [name |-> Name[a], size |-> source[a], path |-> a]
      <4>1. rec \in ignored' /\ rec.name = Name[a] /\ rec.size = source[a]
        BY <1>7, <3>3 DEF UserIgnore
      <4> HIDE DEF rec
      <4> QED
        BY <3>1, <4>1 DEF IsIgnored
    <3> QED
      BY <3>2, <3>3
  <2>3. Fenced(a)'
    BY <1>3, <1>7, <2>2 DEF Fenced, Submitted
  <2> QED
    BY <2>1, <2>3 DEF Delivered
<1> QED
  BY <1>6, <1>7

LEMMA RetryDelivers ==
  ASSUME NamesApart, JobInv, DeliveryInv, NEW b \in Archives, NEW key, OwnKey(b, key),
         Requeue(b, key) \/ RetryCleanup(b, key) \/ RetryDelete(b, key),
         NEW a \in Archives
  PROVE  Delivered(a)'
<1>1. /\ map \in [Archives -> Statuses] /\ tracked \in [Archives -> Statuses]
      /\ CleanupOK /\ credit \in [Archives -> Int]
  BY TypeParts DEF JobInv, TypeInv, OwnedOK, GhostsOK
<1>2. Delivered(a)
  BY DEF DeliveryInv
<1>3. a # b /\ Present(a) => key # Version(a)
  BY <1>1, ForeignKey
<1>4. CASE Requeue(b, key)
  <2>1. /\ UNCHANGED <<failed, ignored, source, loosed>>
        /\ processed' = DeleteProcessed(processed, key)
        /\ cancelled' = cancelled \ {b} /\ refused' = refused \ {b}
        /\ credit' = [credit EXCEPT ![b] = @ + 1]
        /\ tracked' = [tracked EXCEPT ![b] = "WAITING"]
    BY <1>4 DEF Requeue, cleanup
  <2>2. CASE a = b
    <3>1. credit'[a] >= 1 /\ credit'[a] >= 0 /\ a \notin refused'
      BY <1>1, <1>2, <2>1, <2>2 DEF Delivered, Paid
    <3> QED
      BY <3>1 DEF Delivered, Paid, Fenced
  <2>3. CASE a # b
    <3>1. Present(a) => KeyStays(Version(a), processed, processed')
      BY <1>3, <2>1, <2>3, OtherKeysStay
    <3>2. MarksStay(a)
      BY <2>1, <3>1, MarkFailedKeys, MarksKept DEF Present
    <3> QED
      BY <1>1, <1>2, <2>1, <2>3, <3>2, StaysDelivered
  <2> QED
    BY <2>2, <2>3
<1>5. CASE RetryCleanup(b, key)
  <2>1. UNCHANGED <<processed, ignored, loosed, cancelled, refused, credit>>
    BY <1>5 DEF RetryCleanup, ghosts
  <2>2. PICK f : /\ DeleteAfterReached(b, map, f)
                 /\ f = failed \/ (f = ClearFailed(failed, key) /\ ~Present(b)')
    <3>1. Archive(b, map, ClearFailed(failed, key)) => ~Present(b)'
      BY <1>1 DEF Archive, CleanupOK, Present
    <3> QED
      BY <1>5, <3>1 DEF RetryCleanup, DeleteAfterReached
  <2>3. /\ Present(a)' => source'[a] = source[a]
        /\ KeyStays(Version(a), f, failed')
    BY <1>1, <2>2, CleanupMarks
  <2>4. Present(a)' => KeyStays(Version(a), failed, failed')
    <3>1. Present(a)' => Present(a) /\ KeyStays(Version(a), failed, f)
      BY <1>3, <2>2, <2>3, MarkFailedKeys, OtherKeysStay DEF Present
    <3> QED
      BY <2>3, <3>1 DEF KeyStays
  <2>5. tracked'[a] = tracked[a] \/ tracked'[a] \in {"ABSENT", "DELETEFAILED"}
    BY <1>1, <2>2, CleanupStatuses
  <2>6. MarksStay(a)
    BY <2>1, <2>3, <2>4, MarkProcessedKeys, MarksKept
  <2> QED
    BY <1>2, <2>1, <2>5, <2>6, StaysDelivered DEF Listed
<1>6. CASE RetryDelete(b, key)
  BY <1>2, <1>6, MarksSame, StaysDelivered DEF RetryDelete, durable, owned, ghosts
<1> QED
  BY <1>4, <1>5, <1>6

LEMMA UserDelivers ==
  ASSUME NamesApart, JobInv, DeliveryInv, User, NEW a \in Archives
  PROVE  Delivered(a)'
<1>1. /\ map \in [Archives -> Statuses] /\ tracked \in [Archives -> Statuses]
      /\ DurableOK /\ credit \in [Archives -> Int]
  BY TypeParts DEF JobInv, TypeInv, OwnedOK, GhostsOK
<1>2. Delivered(a)
  BY DEF DeliveryInv
<1>3. ASSUME NEW rec \in ignored, UserUnignore(rec)
      PROVE  Delivered(a)'
  <2>1. /\ UNCHANGED <<processed, failed, source, tracked, credit>>
        /\ loosed \subseteq loosed' /\ cancelled' = cancelled \ {rec.path}
        /\ refused' = {b \in refused : Name[b] # rec.name}
        /\ ignored' = {r \in ignored : r.name # rec.name}
    BY <1>3 DEF UserUnignore, Loose, owned, cleanup
  <2>2. Paid(a)'
    BY <1>2, <2>1, MarkProcessedKeys, StaysPaid DEF Delivered, WasProcessed, Present, Version
  <2>3. ASSUME a \in refused'
        PROVE  a \in refused /\ MarksStay(a) /\ (a \in cancelled => a \in cancelled')
    <3>1. a # rec.path
      BY <2>1, <2>3 DEF DeliveryInv, KeysOwn
    <3>2. \A r \in ignored : r.name = Name[a] => \E q \in ignored' : q.name = r.name /\ q.size = r.size
      BY <2>1, <2>3
    <3> QED
      BY <2>1, <2>3, <3>1, <3>2, MarksKept, MarkFailedKeys, MarkProcessedKeys
  <2> QED
    BY <1>2, <2>1, <2>2, <2>3, StaysFenced DEF Delivered
<1>4. ASSUME NEW rec \in failed, UserRetryFailed(rec)
      PROVE  Delivered(a)'
  <2>1. rec.path \in Archives /\ OwnKey(rec.path, rec.key)
    BY <1>1 DEF DurableOK, FailureRecord, DeliveryInv, KeysOwn
  <2> QED
    BY <1>4, <2>1, RetryDelivers DEF UserRetryFailed
<1>5. ASSUME NEW rec \in processed, UserRetryProcessed(rec)
      PROVE  Delivered(a)'
  <2>1. rec.path \in Archives /\ OwnKey(rec.path, rec.key)
    BY <1>1 DEF DurableOK, SuccessRecord, DeliveryInv, KeysOwn, OwnKey
  <2> QED
    BY <1>5, <2>1, RetryDelivers DEF UserRetryProcessed
<1>6. CASE StopClear
  <2>1. /\ UNCHANGED <<processed, failed, ignored, source, credit, loosed, refused>>
        /\ cancelled \subseteq cancelled'
        /\ tracked'[a] = tracked[a] \/ tracked'[a] = "ABSENT"
    BY <1>1, <1>6 DEF StopClear, cleanup, ghosts
  <2> QED
    BY <1>2, <2>1, MarksSame, StaysDelivered DEF Listed
<1>7. CASE Resume
  <2>1. /\ UNCHANGED <<processed, failed, ignored, source, credit, tracked, refused>>
        /\ loosed' = loosed \cup {b \in cancelled \cap Archives : InFlight(b)}
    BY <1>7 DEF Resume, Loose, owned, cleanup
  <2>2. MarksStay(a)
    BY <2>1, MarksSame
  <2>3. Paid(a)'
    BY <1>2, <2>1, <2>2, StaysPaid DEF Delivered, MarksStay
  <2>4. a \in refused /\ a \notin loosed' => tracked[a] \notin Submitted
    <3>1. tracked[a] \in Submitted => InFlight(a)
      BY DEF JobInv, NoStuckTask
    <3> QED
      BY <1>2, <2>1, <3>1 DEF Delivered, Fenced
  <2>5. Fenced(a)'
    BY <1>2, <2>1, <2>2, <2>4 DEF Delivered, Fenced, MarksStay, Present
  <2> QED
    BY <2>3, <2>5 DEF Delivered
<1>8. CASE ResetHistory
  <2>1. credit'[a] >= 1 /\ credit'[a] >= 0 /\ a \notin refused'
    BY <1>1, <1>2, <1>8 DEF ResetHistory, Delivered, Paid
  <2> QED
    BY <2>1 DEF Delivered, Paid, Fenced
<1> QED
  BY <1>3, <1>4, <1>5, <1>6, <1>7, <1>8, TakeBackDelivers DEF User

LEMMA EnvironmentDelivers ==
  ASSUME JobInv, DeliveryInv, Environment, NEW a \in Archives
  PROVE  Delivered(a)'
<1>1. CleanupOK /\ credit \in [Archives -> Int]
  BY TypeParts DEF JobInv, TypeInv, GhostsOK
<1>2. Delivered(a)
  BY DEF DeliveryInv
<1>3. ASSUME NEW b \in Archives, NEW size, FileChanges(b, size)
      PROVE  Delivered(a)'
  <2>1. /\ UNCHANGED <<processed, failed, ignored, tracked, cancelled, loosed>>
        /\ source' = [source EXCEPT ![b] = size] /\ refused' = refused \ {b}
        /\ credit' = [credit EXCEPT ![b] = IF size = NoSize THEN @ ELSE @ + 1]
    BY <1>3 DEF FileChanges, durable, owned
  <2>2. CASE a # b
    <3>1. source'[a] = source[a] /\ credit'[a] = credit[a]
      BY <1>1, <2>1, <2>2 DEF CleanupOK
    <3> QED
      BY <1>2, <2>1, <3>1, MarksSame, StaysDelivered
  <2>3. CASE a = b
    <3>1. credit'[a] = IF size = NoSize THEN credit[a] ELSE credit[a] + 1
      BY <1>1, <2>1, <2>3
    <3>2. Present(a)' => size # NoSize
      BY <1>1, <2>1, <2>3 DEF Present, CleanupOK
    <3>3. credit[a] \in Int
      BY <1>1
    <3>4. Paid(a)'
      BY <1>2, <2>1, <3>1, <3>2, <3>3 DEF Delivered, Paid
    <3> QED
      BY <2>1, <2>3, <3>4 DEF Delivered, Fenced
  <2> QED
    BY <2>2, <2>3
<1>4. ASSUME NEW b \in Archives, RepeatedEvent(b)
      PROVE  Delivered(a)'
  BY <1>2, <1>4, MarksSame, StaysDelivered DEF RepeatedEvent, durable, owned, cleanup, ghosts
<1>5. CASE Restart
  <2>1. /\ UNCHANGED <<processed, failed, ignored, source, credit, refused>>
        /\ tracked'[a] = "ABSENT"
    BY <1>5 DEF Restart, durable
  <2>2. MarksStay(a)
    BY <2>1, MarksSame
  <2>3. Paid(a)'
    BY <1>2, <2>1, <2>2 DEF Delivered, Paid, MarksStay, Present, Listed
  <2>4. Fenced(a)'
    BY <1>2, <2>1, <2>2 DEF Delivered, Fenced, MarksStay, Present, Submitted
  <2> QED
    BY <2>3, <2>4 DEF Delivered
<1> QED
  BY <1>3, <1>4, <1>5 DEF Environment, FileArrives, FileReplaced, FileVanishes

LEMMA InitDelivery == Init => DeliveryInv
<1> SUFFICES ASSUME Init PROVE DeliveryInv
  OBVIOUS
<1>1. KeysOwn
  BY DEF Init, KeysOwn
<1>2. ASSUME NEW a \in Archives
      PROVE  Delivered(a)
  <2>1. /\ tracked[a] = "ABSENT" /\ refused = {}
        /\ credit[a] = IF Present(a) THEN 1 ELSE 0
    BY DEF Init
  <2> QED
    BY <2>1 DEF Delivered, Paid, Fenced, Listed
<1> QED
  BY <1>1, <1>2 DEF DeliveryInv

LEMMA NextDelivery ==
  ASSUME NamesApart, JobInv, DeliveryInv, [Next]_vars
  PROVE  DeliveryInv'
<1>1. KeysOwn'
  BY NextKeys DEF JobInv, DeliveryInv
<1>2. ASSUME NEW a \in Archives
      PROVE  Delivered(a)'
  <2>1. CASE \/ \E b \in Archives : Scan(b)
             \/ \E w \in Workers : Work(w)
             \/ UNCHANGED vars
    <3>1. UNCHANGED <<processed, failed, ignored, source, credit, refused, loosed, cancelled,
                      tracked>>
      BY <2>1 DEF Scan, Work, StartJob, FindNothing, FinishJob, TakeJob, vars, durable, owned,
                  cleanup, ghosts
    <3> QED
      BY <3>1, MarksSame, StaysDelivered DEF DeliveryInv
  <2> QED
    BY <2>1, DiscoveryDelivers, CallbackDelivers, DeleteWorkerDelivers, CheckFolderDelivers,
       UserDelivers, EnvironmentDelivers
       DEF Next
<1> QED
  BY <1>1, <1>2 DEF DeliveryInv

(***************************************************************************)
(* Where no two paths share a base name, an archive is extracted at most   *)
(* once for every time somebody asked for it: what is in the list is paid  *)
(* for, and what a scan would put there is, too.  (Two paths of one        *)
(* identity share their records: a retry of one lets the other in.)        *)
(***************************************************************************)
THEOREM DeliveredOnceAlways == ASSUME NamesApart PROVE Spec => []DeliveredOnce
<1>1. Init => JobInv /\ DeliveryInv
  BY InitJobs, InitDelivery
<1>2. JobInv /\ DeliveryInv /\ [Next]_vars => (JobInv /\ DeliveryInv)'
  BY NextJobs, NextDelivery
<1>3. DeliveryInv => DeliveredOnce
  BY DEF DeliveryInv, Delivered, Paid, DeliveredOnce
<1> QED
  BY <1>1, <1>2, <1>3, PTL DEF Spec

(***************************************************************************)
(* Where no two paths share a base name, what the user cancelled or        *)
(* ignored is not extracted: a record on disk keeps it out of the list,    *)
(* and a job that was in flight answers for a path that is cancelled.      *)
(***************************************************************************)
THEOREM CancelHonouredAlways == ASSUME NamesApart PROVE Spec => CancelHonoured
<1>1. Init => JobInv /\ DeliveryInv
  BY InitJobs, InitDelivery
<1>2. JobInv /\ DeliveryInv /\ [Next]_vars => (JobInv /\ DeliveryInv)'
  BY NextJobs, NextDelivery
<1>3. ASSUME JobInv, DeliveryInv, [Next]_vars, NEW a \in Archives, credit'[a] < credit[a]
      PROVE  a \notin refused
  <2>1. credit \in [Archives -> Int]
    BY <1>3, TypeParts DEF JobInv, TypeInv, GhostsOK
  <2>2. Callback /\ CallbackExtracted(Head(updates))
    <3>1. ASSUME NEW b \in Archives, Scan(b) \/ CheckFolder(b)
          PROVE  UNCHANGED credit
      BY <3>1 DEF Scan, CheckFolder, ExtractTracked, ForgetNothing, RetryFailed, GiveUp,
                  CleanFolder, ExpireDeleted, ghosts
    <3>2. ASSUME NEW w \in Workers, Work(w)
          PROVE  UNCHANGED credit
      BY <3>2 DEF Work, StartJob, FindNothing, FinishJob, TakeJob, ghosts
    <3>3. CASE ProcessEvent \/ DeleteWorker \/ UNCHANGED vars
      BY <1>3, <2>1, <3>3 DEF ProcessEvent, DropEvent, UntrackVanished, TrackArrival, NextEvent,
                        DeleteWorker, DeleteFiles, FinishDelete, vars, ghosts
    <3>4. CASE User
      <4>1. \/ UNCHANGED credit
            \/ \E b \in Archives : credit' = [credit EXCEPT ![b] = @ + 1]
            \/ credit' = [b \in Archives |-> credit[b] + 1]
        <5>1. /\ \A rec \in failed : rec.path \in Archives
              /\ \A rec \in processed : rec.path \in Archives
          BY <1>3, TypeParts
             DEF JobInv, TypeInv, DurableOK, FailureRecord, SuccessRecord
        <5>2. ASSUME NEW b, NEW key, Requeue(b, key) \/ RetryCleanup(b, key) \/ RetryDelete(b, key)
              PROVE  UNCHANGED credit \/ credit' = [credit EXCEPT ![b] = @ + 1]
          BY <5>2 DEF Requeue, RetryCleanup, RetryDelete, ghosts
        <5>3. ASSUME \/ StopClear \/ Resume \/ ResetHistory
                     \/ \E b \in Archives : UserCancel(b) \/ UserIgnore(b)
                     \/ \E rec \in ignored : UserUnignore(rec)
              PROVE  UNCHANGED credit \/ credit' = [b \in Archives |-> credit[b] + 1]
          BY <5>3 DEF UserCancel, UserIgnore, TakeBack, UserUnignore, StopClear, Resume,
                      ResetHistory, ghosts
        <5> QED
          BY <3>4, <5>1, <5>2, <5>3 DEF User, UserRetryFailed, UserRetryProcessed
      <4> QED
        BY <1>3, <2>1, <4>1
    <3>5. CASE Environment
      <4>1. \/ UNCHANGED credit
            \/ \E b \in Archives : \E size :
                  credit' = [credit EXCEPT ![b] = IF size = NoSize THEN @ ELSE @ + 1]
        BY <3>5 DEF Environment, FileArrives, FileReplaced, FileVanishes, FileChanges,
                    RepeatedEvent, Restart, ghosts
      <4> QED
        BY <1>3, <2>1, <4>1
    <3>6. CASE Callback /\ ~CallbackExtracted(Head(updates))
      BY <1>3, <2>1, <3>6 DEF Callback, CallbackCancelled, CallbackUnknown, CallbackStarted,
                        CallbackNothing, CallbackFailed, OnlyStatus
    <3> QED
      BY <1>3, <2>1, <3>1, <3>2, <3>3, <3>4, <3>5, <3>6 DEF Next
  <2>3. /\ Head(updates).path = a /\ a \notin loosed /\ a \notin cancelled
    <3>1. Head(updates).path \in Archives
      BY <1>3, <2>2, CallbackEffects DEF JobInv
    <3> QED
      BY <1>3, <2>1, <2>2, <3>1 DEF CallbackExtracted, Accepted
  <2> QED
    BY <1>3, <2>2, <2>3, AcceptedDelivery
<1>4. JobInv /\ DeliveryInv /\ [Next]_vars =>
        [\A a \in Archives : credit'[a] < credit[a] => a \notin refused]_vars
  BY <1>3
<1> QED
  BY <1>1, <1>2, <1>4, PTL DEF Spec, CancelHonoured

=============================================================================
