--------------------------- MODULE StarrQueueProofs ---------------------------
(***************************************************************************)
(* A download of a Starr application waits only for answers that are still *)
(* to come, and is deleted only when its client has dropped it: for any    *)
(* number of downloads, workers and retries, and any interleaving of       *)
(* polls, answers, users and crashes.                                      *)
(***************************************************************************)
EXTENDS StarrQueue, FiniteSetTheorems, TLAPS

Messages == [title : Titles, done : BOOLEAN, ok : BOOLEAN]

(***************************************************************************)
(* TypeOK by the groups of variables the actions change.                   *)
(***************************************************************************)
WorldOK ==
    /\ client \in [Titles -> Listings] /\ listed \in [Titles -> Listings]
    /\ source \subseteq Titles
    /\ cancelled \subseteq Titles /\ paused \in BOOLEAN
    /\ world \in 0 .. MaxWorld

OwnedOK ==
    /\ map \in [Titles -> Statuses]
    /\ orphans \subseteq {t \in Titles : map[t] # "ABSENT"}
    /\ retries \in [Titles -> 0 .. MaxRetries]

PoolOK ==
    /\ queue \in Seq(Titles)
    /\ running \subseteq [worker : Workers, title : Titles]
    /\ updates \in Seq(Messages)

DeletesOK == deletes \in Seq(DeleteOrig)

GhostsOK ==
    /\ attempts \in [Titles -> 0 .. MaxRetries + 2]
    /\ loosed \subseteq Titles /\ muted \subseteq Titles

LEMMA TypeParts == TypeOK <=> WorldOK /\ OwnedOK /\ PoolOK /\ DeletesOK /\ GhostsOK
  BY DEF TypeOK, WorldOK, OwnedOK, PoolOK, DeletesOK, GhostsOK, Messages

LEMMA NextTypeParts ==
  TypeOK' <=> WorldOK' /\ OwnedOK' /\ PoolOK' /\ DeletesOK' /\ GhostsOK'
  BY DEF TypeOK, WorldOK, OwnedOK, PoolOK, DeletesOK, GhostsOK, Messages

(***************************************************************************)
(* What the proofs need of sequences.                                      *)
(***************************************************************************)
LEMMA TailElements ==
  ASSUME NEW S, NEW s \in Seq(S), s # <<>>
  PROVE  /\ Tail(s) \in Seq(S)
         /\ 1 \in DOMAIN s /\ Head(s) = s[1] /\ Head(s) \in S
         /\ \A k \in DOMAIN Tail(s) : k + 1 \in DOMAIN s /\ Tail(s)[k] = s[k + 1]
         /\ \A i \in DOMAIN s : i # 1 => /\ i - 1 \in DOMAIN Tail(s)
                                         /\ Tail(s)[i - 1] = s[i]
  OBVIOUS

LEMMA AppendElements ==
  ASSUME NEW S, NEW s \in Seq(S), NEW e \in S
  PROVE  /\ Append(s, e) \in Seq(S)
         /\ \A i \in DOMAIN s : /\ i \in DOMAIN Append(s, e)
                                /\ Append(s, e)[i] = s[i]
                                /\ i < Len(s) + 1
         /\ Len(s) + 1 \in DOMAIN Append(s, e) /\ Append(s, e)[Len(s) + 1] = e
         /\ \A i \in DOMAIN Append(s, e) : i \in DOMAIN s \/ i = Len(s) + 1
  OBVIOUS

(***************************************************************************)
(* The inductive invariant.                                                *)
(***************************************************************************)
\* The end of every job whose start is announced is still to be announced.
Announced ==
    \A i \in DOMAIN updates : ~updates[i].done =>
        \/ \E j \in running : j.title = updates[i].title
        \/ \E k \in DOMAIN updates : /\ k > i
                                     /\ updates[k].done
                                     /\ updates[k].title = updates[i].title

\* An imported download of a client is not in the list.
ImportedGone ==
    \A t \in Titles \ orphans : map[t] = "IMPORTED" => listed[t] = "none"

IInv == TypeOK /\ Announced /\ NoStuckTask /\ ImportedGone

LEMMA AnswerType ==
  ASSUME NEW t \in Titles, NEW done \in BOOLEAN, NEW ok \in BOOLEAN
  PROVE  Answer(t, done, ok) \in Messages
  BY DEF Answer, Messages

LEMMA CheckedType ==
  ASSUME NEW t \in Titles, NEW listing, OwnedOK
  PROVE  /\ Checked(t, listing) \in Statuses
         /\ t \in orphans => Checked(t, listing) = map[t]
         /\ Checked(t, listing) \in Submitted => map[t] = Checked(t, listing)
         /\ t \notin orphans /\ Checked(t, listing) = "IMPORTED" => listing = "none"
  BY DEF Checked, Appears, Gone, There, OwnedOK, Statuses, Submitted

(***************************************************************************)
(* Type correctness.                                                       *)
(***************************************************************************)
LEMMA InitType == Init => TypeOK
<1> SUFFICES ASSUME Init PROVE TypeOK
  OBVIOUS
<1>1. WorldOK
  <2>1. client \in [Titles -> Listings] /\ listed \in [Titles -> Listings]
    BY DEF Init, Listings
  <2>2. source \subseteq Titles /\ cancelled \subseteq Titles
    BY DEF Init
  <2>3. paused \in BOOLEAN
    BY DEF Init
  <2>4. world \in 0 .. MaxWorld
    BY StarrAssumption DEF Init
  <2> QED  BY <2>1, <2>2, <2>3, <2>4 DEF WorldOK
<1>2. OwnedOK
  BY StarrAssumption DEF Init, OwnedOK, Statuses
<1>3. PoolOK /\ DeletesOK
  BY DEF Init, PoolOK, DeletesOK
<1>4. GhostsOK
  BY StarrAssumption DEF Init, GhostsOK
<1> QED  BY <1>1, <1>2, <1>3, <1>4, TypeParts

LEMMA NextType == TypeOK /\ [Next]_vars => TypeOK'
<1> SUFFICES ASSUME WorldOK, OwnedOK, PoolOK, DeletesOK, GhostsOK, [Next]_vars
             PROVE  WorldOK' /\ OwnedOK' /\ PoolOK' /\ DeletesOK' /\ GhostsOK'
  BY TypeParts, NextTypeParts
<1> USE StarrAssumption
<1>1. ASSUME NEW down \in SUBSET Titles, Poll(down)
      PROVE  WorldOK' /\ OwnedOK' /\ PoolOK' /\ DeletesOK' /\ GhostsOK'
  <2> DEFINE list == [t \in Titles |-> IF t \in down THEN listed[t] ELSE client[t]]
             newmap == [t \in Titles |-> Checked(t, list[t])]
  <2>1. list \in [Titles -> Listings]
    BY DEF WorldOK
  <2>2. newmap \in [Titles -> Statuses] /\ \A t \in orphans : newmap[t] = map[t]
    BY CheckedType DEF OwnedOK
  <2>3. WorldOK'
    BY <1>1, <2>1 DEF Poll, WorldOK
  <2>4. OwnedOK'
    BY <1>1, <2>2 DEF Poll, OwnedOK
  <2>5. PoolOK' /\ DeletesOK'
    BY <1>1 DEF Poll, PoolOK, DeletesOK, pool
  <2>6. GhostsOK'
    BY <1>1 DEF Poll, Loose, GhostsOK
  <2> QED  BY <2>3, <2>4, <2>5, <2>6
<1>2. ASSUME NEW t \in Titles, ExtractCompleted(t)
      PROVE  WorldOK' /\ OwnedOK' /\ PoolOK' /\ DeletesOK' /\ GhostsOK'
  <2>1. WorldOK' /\ DeletesOK'
    BY <1>2 DEF ExtractCompleted, lists, WorldOK, DeletesOK
  <2>2. OwnedOK'
    BY <1>2 DEF ExtractCompleted, OwnedOK, Statuses
  <2>3. PoolOK'
    BY <1>2, AppendElements DEF ExtractCompleted, PoolOK
  <2>4. GhostsOK'
    BY <1>2 DEF ExtractCompleted, GhostsOK
  <2> QED  BY <2>1, <2>2, <2>3, <2>4
<1>3. ASSUME NEW t \in Titles, CheckDone(t)
      PROVE  WorldOK' /\ OwnedOK' /\ PoolOK' /\ DeletesOK' /\ GhostsOK'
  <2>1. WorldOK' /\ PoolOK' /\ GhostsOK'
    BY <1>3 DEF CheckDone, ExpireDeleted, RetryFailed, GiveUp, CleanImported, WorldOK,
                PoolOK, GhostsOK, lists, pool, ghosts
  <2>2. OwnedOK'
    BY <1>3 DEF CheckDone, ExpireDeleted, RetryFailed, GiveUp, CleanImported, MayRetry,
                Due, OwnedOK, Statuses
  <2>3. DeletesOK'
    BY <1>3, AppendElements
       DEF CheckDone, ExpireDeleted, RetryFailed, GiveUp, CleanImported, DeletesOK
  <2> QED  BY <2>1, <2>2, <2>3
<1>4. ASSUME NEW w \in Workers, Work(w)
      PROVE  WorldOK' /\ OwnedOK' /\ PoolOK' /\ DeletesOK' /\ GhostsOK'
  <2>1. WorldOK' /\ OwnedOK' /\ DeletesOK' /\ GhostsOK'
    BY <1>4 DEF Work, StartJob, FindNothing, FinishJob, TakeJob, WorldOK, OwnedOK,
                DeletesOK, GhostsOK, lists, owned, ghosts
  <2>2. ASSUME TakeJob(w)
        PROVE  queue' \in Seq(Titles) /\ Head(queue) \in Titles
    BY <2>2, TailElements DEF TakeJob, PoolOK
  <2>3. CASE StartJob(w)
    <3>1. /\ TakeJob(w)
          /\ running' = running \cup {[worker |-> w, title |-> Head(queue)]}
          /\ updates' = Append(updates, Answer(Head(queue), FALSE, TRUE))
      BY <2>3 DEF StartJob
    <3>2. Answer(Head(queue), FALSE, TRUE) \in Messages
      BY <2>2, <3>1, AnswerType
    <3>3. updates' \in Seq(Messages)
      BY <3>1, <3>2, AppendElements DEF PoolOK
    <3>4. running' \subseteq [worker : Workers, title : Titles]
      BY <2>2, <3>1 DEF PoolOK
    <3>5. queue' \in Seq(Titles)
      BY <2>2, <3>1
    <3> QED  BY <2>1, <3>3, <3>4, <3>5 DEF PoolOK
  <2>5. CASE FindNothing(w)
    <3>1. /\ TakeJob(w) /\ running' = running
          /\ updates' = Append(updates, Answer(Head(queue), TRUE, FALSE))
      BY <2>5 DEF FindNothing
    <3>2. Answer(Head(queue), TRUE, FALSE) \in Messages
      BY <2>2, <3>1, AnswerType
    <3>3. updates' \in Seq(Messages)
      BY <3>1, <3>2, AppendElements DEF PoolOK
    <3>4. queue' \in Seq(Titles) /\ running' = running
      BY <2>2, <3>1
    <3> QED  BY <2>1, <3>3, <3>4 DEF PoolOK
  <2>4. ASSUME NEW ok \in BOOLEAN, FinishJob(w, ok)  PROVE PoolOK'
    <3>1. PICK j \in running : /\ running' = running \ {j}
                               /\ queue' = queue
                               /\ updates' = Append(updates, Answer(j.title, TRUE, ok))
      BY <2>4 DEF FinishJob
    <3>2. Answer(j.title, TRUE, ok) \in Messages
      BY AnswerType DEF PoolOK
    <3>3. updates' \in Seq(Messages)
      BY <3>1, <3>2, AppendElements DEF PoolOK
    <3>4. running' \subseteq running /\ queue' = queue
      BY <3>1
    <3> QED  BY <3>3, <3>4 DEF PoolOK
  <2> QED  BY <1>4, <2>1, <2>3, <2>4, <2>5 DEF Work
<1>5. ASSUME Callback
      PROVE  WorldOK' /\ OwnedOK' /\ PoolOK' /\ DeletesOK' /\ GhostsOK'
  <2> DEFINE a == Head(updates)
  <2>1. Receive(a) /\ a \in Messages
    BY <1>5, TailElements DEF Callback, CallbackCancelled, CallbackAccepted, PoolOK
  <2>2. WorldOK' /\ PoolOK' /\ DeletesOK'
    BY <2>1, TailElements DEF Receive, WorldOK, PoolOK, DeletesOK, lists
  <2>3. GhostsOK'
    BY <1>5, <2>1 DEF Receive, Callback, CallbackCancelled, CallbackAccepted, GhostsOK,
                      Messages
  <2>4. Outcome(a) \in Statuses \ {"ABSENT"}
    BY DEF Outcome, Statuses
  <2>5. OwnedOK'
    BY <1>5, <2>1, <2>4 DEF Receive, Callback, CallbackCancelled, CallbackAccepted,
                            UpdateQueueStatus, OwnedOK, Messages
  <2> QED  BY <2>2, <2>3, <2>5
<1>6. ASSUME DeleteFiles
      PROVE  WorldOK' /\ OwnedOK' /\ PoolOK' /\ DeletesOK' /\ GhostsOK'
  BY <1>6, TailElements DEF DeleteFiles, WorldOK, OwnedOK, PoolOK, DeletesOK, GhostsOK,
                            owned, pool, ghosts
<1>7. ASSUME Environment
      PROVE  WorldOK' /\ OwnedOK' /\ PoolOK' /\ DeletesOK' /\ GhostsOK'
  <2>1. ASSUME NEW t \in Titles, UserCancel(t) \/ UserUnignore(t) \/ Stale(t)
        PROVE  WorldOK' /\ OwnedOK' /\ PoolOK' /\ DeletesOK' /\ GhostsOK'
    <3>1. WorldOK' /\ PoolOK' /\ DeletesOK'
      BY <2>1 DEF UserCancel, UserUnignore, Stale, World, WorldOK, PoolOK, DeletesOK,
                  lists, pool
    <3>2. OwnedOK'
      BY <2>1 DEF UserCancel, UserUnignore, Stale, OwnedOK, Statuses, owned
    <3>3. GhostsOK'
      BY <2>1 DEF UserCancel, UserUnignore, Stale, Loose, GhostsOK
    <3> QED  BY <3>1, <3>2, <3>3
  <2>2. ASSUME NEW t \in Titles, NEW listing \in Listings, ClientLists(t, listing)
        PROVE  WorldOK' /\ OwnedOK' /\ PoolOK' /\ DeletesOK' /\ GhostsOK'
    <3>1. WorldOK'
      BY <2>2 DEF ClientLists, World, WorldOK, Listings
    <3>2. OwnedOK' /\ PoolOK' /\ DeletesOK' /\ GhostsOK'
      BY <2>2 DEF ClientLists, OwnedOK, PoolOK, DeletesOK, GhostsOK, owned, pool
    <3> QED  BY <3>1, <3>2
  <2>3. CASE StopClear
    <3>1. WorldOK' /\ PoolOK' /\ DeletesOK'
      BY <2>3 DEF StopClear, World, WorldOK, PoolOK, DeletesOK, lists, pool
    <3>2. OwnedOK'
      BY <2>3 DEF StopClear, OwnedOK, Statuses
    <3>3. GhostsOK'
      BY <2>3 DEF StopClear, Loose, GhostsOK
    <3> QED  BY <3>1, <3>2, <3>3
  <2>4. CASE Resume
    <3>1. WorldOK'
      <4>1. paused' \in BOOLEAN
        BY <2>4 DEF Resume
      <4>2. cancelled' = {} /\ world' \in 0 .. MaxWorld /\ UNCHANGED lists
        BY <2>4 DEF Resume, World, WorldOK
      <4> QED  BY <4>1, <4>2 DEF WorldOK, lists
    <3>2. OwnedOK' /\ PoolOK' /\ DeletesOK' /\ GhostsOK'
      BY <2>4 DEF Resume, OwnedOK, PoolOK, DeletesOK, GhostsOK, owned, pool
    <3> QED  BY <3>1, <3>2
  <2>5. CASE Restart
    BY <2>5 DEF Restart, World, WorldOK, OwnedOK, PoolOK, DeletesOK, GhostsOK, Statuses,
                Listings
  <2> QED  BY <1>7, <2>1, <2>2, <2>3, <2>4, <2>5 DEF Environment
<1>8. CASE UNCHANGED vars
  BY <1>8 DEF vars, lists, owned, pool, ghosts, WorldOK, OwnedOK, PoolOK, DeletesOK,
              GhostsOK
<1> QED  BY <1>1, <1>2, <1>3, <1>4, <1>5, <1>6, <1>7, <1>8 DEF Next

(***************************************************************************)
(* The announced ends.                                                     *)
(***************************************************************************)
LEMMA NextAnnounced == TypeOK /\ Announced /\ [Next]_vars => Announced'
<1> SUFFICES ASSUME PoolOK, Announced, [Next]_vars  PROVE Announced'
  BY TypeParts
<1>1. ASSUME UNCHANGED <<running, updates>>  PROVE Announced'
  BY <1>1 DEF Announced
\* A worker appends an answer; if it ends a job, a finished one of its title.
<1>2. ASSUME NEW a \in Messages, updates' = Append(updates, a),
             \A j \in running : j \in running' \/ (a.done /\ a.title = j.title),
             a.done \/ \E j \in running' : j.title = a.title
      PROVE  Announced'
  <2>1. /\ \A i \in DOMAIN updates : /\ i \in DOMAIN updates'
                                    /\ updates'[i] = updates[i]
                                    /\ i < Len(updates) + 1
        /\ Len(updates) + 1 \in DOMAIN updates'
        /\ updates'[Len(updates) + 1] = a
        /\ \A i \in DOMAIN updates' : i \in DOMAIN updates \/ i = Len(updates) + 1
    BY <1>2, AppendElements DEF PoolOK
  <2>2. ASSUME NEW i \in DOMAIN updates', ~updates'[i].done
        PROVE  \/ \E j \in running' : j.title = updates'[i].title
               \/ \E k \in DOMAIN updates' : /\ k > i
                                             /\ updates'[k].done
                                             /\ updates'[k].title = updates'[i].title
    <3>1. CASE i = Len(updates) + 1
      BY <1>2, <2>1, <2>2, <3>1
    <3>2. CASE i \in DOMAIN updates
      <4>1. ~updates[i].done
        BY <2>1, <2>2, <3>2
      <4>2. CASE \E j \in running : j.title = updates[i].title
        BY <1>2, <2>1, <3>2, <4>2
      <4>3. CASE \E k \in DOMAIN updates : /\ k > i
                                          /\ updates[k].done
                                          /\ updates[k].title = updates[i].title
        BY <2>1, <3>2, <4>3
      <4> QED  BY <3>2, <4>1, <4>2, <4>3 DEF Announced
    <3> QED  BY <2>1, <3>1, <3>2
  <2> QED  BY <2>2 DEF Announced
<1>3. ASSUME NEW w \in Workers, Work(w)  PROVE Announced'
  <2>1. CASE StartJob(w)
    <3> DEFINE a == Answer(Head(queue), FALSE, TRUE)
    <3>1. a \in Messages
      BY <2>1, TailElements, AnswerType DEF StartJob, TakeJob, PoolOK
    <3>2. \E j \in running' : j.title = a.title
      <4> DEFINE j == [worker |-> w, title |-> Head(queue)]
      <4>1. j \in running' /\ j.title = Head(queue)
        BY <2>1 DEF StartJob
      <4>2. a.title = Head(queue)
        BY DEF Answer
      <4> QED  BY <4>1, <4>2
    <3>3. updates' = Append(updates, a) /\ \A j \in running : j \in running'
      BY <2>1 DEF StartJob
    <3> HIDE DEF a
    <3> QED  BY <1>2, <3>1, <3>2, <3>3
  <2>2. CASE FindNothing(w)
    <3> DEFINE a == Answer(Head(queue), TRUE, FALSE)
    <3>1. a \in Messages
      BY <2>2, TailElements, AnswerType DEF FindNothing, TakeJob, PoolOK
    <3>2. a.done
      BY DEF Answer
    <3> QED  BY <1>2, <2>2, <3>1, <3>2 DEF FindNothing
  <2>3. ASSUME NEW ok \in BOOLEAN, FinishJob(w, ok)  PROVE Announced'
    <3>1. PICK j \in running : /\ running' = running \ {j}
                               /\ updates' = Append(updates, Answer(j.title, TRUE, ok))
      BY <2>3 DEF FinishJob
    <3> DEFINE a == Answer(j.title, TRUE, ok)
    <3>2. a \in Messages
      BY AnswerType DEF PoolOK
    <3>3. a.done /\ a.title = j.title
      BY DEF Answer
    <3> QED  BY <1>2, <3>1, <3>2, <3>3
  <2> QED  BY <1>3, <2>1, <2>2, <2>3 DEF Work
<1>4. ASSUME Callback  PROVE Announced'
  <2>1. updates # <<>> /\ updates' = Tail(updates) /\ running' = running
    BY <1>4 DEF Callback, CallbackCancelled, CallbackAccepted, Receive
  <2>2. /\ \A k \in DOMAIN updates' : /\ k \in Nat
                                     /\ k + 1 \in DOMAIN updates
                                     /\ updates'[k] = updates[k + 1]
        /\ \A i \in DOMAIN updates : i # 1 => /\ i \in Nat
                                             /\ i - 1 \in DOMAIN updates'
                                             /\ updates'[i - 1] = updates[i]
    BY <2>1, TailElements DEF PoolOK
  <2>3. ASSUME NEW i \in DOMAIN updates', ~updates'[i].done
        PROVE  \/ \E j \in running' : j.title = updates'[i].title
               \/ \E k \in DOMAIN updates' : /\ k > i
                                             /\ updates'[k].done
                                             /\ updates'[k].title = updates'[i].title
    <3>1. i + 1 \in DOMAIN updates /\ ~updates[i + 1].done /\ i \in Nat \ {0}
      BY <2>1, <2>2, <2>3 DEF PoolOK
    <3>2. CASE \E j \in running : j.title = updates[i + 1].title
      BY <2>1, <2>2, <3>2
    <3>3. ASSUME NEW k \in DOMAIN updates, k > i + 1, updates[k].done,
                 updates[k].title = updates[i + 1].title
          PROVE  /\ k - 1 \in DOMAIN updates' /\ k - 1 > i
                 /\ updates'[k - 1].done /\ updates'[k - 1].title = updates'[i].title
      <4>1. k \in Nat /\ k # 1 /\ k - 1 > i
        BY <3>1, <3>3 DEF PoolOK
      <4>2. k - 1 \in DOMAIN updates' /\ updates'[k - 1] = updates[k]
        BY <2>2, <4>1
      <4> QED  BY <2>2, <3>3, <4>1, <4>2
    <3>4. \/ \E j \in running : j.title = updates[i + 1].title
          \/ \E k \in DOMAIN updates : /\ k > i + 1
                                       /\ updates[k].done
                                       /\ updates[k].title = updates[i + 1].title
      BY <3>1 DEF Announced
    <3> QED  BY <3>2, <3>3, <3>4
  <2> QED  BY <2>3 DEF Announced
<1>5. CASE Restart
  BY <1>5 DEF Restart, Announced
<1>6. ASSUME Environment  PROVE Restart \/ UNCHANGED <<running, updates>>
  BY <1>6 DEF Environment, UserCancel, UserUnignore, Stale, ClientLists, StopClear,
              Resume, pool
<1>7. ASSUME \/ \E down \in SUBSET Titles : Poll(down)
             \/ \E t \in Titles : ExtractCompleted(t) \/ CheckDone(t)
             \/ DeleteFiles
             \/ UNCHANGED vars
      PROVE  UNCHANGED <<running, updates>>
  BY <1>7 DEF Poll, ExtractCompleted, CheckDone, ExpireDeleted, RetryFailed, GiveUp,
              CleanImported, DeleteFiles, vars, pool
<1> QED  BY <1>1, <1>3, <1>4, <1>5, <1>6, <1>7 DEF Next

(***************************************************************************)
(* Tasks with an answer to come.                                           *)
(***************************************************************************)
LEMMA NextNoStuckTask ==
  TypeOK /\ Announced /\ NoStuckTask /\ [Next]_vars => NoStuckTask'
<1> SUFFICES ASSUME OwnedOK, PoolOK, GhostsOK, Announced, NoStuckTask, [Next]_vars,
                    NEW t \in Titles, map'[t] \in Submitted
             PROVE  InFlight(t)' \/ t \in muted'
  BY TypeParts DEF NoStuckTask
\* Steps that keep the jobs and submit nothing.
<1>1. ASSUME UNCHANGED <<queue, running, updates>>, muted' = muted, map[t] \in Submitted
      PROVE  InFlight(t)' \/ t \in muted'
  BY <1>1 DEF NoStuckTask, InFlight, Finished
<1>2. ASSUME NEW down \in SUBSET Titles, Poll(down)
      PROVE  InFlight(t)' \/ t \in muted'
  <2>1. map[t] \in Submitted
    BY <1>2, CheckedType DEF Poll
  <2> QED  BY <1>1, <1>2, <2>1 DEF Poll, pool
<1>3. ASSUME NEW s \in Titles, ExtractCompleted(s)
      PROVE  InFlight(t)' \/ t \in muted'
  <2>1. /\ \A i \in DOMAIN queue : i \in DOMAIN queue' /\ queue'[i] = queue[i]
        /\ Len(queue) + 1 \in DOMAIN queue' /\ queue'[Len(queue) + 1] = s
    BY <1>3, AppendElements DEF ExtractCompleted, PoolOK
  <2>2. CASE t = s
    BY <2>1, <2>2 DEF InFlight
  <2>3. CASE t # s
    <3>1. map[t] \in Submitted /\ (t \in muted => t \in muted')
      BY <1>3, <2>3 DEF ExtractCompleted, OwnedOK
    <3>2. InFlight(t) \/ t \in muted
      BY <3>1 DEF NoStuckTask
    <3> QED  BY <1>3, <2>1, <3>1, <3>2 DEF InFlight, Finished, ExtractCompleted
  <2> QED  BY <2>2, <2>3
<1>4. ASSUME NEW s \in Titles, CheckDone(s)
      PROVE  InFlight(t)' \/ t \in muted'
  <2>1. map[t] \in Submitted
    BY <1>4 DEF CheckDone, ExpireDeleted, RetryFailed, GiveUp, CleanImported, OwnedOK,
                Submitted
  <2>2. UNCHANGED <<queue, running, updates, muted>>
    BY <1>4 DEF CheckDone, ExpireDeleted, RetryFailed, GiveUp, CleanImported, pool,
                ghosts
  <2> QED  BY <1>1, <2>1, <2>2
<1>5. ASSUME NEW w \in Workers, Work(w)
      PROVE  InFlight(t)' \/ t \in muted'
  <2>1. map' = map /\ muted' = muted
    BY <1>5 DEF Work, StartJob, FindNothing, FinishJob, TakeJob, owned, ghosts
  <2>2. InFlight(t) \/ t \in muted
    BY <2>1 DEF NoStuckTask
  <2>3. ASSUME NEW a \in Messages, updates' = Append(updates, a)
        PROVE  /\ \A i \in DOMAIN updates : /\ i \in DOMAIN updates'
                                           /\ updates'[i] = updates[i]
               /\ Len(updates) + 1 \in DOMAIN updates'
               /\ updates'[Len(updates) + 1] = a
    BY <2>3, AppendElements DEF PoolOK
  <2>4. ASSUME TakeJob(w)
        PROVE  /\ Head(queue) \in Titles
               /\ \A i \in DOMAIN queue :
                     \/ queue[i] = Head(queue)
                     \/ \E k \in DOMAIN queue' : queue'[k] = queue[i]
    BY <2>4, TailElements DEF TakeJob, PoolOK
  <2>5. CASE StartJob(w)
    <3> DEFINE j == [worker |-> w, title |-> Head(queue)]
    <3>1. TakeJob(w) /\ running' = running \cup {j} /\ j.title = Head(queue)
      BY <2>5 DEF StartJob
    <3>2. Answer(Head(queue), FALSE, TRUE) \in Messages
      BY <2>4, <3>1, AnswerType
    <3>3. \A i \in DOMAIN updates : i \in DOMAIN updates' /\ updates'[i] = updates[i]
      BY <2>3, <2>5, <3>2 DEF StartJob
    <3> QED  BY <2>1, <2>2, <2>4, <3>1, <3>3 DEF InFlight, Finished
  <2>6. CASE FindNothing(w)
    <3> DEFINE a == Answer(Head(queue), TRUE, FALSE)
    <3>1. TakeJob(w) /\ running' = running /\ updates' = Append(updates, a)
      BY <2>6 DEF FindNothing
    <3>2. a \in Messages
      BY <2>4, <3>1, AnswerType
    <3>3. a.done /\ a.title = Head(queue)
      BY DEF Answer
    <3>4. Len(updates) + 1 \in DOMAIN updates' /\ updates'[Len(updates) + 1] = a
      BY <2>3, <3>1, <3>2
    <3>5. \A i \in DOMAIN updates : i \in DOMAIN updates' /\ updates'[i] = updates[i]
      BY <2>3, <3>1, <3>2
    <3> HIDE DEF a
    <3> QED  BY <2>1, <2>2, <2>4, <3>1, <3>3, <3>4, <3>5 DEF InFlight, Finished
  <2>7. ASSUME NEW ok \in BOOLEAN, FinishJob(w, ok)
        PROVE  InFlight(t)' \/ t \in muted'
    <3>1. PICK j \in running : /\ running' = running \ {j}
                               /\ queue' = queue
                               /\ updates' = Append(updates, Answer(j.title, TRUE, ok))
      BY <2>7 DEF FinishJob
    <3> DEFINE a == Answer(j.title, TRUE, ok)
    <3>2. a \in Messages
      BY AnswerType DEF PoolOK
    <3>3. a.done /\ a.title = j.title
      BY DEF Answer
    <3>4. Len(updates) + 1 \in DOMAIN updates' /\ updates'[Len(updates) + 1] = a
      BY <2>3, <3>1, <3>2
    <3>5. \A i \in DOMAIN updates : i \in DOMAIN updates' /\ updates'[i] = updates[i]
      BY <2>3, <3>1, <3>2
    <3> HIDE DEF a
    <3> QED  BY <2>1, <2>2, <3>1, <3>3, <3>4, <3>5 DEF InFlight, Finished
  <2> QED  BY <1>5, <2>5, <2>6, <2>7 DEF Work
<1>6. ASSUME Callback  PROVE InFlight(t)' \/ t \in muted'
  <2> DEFINE a == Head(updates)
  <2>1. /\ updates # <<>> /\ updates' = Tail(updates)
        /\ queue' = queue /\ running' = running
        /\ muted \subseteq muted'
    BY <1>6 DEF Callback, CallbackCancelled, CallbackAccepted, Receive
  <2>2. a \in Messages /\ 1 \in DOMAIN updates /\ a = updates[1]
    BY <2>1, TailElements DEF PoolOK
  <2>3. \A i \in DOMAIN updates : i # 1 => /\ i - 1 \in DOMAIN updates'
                                         /\ updates'[i - 1] = updates[i]
    BY <2>1, TailElements DEF PoolOK
  <2>4. ASSUME InFlight(t), ~(a.done /\ a.title = t)  PROVE InFlight(t)'
    <3>1. ASSUME NEW i \in DOMAIN updates, Finished(i), updates[i].title = t
          PROVE  InFlight(t)'
      <4>1. i # 1
        BY <2>2, <2>4, <3>1 DEF Finished
      <4>2. i - 1 \in DOMAIN updates' /\ updates'[i - 1] = updates[i]
        BY <2>3, <4>1
      <4> QED  BY <3>1, <4>2 DEF InFlight, Finished
    <3> QED  BY <2>1, <2>4, <3>1 DEF InFlight
  <2>5. CASE CallbackCancelled(a)
    <3>1. map' = map
      BY <2>5 DEF CallbackCancelled
    <3>2. a.done /\ a.title = t => t \in muted'
      BY <2>5 DEF CallbackCancelled
    <3> QED  BY <2>1, <2>4, <3>1, <3>2 DEF NoStuckTask
  <2>6. CASE CallbackAccepted(a)
    <3>1. map' = [map EXCEPT ![a.title] = Outcome(a)] /\ a.title \in Titles
      BY <2>2, <2>6 DEF CallbackAccepted, UpdateQueueStatus, Messages
    <3>2. CASE a.title # t
      BY <2>1, <2>4, <3>1, <3>2 DEF NoStuckTask, OwnedOK
    <3>3. CASE a.title = t
      <4>1. ~a.done
        BY <3>1, <3>3 DEF Outcome, Submitted, OwnedOK
      <4>2. InFlight(t)
        <5>1. \/ \E j \in running : j.title = t
              \/ \E k \in DOMAIN updates : updates[k].done /\ updates[k].title = t
          BY <2>2, <3>3, <4>1 DEF Announced
        <5> QED  BY <5>1 DEF InFlight, Finished
      <4> QED  BY <2>4, <4>1, <4>2
    <3> QED  BY <3>2, <3>3
  <2> QED  BY <1>6, <2>5, <2>6 DEF Callback
<1>7. ASSUME Environment  PROVE InFlight(t)' \/ t \in muted'
  <2>1. ASSUME NEW s \in Titles, UserCancel(s) \/ UserUnignore(s) \/ Stale(s)
        PROVE  UNCHANGED <<queue, running, updates, muted>> /\ map[t] \in Submitted
    BY <2>1 DEF UserCancel, UserUnignore, Stale, OwnedOK, Submitted, pool, owned
  <2>2. ASSUME NEW s \in Titles, NEW listing \in Listings, ClientLists(s, listing)
        PROVE  UNCHANGED <<queue, running, updates, muted>> /\ map[t] \in Submitted
    BY <2>2 DEF ClientLists, pool, owned
  <2>3. ASSUME StopClear
        PROVE  UNCHANGED <<queue, running, updates, muted>> /\ map[t] \in Submitted
    BY <2>3 DEF StopClear, OwnedOK, Submitted, pool
  <2>4. ASSUME Resume
        PROVE  UNCHANGED <<queue, running, updates, muted>> /\ map[t] \in Submitted
    BY <2>4 DEF Resume, pool, owned
  <2>5. ~Restart
    BY DEF Restart, Submitted
  <2> QED  BY <1>1, <1>7, <2>1, <2>2, <2>3, <2>4, <2>5 DEF Environment
<1>8. ASSUME DeleteFiles \/ UNCHANGED vars  PROVE InFlight(t)' \/ t \in muted'
  BY <1>1, <1>8 DEF DeleteFiles, vars, owned, pool, ghosts
<1> QED  BY <1>2, <1>3, <1>4, <1>5, <1>6, <1>7, <1>8 DEF Next

(***************************************************************************)
(* Imported downloads.                                                     *)
(***************************************************************************)
LEMMA NextImportedGone == TypeOK /\ ImportedGone /\ [Next]_vars => ImportedGone'
<1> SUFFICES ASSUME OwnedOK, PoolOK, ImportedGone, [Next]_vars,
                    NEW t \in Titles \ orphans', map'[t] = "IMPORTED"
             PROVE  listed'[t] = "none"
  BY TypeParts DEF ImportedGone
<1>1. ASSUME map[t] = "IMPORTED", t \notin orphans, listed' = listed
      PROVE  listed'[t] = "none"
  BY <1>1 DEF ImportedGone
<1>2. ASSUME NEW down \in SUBSET Titles, Poll(down)  PROVE listed'[t] = "none"
  BY <1>2, CheckedType DEF Poll
<1>3. ASSUME NEW s \in Titles, ExtractCompleted(s)  PROVE listed'[t] = "none"
  BY <1>1, <1>3 DEF ExtractCompleted, lists, OwnedOK
<1>4. ASSUME NEW s \in Titles, CheckDone(s)  PROVE listed'[t] = "none"
  <2>1. listed' = listed /\ map[t] = "IMPORTED" /\ t # s
    BY <1>4 DEF CheckDone, ExpireDeleted, RetryFailed, GiveUp, CleanImported, lists,
                OwnedOK, Statuses
  <2>2. t \notin orphans
    BY <1>4, <2>1 DEF CheckDone, ExpireDeleted, RetryFailed, GiveUp, CleanImported
  <2> QED  BY <1>1, <2>1, <2>2
<1>5. ASSUME NEW w \in Workers, Work(w)  PROVE listed'[t] = "none"
  <2>1. listed' = listed /\ map' = map /\ orphans' = orphans
    BY <1>5 DEF Work, StartJob, FindNothing, FinishJob, TakeJob, lists, owned
  <2> QED  BY <1>1, <2>1
<1>6. ASSUME Callback  PROVE listed'[t] = "none"
  <2> DEFINE a == Head(updates)
  <2>1. a \in Messages /\ listed' = listed
    BY <1>6, TailElements DEF Callback, CallbackCancelled, CallbackAccepted, Receive,
                              PoolOK, lists
  <2>2. map[t] = "IMPORTED" /\ orphans \subseteq orphans'
    BY <1>6, <2>1 DEF Callback, CallbackCancelled, CallbackAccepted, UpdateQueueStatus,
                      Outcome, OwnedOK, Messages
  <2> QED  BY <1>1, <2>1, <2>2
<1>7. ASSUME DeleteFiles \/ UNCHANGED vars  PROVE listed'[t] = "none"
  BY <1>1, <1>7 DEF DeleteFiles, vars, lists, owned
<1>8. ASSUME Environment  PROVE listed'[t] = "none"
  <2>1. ASSUME NEW s \in Titles, UserCancel(s) \/ UserUnignore(s) \/ Stale(s)
        PROVE  listed'[t] = "none"
    <3>1. listed' = listed /\ map[t] = "IMPORTED"
      BY <2>1 DEF UserCancel, UserUnignore, Stale, lists, owned, OwnedOK, Submitted
    <3>2. t \notin orphans
      BY <2>1, <3>1 DEF UserCancel, UserUnignore, Stale, owned, OwnedOK, Submitted
    <3> QED  BY <1>1, <3>1, <3>2
  <2>2. ASSUME NEW s \in Titles, NEW listing \in Listings, ClientLists(s, listing)
        PROVE  listed'[t] = "none"
    BY <1>1, <2>2 DEF ClientLists, owned
  <2>3. ASSUME StopClear  PROVE listed'[t] = "none"
    BY <2>3 DEF StopClear
  <2>4. ASSUME Resume  PROVE listed'[t] = "none"
    BY <1>1, <2>4 DEF Resume, lists, owned
  <2>5. ~Restart
    BY DEF Restart
  <2> QED  BY <1>8, <2>1, <2>2, <2>3, <2>4, <2>5 DEF Environment
<1> QED  BY <1>2, <1>3, <1>4, <1>5, <1>6, <1>7, <1>8 DEF Next

\* Only checkExtractDone asks for a deletion, of a title that is IMPORTED.
LEMMA DeletesGrow ==
  ASSUME TypeOK, [Next]_vars, Len(deletes') > Len(deletes)
  PROVE  \E t \in Titles : CleanImported(t) /\ deletes' = Append(deletes, t)
<1>1. deletes \in Seq(DeleteOrig)
  BY DEF TypeOK
<1>2. deletes' # deletes
  BY <1>1
<1>3. ~DeleteFiles
  BY <1>1, TailElements DEF DeleteFiles
<1>4. \A down \in SUBSET Titles : ~Poll(down)
  BY <1>2 DEF Poll
<1>5. \A t \in Titles : ~ExtractCompleted(t)
  BY <1>2 DEF ExtractCompleted
<1>6. \A w \in Workers : ~Work(w)
  BY <1>2 DEF Work, StartJob, FindNothing, FinishJob, TakeJob
<1>7. ~Callback
  BY <1>2 DEF Callback, CallbackCancelled, CallbackAccepted, Receive
<1>8. ~Environment
  <2>1. ASSUME Environment  PROVE Restart
    BY <1>2, <2>1 DEF Environment, UserCancel, UserUnignore, Stale, ClientLists,
                      StopClear, Resume
  <2>2. ~Restart
    BY <1>1 DEF Restart
  <2> QED  BY <2>1, <2>2
<1>9. ~UNCHANGED vars
  BY <1>2 DEF vars
<1>10. PICK t \in Titles : CheckDone(t)
  BY <1>3, <1>4, <1>5, <1>6, <1>7, <1>8, <1>9 DEF Next
<1> QED
  BY <1>2, <1>10 DEF CheckDone, ExpireDeleted, RetryFailed, GiveUp, CleanImported

(***************************************************************************)
(* Single jobs.                                                            *)
(***************************************************************************)
\* The three places of a job.
Queued(t) == \E i \in DOMAIN queue : queue[i] = t
Running(t) == \E j \in running : j.title = t
EndOf(t, i) == Finished(i) /\ updates[i].title = t
Answered(t) == \E i \in DOMAIN updates : EndOf(t, i)

QueuedOnce(t) == \A i, k \in DOMAIN queue : queue[i] = t /\ queue[k] = t => i = k
RunningOnce(t) == \A i, j \in running : i.title = t /\ j.title = t => i = j
AnsweredOnce(t) == \A i, k \in DOMAIN updates : EndOf(t, i) /\ EndOf(t, k) => i = k

\* A job is in one place, and there once.
OneJob(t) ==
    /\ QueuedOnce(t) /\ RunningOnce(t) /\ AnsweredOnce(t)
    /\ Queued(t) => ~Running(t) /\ ~Answered(t)
    /\ Running(t) => ~Answered(t)

\* The status in u.Map is held for as long as the job is somewhere.
Locked(t) == OneJob(t) /\ (InFlight(t) => map[t] \in Submitted)
LockHeld == \A t \in Titles \ loosed : Locked(t)

LEMMA InPlaces ==
  ASSUME NEW t \in Titles
  PROVE  /\ InFlight(t) <=> Queued(t) \/ Running(t) \/ Answered(t)
         /\ InFlight(t)' <=> (Queued(t) \/ Running(t) \/ Answered(t))'
  BY DEF InFlight, Queued, Running, Answered, EndOf

LEMMA AtMostOne ==
  ASSUME NEW S, \A x, y \in S : x = y
  PROVE  Cardinality(S) = IF S = {} THEN 0 ELSE 1
<1>1. CASE S = {}
  BY <1>1, FS_EmptySet
<1>2. CASE S # {}
  <2>1. PICK x : S = {x}
    BY <1>2
  <2> QED  BY <1>2, <2>1, FS_Singleton
<1> QED  BY <1>1, <1>2

LEMMA OneJobCounts ==
  ASSUME NEW t \in Titles, OneJob(t)
  PROVE  Jobs(t) <= 1
<1> DEFINE Q == {i \in DOMAIN queue : queue[i] = t}
           R == {j \in running : j.title = t}
           U == {i \in DOMAIN updates : Finished(i) /\ updates[i].title = t}
<1>1. /\ \A x, y \in Q : x = y
      /\ \A x, y \in R : x = y
      /\ \A x, y \in U : x = y
  BY DEF OneJob, QueuedOnce, RunningOnce, AnsweredOnce, EndOf
<1>2. /\ Q # {} => R = {} /\ U = {}
      /\ R # {} => U = {}
  BY DEF OneJob, Queued, Running, Answered, EndOf
<1>3. Jobs(t) = Cardinality(Q) + Cardinality(R) + Cardinality(U)
  BY DEF Jobs
<1> HIDE DEF Q, R, U
<1>4. /\ Cardinality(Q) = IF Q = {} THEN 0 ELSE 1
      /\ Cardinality(R) = IF R = {} THEN 0 ELSE 1
      /\ Cardinality(U) = IF U = {} THEN 0 ELSE 1
  BY <1>1, AtMostOne
<1> QED  BY <1>2, <1>3, <1>4

LEMMA PlacesStay ==
  ASSUME NEW t \in Titles, UNCHANGED <<queue, running, updates>>
  PROVE  (OneJob(t) <=> OneJob(t)') /\ (InFlight(t) <=> InFlight(t)')
  BY DEF OneJob, Queued, Running, Answered, QueuedOnce, RunningOnce, AnsweredOnce, EndOf,
         InFlight, Finished

LEMMA QueueAppends ==
  ASSUME NEW t \in Titles, NEW s \in Titles, PoolOK, queue' = Append(queue, s)
  PROVE  /\ Queued(t)' <=> Queued(t) \/ s = t
         /\ QueuedOnce(t) /\ (s = t => ~Queued(t)) => QueuedOnce(t)'
<1>1. /\ \A i \in DOMAIN queue : i \in DOMAIN queue' /\ queue'[i] = queue[i]
      /\ Len(queue) + 1 \in DOMAIN queue' /\ queue'[Len(queue) + 1] = s
      /\ \A i \in DOMAIN queue' : i \in DOMAIN queue \/ i = Len(queue) + 1
  BY AppendElements DEF PoolOK
<1> QED  BY <1>1 DEF Queued, QueuedOnce

LEMMA QueuePops ==
  ASSUME NEW t \in Titles, PoolOK, queue # <<>>, queue' = Tail(queue)
  PROVE  /\ Queued(t)' => Queued(t)
         /\ QueuedOnce(t) => QueuedOnce(t)'
         /\ Head(queue) = t => Queued(t) /\ (QueuedOnce(t) => ~Queued(t)')
<1>1. /\ 1 \in DOMAIN queue /\ Head(queue) = queue[1] /\ DOMAIN queue \subseteq Nat
      /\ \A k \in DOMAIN queue' : k \in Nat \ {0} /\ k + 1 \in DOMAIN queue
                                  /\ queue'[k] = queue[k + 1]
  BY TailElements DEF PoolOK
<1>2. Queued(t)' => Queued(t)
  BY <1>1 DEF Queued
<1>3. ASSUME QueuedOnce(t)  PROVE QueuedOnce(t)'
  <2> SUFFICES ASSUME NEW i \in DOMAIN queue', NEW k \in DOMAIN queue',
                      queue'[i] = t, queue'[k] = t
               PROVE  i = k
    BY DEF QueuedOnce
  <2>1. i + 1 = k + 1
    BY <1>1, <1>3 DEF QueuedOnce
  <2> QED  BY <1>1, <2>1
<1>4. ASSUME Head(queue) = t  PROVE Queued(t) /\ (QueuedOnce(t) => ~Queued(t)')
  <2>1. Queued(t)
    BY <1>1, <1>4 DEF Queued
  <2>2. ASSUME QueuedOnce(t), NEW k \in DOMAIN queue', queue'[k] = t  PROVE FALSE
    <3>1. k + 1 = 1
      BY <1>1, <1>4, <2>2 DEF QueuedOnce
    <3> QED  BY <1>1, <3>1
  <2> QED  BY <2>1, <2>2 DEF Queued
<1> QED  BY <1>2, <1>3, <1>4

LEMMA UpdatesAppend ==
  ASSUME NEW t \in Titles, NEW a \in Messages, PoolOK, updates' = Append(updates, a)
  PROVE  /\ Answered(t)' <=> Answered(t) \/ (a.done /\ a.title = t)
         /\ AnsweredOnce(t) /\ (a.done /\ a.title = t => ~Answered(t)) => AnsweredOnce(t)'
<1>1. PICK n : /\ \A i \in DOMAIN updates : i \in DOMAIN updates' /\ updates'[i] = updates[i]
               /\ n \in DOMAIN updates' /\ updates'[n] = a
               /\ \A i \in DOMAIN updates' : i \in DOMAIN updates \/ i = n
  BY AppendElements DEF PoolOK
<1>2. \A i \in DOMAIN updates' :
          EndOf(t, i)' <=> IF i = n THEN a.done /\ a.title = t ELSE EndOf(t, i)
  BY <1>1 DEF EndOf, Finished
<1>3. n \in DOMAIN updates => (EndOf(t, n) <=> a.done /\ a.title = t)
  BY <1>1 DEF EndOf, Finished
<1> QED  BY <1>1, <1>2, <1>3 DEF Answered, AnsweredOnce

LEMMA UpdatesPop ==
  ASSUME NEW t \in Titles, PoolOK, updates # <<>>, updates' = Tail(updates)
  PROVE  /\ Answered(t)' => Answered(t)
         /\ AnsweredOnce(t) => AnsweredOnce(t)'
         /\ Head(updates).done /\ Head(updates).title = t
               => Answered(t) /\ (AnsweredOnce(t) => ~Answered(t)')
<1>1. /\ 1 \in DOMAIN updates /\ Head(updates) = updates[1]
      /\ \A k \in DOMAIN updates' : k \in Nat \ {0} /\ k + 1 \in DOMAIN updates
                                    /\ updates'[k] = updates[k + 1]
  BY TailElements DEF PoolOK
<1>2. \A k \in DOMAIN updates' : EndOf(t, k)' <=> EndOf(t, k + 1)
  BY <1>1 DEF EndOf, Finished
<1>3. Answered(t)' => Answered(t)
  BY <1>1, <1>2 DEF Answered
<1>4. ASSUME AnsweredOnce(t)  PROVE AnsweredOnce(t)'
  <2> SUFFICES ASSUME NEW i \in DOMAIN updates', NEW k \in DOMAIN updates',
                      EndOf(t, i)', EndOf(t, k)'
               PROVE  i = k
    BY DEF AnsweredOnce
  <2>1. i + 1 = k + 1
    BY <1>1, <1>2, <1>4 DEF AnsweredOnce
  <2> QED  BY <1>1, <2>1
<1>5. ASSUME Head(updates).done, Head(updates).title = t
      PROVE  Answered(t) /\ (AnsweredOnce(t) => ~Answered(t)')
  <2>1. EndOf(t, 1)
    BY <1>1, <1>5 DEF EndOf, Finished
  <2>2. ASSUME AnsweredOnce(t), NEW k \in DOMAIN updates', EndOf(t, k)'  PROVE FALSE
    <3>1. k + 1 = 1
      BY <1>1, <1>2, <2>1, <2>2 DEF AnsweredOnce
    <3> QED  BY <1>1, <3>1
  <2> QED  BY <1>1, <2>1, <2>2 DEF Answered
<1> QED  BY <1>3, <1>4, <1>5

\* A worker passes the job of its title on, and leaves the others.
LEMMA WorkLocked ==
  ASSUME PoolOK, NEW w \in Workers, Work(w), NEW t \in Titles, Locked(t)
  PROVE  Locked(t)'
<1>1. map' = map
  BY DEF Work, StartJob, FindNothing, FinishJob, TakeJob, owned
<1>2. CASE StartJob(w)
  <2> DEFINE j == [worker |-> w, title |-> Head(queue)]
             a == Answer(Head(queue), FALSE, TRUE)
  <2>1. /\ queue # <<>> /\ queue' = Tail(queue) /\ running' = running \cup {j}
        /\ updates' = Append(updates, a)
    BY <1>2 DEF StartJob, TakeJob
  <2>2. Head(queue) \in Titles
    BY <2>1, TailElements DEF PoolOK
  <2>3. a \in Messages /\ ~a.done
    BY <2>2, AnswerType DEF Answer
  <2>4. j.title = Head(queue)
    OBVIOUS
  <2> HIDE DEF j, a
  <2>5. /\ Answered(t)' <=> Answered(t)
        /\ AnsweredOnce(t) => AnsweredOnce(t)'
    BY <2>1, <2>3, UpdatesAppend
  <2>6. /\ Running(t)' <=> Running(t) \/ Head(queue) = t
        /\ RunningOnce(t) /\ (Head(queue) = t => ~Running(t)) => RunningOnce(t)'
    BY <2>1, <2>4 DEF Running, RunningOnce
  <2> QED  BY <1>1, <2>1, <2>5, <2>6, QueuePops, InPlaces DEF Locked, OneJob
<1>3. CASE FindNothing(w)
  <2> DEFINE a == Answer(Head(queue), TRUE, FALSE)
  <2>1. /\ queue # <<>> /\ queue' = Tail(queue) /\ running' = running
        /\ updates' = Append(updates, a)
    BY <1>3 DEF FindNothing, TakeJob
  <2>2. Head(queue) \in Titles
    BY <2>1, TailElements DEF PoolOK
  <2>3. a \in Messages /\ a.done /\ a.title = Head(queue)
    BY <2>2, AnswerType DEF Answer
  <2> HIDE DEF a
  <2>4. /\ Answered(t)' <=> Answered(t) \/ Head(queue) = t
        /\ AnsweredOnce(t) /\ (Head(queue) = t => ~Answered(t)) => AnsweredOnce(t)'
    BY <2>1, <2>3, UpdatesAppend
  <2>5. /\ Running(t)' <=> Running(t)
        /\ RunningOnce(t) => RunningOnce(t)'
    BY <2>1 DEF Running, RunningOnce
  <2> QED  BY <1>1, <2>1, <2>4, <2>5, QueuePops, InPlaces DEF Locked, OneJob
<1>4. ASSUME NEW ok \in BOOLEAN, FinishJob(w, ok)  PROVE Locked(t)'
  <2>1. PICK j \in running : /\ running' = running \ {j}
                             /\ queue' = queue
                             /\ updates' = Append(updates, Answer(j.title, TRUE, ok))
    BY <1>4 DEF FinishJob
  <2> DEFINE a == Answer(j.title, TRUE, ok)
  <2>2. a \in Messages /\ a.done /\ a.title = j.title
    BY AnswerType DEF Answer, PoolOK
  <2>3. updates' = Append(updates, a)
    BY <2>1
  <2> HIDE DEF a
  <2>4. /\ Answered(t)' <=> Answered(t) \/ j.title = t
        /\ AnsweredOnce(t) /\ (j.title = t => ~Answered(t)) => AnsweredOnce(t)'
    BY <2>2, <2>3, UpdatesAppend
  <2>5. /\ Running(t)' => Running(t)
        /\ j.title = t => Running(t) /\ (RunningOnce(t) => ~Running(t)')
        /\ RunningOnce(t) => RunningOnce(t)'
    BY <2>1 DEF Running, RunningOnce
  <2>6. (Queued(t)' <=> Queued(t)) /\ (QueuedOnce(t) => QueuedOnce(t)')
    BY <2>1 DEF Queued, QueuedOnce
  <2> QED  BY <1>1, <2>4, <2>5, <2>6, InPlaces DEF Locked, OneJob
<1> QED  BY <1>2, <1>3, <1>4 DEF Work

\* The end of a job comes when nothing of it is left.
LEMMA CallbackLocked ==
  ASSUME PoolOK, OwnedOK, Callback, NEW t \in Titles, Locked(t)
  PROVE  Locked(t)'
<1> DEFINE a == Head(updates)
<1>1. /\ updates # <<>> /\ updates' = Tail(updates)
      /\ queue' = queue /\ running' = running
  BY DEF Callback, CallbackCancelled, CallbackAccepted, Receive
<1>2. a \in Messages
  BY <1>1, TailElements DEF PoolOK
<1>3. \/ map' = map
      \/ map' = [map EXCEPT ![a.title] = Outcome(a)]
  BY DEF Callback, CallbackCancelled, CallbackAccepted, UpdateQueueStatus
<1>4. \/ map'[t] = map[t]
      \/ map'[t] = "EXTRACTING"
      \/ a.title = t /\ a.done
  BY <1>2, <1>3 DEF OwnedOK, Messages, Outcome
<1> HIDE DEF a
<1>5. /\ Answered(t)' => Answered(t)
      /\ AnsweredOnce(t) => AnsweredOnce(t)'
      /\ a.done /\ a.title = t => Answered(t) /\ (AnsweredOnce(t) => ~Answered(t)')
  BY <1>1, UpdatesPop DEF a
<1>6. /\ Queued(t)' <=> Queued(t)
      /\ QueuedOnce(t) => QueuedOnce(t)'
      /\ Running(t)' <=> Running(t)
      /\ RunningOnce(t) => RunningOnce(t)'
  BY <1>1 DEF Queued, QueuedOnce, Running, RunningOnce
<1> QED  BY <1>4, <1>5, <1>6, InPlaces DEF Locked, OneJob, Submitted

LEMMA NextLockHeld == TypeOK /\ LockHeld /\ [Next]_vars => LockHeld'
<1> SUFFICES ASSUME OwnedOK, PoolOK, GhostsOK, LockHeld, [Next]_vars,
                    NEW t \in Titles, t \notin loosed'
             PROVE  Locked(t)'
  BY TypeParts DEF LockHeld
\* Steps that move no job, and note an entry they take away.
<1>1. ASSUME UNCHANGED <<queue, running, updates>>, loosed \subseteq loosed',
             map[t] \in Submitted /\ map'[t] \notin Submitted /\ InFlight(t) => t \in loosed'
      PROVE  Locked(t)'
  BY <1>1, PlacesStay DEF LockHeld, Locked
<1>2. ASSUME NEW down \in SUBSET Titles, Poll(down)  PROVE Locked(t)'
  <2>1. UNCHANGED <<queue, running, updates>> /\ Loose(map')
    BY <1>2 DEF Poll, pool
  <2> QED  BY <1>1, <2>1 DEF Loose
<1>3. ASSUME NEW s \in Titles, ExtractCompleted(s)  PROVE Locked(t)'
  <2>1. /\ queue' = Append(queue, s) /\ UNCHANGED <<running, updates>>
        /\ map[s] = "WAITING" /\ map' = [map EXCEPT ![s] = "QUEUED"]
        /\ loosed' = IF InFlight(s) THEN loosed ELSE loosed \ {s}
    BY <1>3 DEF ExtractCompleted, Startable
  <2>2. CASE t = s
    <3>1. ~InFlight(t)
      BY <2>1, <2>2 DEF LockHeld, Locked, Submitted
    <3>2. map'[t] \in Submitted
      BY <2>1, <2>2 DEF OwnedOK, Submitted
    <3>3. /\ QueuedOnce(t) /\ ~Queued(t) /\ RunningOnce(t) /\ ~Running(t)
          /\ AnsweredOnce(t) /\ ~Answered(t)
      BY <3>1, InPlaces DEF Queued, QueuedOnce, Running, RunningOnce, Answered, AnsweredOnce
    <3>4. /\ RunningOnce(t)' /\ ~Running(t)'
          /\ AnsweredOnce(t)' /\ ~Answered(t)'
      BY <2>1, <3>3 DEF Running, RunningOnce, Answered, AnsweredOnce, EndOf, Finished
    <3> QED  BY <2>1, <3>2, <3>3, <3>4, QueueAppends DEF Locked, OneJob
  <2>3. CASE t # s
    <3>1. Locked(t) /\ map'[t] = map[t]
      BY <2>1, <2>3 DEF LockHeld, OwnedOK
    <3>2. /\ Queued(t)' <=> Queued(t)
          /\ QueuedOnce(t) => QueuedOnce(t)'
      BY <2>1, <2>3, QueueAppends
    <3>3. /\ Running(t)' <=> Running(t)
          /\ RunningOnce(t) => RunningOnce(t)'
          /\ Answered(t)' <=> Answered(t)
          /\ AnsweredOnce(t) => AnsweredOnce(t)'
      BY <2>1 DEF Running, RunningOnce, Answered, AnsweredOnce, EndOf, Finished
    <3> QED  BY <3>1, <3>2, <3>3, InPlaces DEF Locked, OneJob
  <2> QED  BY <2>2, <2>3
<1>4. ASSUME NEW s \in Titles, CheckDone(s)  PROVE Locked(t)'
  <2>1. /\ UNCHANGED <<queue, running, updates, loosed>>
        /\ map[t] \in Submitted => map'[t] \in Submitted
    BY <1>4 DEF CheckDone, ExpireDeleted, RetryFailed, GiveUp, CleanImported, Due, OwnedOK,
                Submitted, pool, ghosts
  <2> QED  BY <1>1, <2>1
<1>5. ASSUME NEW w \in Workers, Work(w)  PROVE Locked(t)'
  <2>1. loosed' = loosed
    BY <1>5 DEF Work, StartJob, FindNothing, FinishJob, TakeJob, ghosts
  <2> QED  BY <1>5, <2>1, WorkLocked DEF LockHeld
<1>6. ASSUME Callback  PROVE Locked(t)'
  <2>1. loosed' = loosed
    BY <1>6 DEF Callback, CallbackCancelled, CallbackAccepted, Receive
  <2> QED  BY <1>6, <2>1, CallbackLocked DEF LockHeld
<1>7. ASSUME Environment  PROVE Locked(t)'
  <2>1. ASSUME NEW s \in Titles, UserCancel(s) \/ UserUnignore(s)  PROVE Locked(t)'
    <3>1. /\ UNCHANGED <<queue, running, updates, loosed>>
          /\ map[t] \in Submitted => map'[t] \in Submitted
      BY <2>1 DEF UserCancel, UserUnignore, OwnedOK, pool, owned
    <3> QED  BY <1>1, <3>1
  <2>2. ASSUME NEW s \in Titles, Stale(s)  PROVE Locked(t)'
    <3>1. UNCHANGED <<queue, running, updates>> /\ Loose(map')
      BY <2>2 DEF Stale, pool
    <3> QED  BY <1>1, <3>1 DEF Loose
  <2>3. ASSUME NEW s \in Titles, NEW listing \in Listings, ClientLists(s, listing)
        PROVE  Locked(t)'
    BY <1>1, <2>3 DEF ClientLists, pool, owned
  <2>4. ASSUME StopClear  PROVE Locked(t)'
    <3>1. UNCHANGED <<queue, running, updates>> /\ Loose(map')
      BY <2>4 DEF StopClear, pool
    <3> QED  BY <1>1, <3>1 DEF Loose
  <2>5. ASSUME Resume  PROVE Locked(t)'
    BY <1>1, <2>5 DEF Resume, pool, owned
  <2>6. ASSUME Restart  PROVE Locked(t)'
    <3>1. queue' = <<>> /\ updates' = <<>> /\ running' = {}
      BY <2>6 DEF Restart
    <3>2. ~Queued(t)' /\ ~Running(t)' /\ ~Answered(t)'
      BY <3>1 DEF Queued, Running, Answered
    <3> QED  BY <3>1, <3>2, InPlaces DEF Locked, OneJob, QueuedOnce, RunningOnce, AnsweredOnce
  <2> QED  BY <1>7, <2>1, <2>2, <2>3, <2>4, <2>5, <2>6 DEF Environment
<1>8. ASSUME DeleteFiles \/ UNCHANGED vars  PROVE Locked(t)'
  BY <1>1, <1>8 DEF DeleteFiles, vars, owned, pool, ghosts
<1> QED  BY <1>2, <1>3, <1>4, <1>5, <1>6, <1>7, <1>8 DEF Next

(***************************************************************************)
(* The theorems.                                                           *)
(***************************************************************************)
LEMMA InitInvariant == Init => IInv /\ LockHeld
<1> SUFFICES ASSUME Init PROVE Announced /\ NoStuckTask /\ ImportedGone /\ LockHeld
  BY InitType DEF IInv
<1>1. Announced
  BY DEF Init, Announced
<1>2. NoStuckTask /\ ImportedGone
  BY DEF Init, NoStuckTask, ImportedGone, Submitted
<1>3. LockHeld
  BY DEF Init, LockHeld, Locked, OneJob, InFlight, Queued, Running, Answered, QueuedOnce,
         RunningOnce, AnsweredOnce
<1> QED  BY <1>1, <1>2, <1>3

LEMMA NextInvariant == IInv /\ LockHeld /\ [Next]_vars => IInv' /\ LockHeld'
  BY NextType, NextAnnounced, NextNoStuckTask, NextImportedGone, NextLockHeld DEF IInv

LEMMA InvariantAlways == Spec => [](IInv /\ LockHeld)
  BY InitInvariant, NextInvariant, PTL DEF Spec

\* The entries, records and messages of the downloads are well formed, and no retry
\* count exceeds max_retries, for every set of downloads and workers.
THEOREM TypeCorrect == Spec => []TypeOK
  BY InvariantAlways, PTL DEF IInv

\* An entry shown as queued or extracting has an answer to come, unless a
\* cancellation met it: however polls, retries and workers interleave, and even when
\* two jobs of one download run.
THEOREM NoStuckTaskAlways == Spec => []NoStuckTask
  BY InvariantAlways, PTL DEF IInv

\* Two extractions of one download never run or wait at one time, unless a poll, a
\* stop or the time limit took the entry away from a job in flight: the status in
\* u.Map is a lock that is held until the end of the job has been received.
THEOREM SingleJobAlways == Spec => []SingleJob
<1>1. LockHeld => SingleJob
  BY OneJobCounts DEF LockHeld, Locked, SingleJob
<1> QED  BY <1>1, InvariantAlways, PTL

\* A deletion is asked for only while the list last polled is without the download.
THEOREM OnlyGoneDeletedAlways == Spec => OnlyGoneDeleted
<1> DEFINE Asked == Len(deletes') > Len(deletes)
                       => listed[deletes'[Len(deletes')]] = "none"
<1>1. ASSUME IInv, [Next]_vars  PROVE [Asked]_vars
  <2> SUFFICES ASSUME Len(deletes') > Len(deletes)
               PROVE  listed[deletes'[Len(deletes')]] = "none"
    OBVIOUS
  <2>1. PICK t \in Titles : CleanImported(t) /\ deletes' = Append(deletes, t)
    BY <1>1, DeletesGrow DEF IInv
  <2>2. t \notin orphans /\ map[t] = "IMPORTED"
    BY <2>1 DEF CleanImported, Due
  <2>3. listed[t] = "none"
    BY <1>1, <2>2 DEF IInv, ImportedGone
  <2>4. deletes \in Seq(Titles)
    BY <1>1, StarrAssumption DEF IInv, TypeOK
  <2>5. deletes'[Len(deletes')] = t
    BY <2>1, <2>4
  <2> QED  BY <2>3, <2>5
<1> QED  BY <1>1, InvariantAlways, PTL DEF Spec, OnlyGoneDeleted

=============================================================================
