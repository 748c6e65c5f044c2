----------------------- MODULE ProcessingStoreProofs -----------------------
(***************************************************************************)
(* The processing state is durable, moves forward, and keeps what it       *)
(* protects, for any number of goroutines, keys and restarts.              *)
(***************************************************************************)
EXTENDS ProcessingStore, WellFoundedInduction, TLAPS

(***************************************************************************)
(* The operators on the maps.                                              *)
(***************************************************************************)
LEMMA EmptyStateType == EmptyState \in State /\ EmptyState.ver = 0
  BY DEF EmptyState, State

\* A change keeps the shape of the maps and the count of changes.
Keeps(s, t) == t \in State /\ t.ver = s.ver

LEMMA OperatorTypes ==
  ASSUME NEW s \in State, NEW k \in Keys, NEW t \in Nat
  PROVE  /\ Keeps(s, MarkProcessed(s, k, t))
         /\ Keeps(s, MarkFailed(s, k))
         /\ Keeps(s, ClearFailed(s, k))
         /\ Keeps(s, DeleteProcessed(s, k))
         /\ Keeps(s, RestoreProcessed(s, k, t))
         /\ Keeps(s, SavePending(s, k))
         /\ Keeps(s, RemovePending(s, k))
         /\ Keeps(s, ResetHistory(s))
         /\ Keeps(s, Compact(s))
<1>1. Keeps(s, MarkProcessed(s, k, t))
  BY DEF Keeps, State, MarkProcessed
<1>2. Keeps(s, MarkFailed(s, k))
  BY DEF Keeps, State, MarkFailed
<1>3. Keeps(s, ClearFailed(s, k))
  BY DEF Keeps, State, ClearFailed
<1>4. Keeps(s, DeleteProcessed(s, k))
  BY DEF Keeps, State, DeleteProcessed
<1>5. Keeps(s, RestoreProcessed(s, k, t))
  BY DEF Keeps, State, RestoreProcessed
<1>6. Keeps(s, SavePending(s, k))
  BY DEF Keeps, State, SavePending
<1>7. Keeps(s, RemovePending(s, k))
  BY DEF Keeps, State, RemovePending
<1>8. Keeps(s, ResetHistory(s))
  BY DEF Keeps, State, ResetHistory
<1>9. Keeps(s, Compact(s))
  BY DEF Keeps, State, Compact
<1> QED
  BY <1>1, <1>2, <1>3, <1>4, <1>5, <1>6, <1>7, <1>8, <1>9

\* Which identities are recorded after a change.
LEMMA MarkRecords ==
  ASSUME NEW s \in State, NEW k \in Keys, NEW t \in Nat \ {0}
  PROVE  RecordedIdentities(MarkProcessed(s, k, t))
           = RecordedIdentities(s) \cup {Identity[k]}
<1> DEFINE p == MarkProcessed(s, k, t).processed
<1>1. /\ p[k] = t
      /\ \A j \in SameIdentity(k) \ {k} : p[j] = 0
      /\ \A j \in Keys \ SameIdentity(k) : j # k /\ p[j] = s.processed[j]
  BY DEF State, MarkProcessed, SameIdentity
<1>2. Identity[k] \in RecordedIdentities(MarkProcessed(s, k, t))
  BY <1>1 DEF RecordedIdentities, Recorded
<1>3. ASSUME NEW j \in Recorded(s)
      PROVE  Identity[j] \in RecordedIdentities(MarkProcessed(s, k, t))
  BY <1>1, <1>2 DEF RecordedIdentities, Recorded, SameIdentity
<1>4. ASSUME NEW j \in Recorded(MarkProcessed(s, k, t))
      PROVE  Identity[j] \in RecordedIdentities(s) \cup {Identity[k]}
  <2>1. p[j] > 0
    BY DEF Recorded
  <2> QED
    BY <1>1, <2>1 DEF RecordedIdentities, Recorded, SameIdentity
<1> QED
  BY <1>2, <1>3, <1>4 DEF RecordedIdentities

LEMMA DeleteRecords ==
  ASSUME NEW s \in State, NEW k \in Keys
  PROVE  RecordedIdentities(s) \ {Identity[k]}
           \subseteq RecordedIdentities(DeleteProcessed(s, k))
  BY DEF State, DeleteProcessed, RecordedIdentities, Recorded, SameIdentity

LEMMA RestoreRecords ==
  ASSUME NEW s \in State, NEW k \in Keys, NEW t \in Nat \ {0}
  PROVE  RecordedIdentities(s) \subseteq RecordedIdentities(RestoreProcessed(s, k, t))
  BY DEF State, RestoreProcessed, RecordedIdentities, Recorded

LEMMA OthersRecord ==
  ASSUME NEW s \in State, NEW k \in Keys
  PROVE  /\ RecordedIdentities(MarkFailed(s, k)) = RecordedIdentities(s)
         /\ RecordedIdentities(ClearFailed(s, k)) = RecordedIdentities(s)
         /\ RecordedIdentities(SavePending(s, k)) = RecordedIdentities(s)
         /\ RecordedIdentities(RemovePending(s, k)) = RecordedIdentities(s)
  BY DEF State, MarkFailed, ClearFailed, SavePending, RemovePending,
         RecordedIdentities, Recorded

\* Only the change counter differs.
LEMMA VersionRecords ==
  ASSUME NEW s \in State, NEW v \in Nat
  PROVE  /\ [s EXCEPT !.ver = v] \in State
         /\ [s EXCEPT !.ver = v].ver = v
         /\ RecordedIdentities([s EXCEPT !.ver = v]) = RecordedIdentities(s)
  BY DEF State, RecordedIdentities, Recorded

\* A set of numbers has a least element.
LEMMA Least ==
  ASSUME NEW T \in SUBSET Nat, T # {}
  PROVE  \E x \in T : \A y \in T : x <= y
<1>1. \E x \in T : \A y \in T : <<y, x>> \notin OpToRel(<, Nat)
  BY WFMin, NatLessThanWellFounded
<1>2. PICK x \in T : \A y \in T : <<y, x>> \notin OpToRel(<, Nat)
  BY <1>1
<1>3. \A y \in T : ~(y < x)
  BY <1>2 DEF OpToRel
<1> QED
  BY <1>3

\* compactProcessedSources loses no identity, provided the completion times
\* have an upper bound: the newest record of each identity stays.
LEMMA CompactRecords ==
  ASSUME NEW s \in State, NEW b \in Nat, \A k \in Keys : s.processed[k] <= b
  PROVE  RecordedIdentities(Compact(s)) = RecordedIdentities(s)
<1>1. ASSUME NEW id \in RecordedIdentities(s)
      PROVE  id \in RecordedIdentities(Compact(s))
  <2>1. PICK k \in Keys : s.processed[k] > 0 /\ Identity[k] = id
    BY <1>1 DEF RecordedIdentities, Recorded
  <2> DEFINE Ages == {b - s.processed[j] : j \in SameIdentity(k)}
  <2>2. Ages \in SUBSET Nat
    BY DEF State, SameIdentity
  <2>3. Ages # {}
    BY <2>1 DEF SameIdentity
  <2>4. PICK age \in Ages : \A other \in Ages : age <= other
    BY <2>2, <2>3, Least
  <2>5. PICK n \in SameIdentity(k) : age = b - s.processed[n]
    BY <2>4
  <2>6. \A j \in SameIdentity(k) : s.processed[j] <= s.processed[n]
    <3>1. \A j \in SameIdentity(k) : b - s.processed[j] \in Ages
      OBVIOUS
    <3>2. \A j \in SameIdentity(k) : age <= b - s.processed[j]
      BY <2>4, <3>1
    <3>3. \A j \in SameIdentity(k) : s.processed[j] \in Nat
      BY DEF State, SameIdentity
    <3> QED
      BY <2>5, <3>2, <3>3
  <2>7. n \in Keys /\ Identity[n] = id /\ s.processed[n] > 0
    BY <2>1, <2>5, <2>6 DEF State, SameIdentity
  <2>8. Compact(s).processed[n] = s.processed[n]
    BY <2>1, <2>6, <2>7 DEF State, SameIdentity, Compact
  <2> QED
    BY <2>7, <2>8 DEF RecordedIdentities, Recorded
<1>2. ASSUME NEW id \in RecordedIdentities(Compact(s))
      PROVE  id \in RecordedIdentities(s)
  <2>1. PICK k \in Keys : Compact(s).processed[k] > 0 /\ Identity[k] = id
    BY <1>2 DEF RecordedIdentities, Recorded
  <2>2. s.processed[k] > 0
    BY <2>1 DEF State, Compact
  <2> QED
    BY <2>1, <2>2 DEF RecordedIdentities, Recorded
<1> QED
  BY <1>1, <1>2


-----------------------------------------------------------------------------
(***************************************************************************)
(* Type correctness, the mutex of the savers included.                     *)
(***************************************************************************)
HeldType == [Writers -> {<<>>} \cup (Keys \X Nat \X {"read", "deleted"})]

LEMMA HeldTypes ==
  ASSUME TypeOK, NEW w \in Writers, NEW step, Holds(w, step)
  PROVE  /\ held[w][1] \in Keys /\ held[w][2] \in Nat
         /\ held[w] # <<>>
         /\ <<held[w][1], held[w][2], "deleted">> \in Keys \X Nat \X {"read", "deleted"}
         /\ [held EXCEPT ![w] = <<held[w][1], held[w][2], "deleted">>] \in HeldType
         /\ [held EXCEPT ![w] = <<>>] \in HeldType
<1>1. held[w] # <<>> /\ held[w] \in {<<>>} \cup (Keys \X Nat \X {"read", "deleted"})
  BY DEF Holds, TypeOK
<1>2. held[w][1] \in Keys /\ held[w][2] \in Nat
  BY <1>1
<1>3. <<held[w][1], held[w][2], "deleted">> \in Keys \X Nat \X {"read", "deleted"}
  BY <1>2
<1> DEFINE h == <<held[w][1], held[w][2], "deleted">>
<1>4. h \in Keys \X Nat \X {"read", "deleted"}
  BY <1>3
<1> HIDE DEF h
<1>5. [held EXCEPT ![w] = h] \in HeldType /\ [held EXCEPT ![w] = <<>>] \in HeldType
  BY <1>4 DEF TypeOK, HeldType
<1> QED
  BY <1>1, <1>2, <1>3, <1>5 DEF h

\* What every mutator does to the variables Change writes.
LEMMA ChangeTypes ==
  ASSUME TypeOK, NEW w \in Writers, NEW s \in State, s.ver = mem.ver, Change(w, s)
  PROVE  /\ mem' \in State
         /\ mem' = [s EXCEPT !.ver = mem.ver + 1]
         /\ mem'.ver = mem.ver + 1
         /\ RecordedIdentities(mem') = RecordedIdentities(s)
         /\ disk' = disk /\ disk' \in State
         /\ saveMu' = saveMu /\ saveMu' \in Writers \cup {NoWriter}
         /\ snap' = snap /\ snap' \in [Writers -> State]
         /\ pc[w] = "idle" /\ pc' = [pc EXCEPT ![w] = "dirty"]
         /\ pc' \in [Writers -> {"idle", "dirty", "locked", "writing"}]
         /\ need' = [need EXCEPT ![w] = mem.ver + 1]
         /\ need' \in [Writers -> Nat]
         /\ acked' = acked /\ acked' \in Nat
         /\ crashes' \in Nat
         /\ \A v \in Writers : pc'[v] \in {"locked", "writing"} <=> saveMu' = v
<1>1. mem.ver \in Nat /\ mem.ver + 1 \in Nat
  BY DEF TypeOK, State
<1>2. /\ mem' \in State
      /\ mem'.ver = mem.ver + 1
      /\ RecordedIdentities(mem') = RecordedIdentities(s)
  BY <1>1, VersionRecords DEF Change
<1>3. \A v \in Writers : pc'[v] \in {"locked", "writing"} <=> saveMu' = v
  BY DEF TypeOK, Change
<1> QED
  BY <1>1, <1>2, <1>3 DEF TypeOK, Change

LEMMA InitType == Init => TypeOK
  BY StoreAssumption, EmptyStateType DEF Init, TypeOK

LEMMA MutateType ==
  ASSUME TypeOK, NEW w \in Writers, Mutate(w)
  PROVE  TypeOK'
<1> USE DEF Keeps
<1>1. mem \in State /\ mem.ver + 1 \in Nat
  BY DEF TypeOK, State
<1>2. ASSUME NEW k \in Keys, Mark(w, k)
      PROVE  TypeOK'
  <2>1. Identity[k] \in Identities
    BY StoreAssumption
  <2>2. claim' \in [Writers -> SUBSET Identities] /\ held' = held /\ kept' = kept
    BY <1>2, <2>1 DEF Mark, TypeOK
  <2>3. MarkProcessed(mem, k, mem.ver + 1) \in State
        /\ MarkProcessed(mem, k, mem.ver + 1).ver = mem.ver
    BY <1>1, OperatorTypes
  <2>4. Change(w, MarkProcessed(mem, k, mem.ver + 1))
    BY <1>2 DEF Mark
  <2>5. held' = held /\ held' \in HeldType /\ kept' \in SUBSET Identities
    BY <2>2 DEF TypeOK, HeldType
  <2> HIDE DEF Keeps
  <2> QED
    BY <2>2, <2>3, <2>4, <2>5, ChangeTypes DEF TypeOK, HeldType
<1>3. ASSUME NEW k \in Keys, Fail(w, k)
      PROVE  TypeOK'
  BY <1>1, <1>3, OperatorTypes, ChangeTypes DEF Fail, TypeOK
<1>4. ASSUME NEW k \in Keys, Unfail(w, k)
      PROVE  TypeOK'
  BY <1>1, <1>4, OperatorTypes, ChangeTypes DEF Unfail, TypeOK
<1>5. ASSUME NEW k \in Keys, Read(w, k)
      PROVE  TypeOK'
  <2>1. <<k, mem.processed[k], "read">> \in Keys \X Nat \X {"read", "deleted"}
    BY <1>1 DEF State
  <2> QED
    BY <1>5, <2>1 DEF Read, history, TypeOK
<1>11. ASSUME BeginRetry(w)
       PROVE  TypeOK'
  <2>1. held[w][1] \in Keys /\ held' \in HeldType
    BY <1>11, HeldTypes DEF BeginRetry
  <2>2. kept' \in SUBSET Identities /\ claim' \in [Writers -> SUBSET Identities]
    BY <1>11 DEF BeginRetry, GiveUp, TypeOK
  <2> QED
    BY <1>1, <1>11, <2>1, <2>2, OperatorTypes, ChangeTypes DEF BeginRetry, HeldType, TypeOK
<1>12. ASSUME BeginRetryLate(w) \/ Submitted(w)
       PROVE  TypeOK'
  <2>1. held' \in HeldType
    BY <1>12, HeldTypes DEF BeginRetryLate, Submitted
  <2> QED
    BY <1>12, <2>1 DEF BeginRetryLate, Submitted, history, HeldType, TypeOK
<1>6. ASSUME NEW k \in Keys, Queue(w, k)
      PROVE  TypeOK'
  BY <1>1, <1>6, OperatorTypes, ChangeTypes DEF Queue, TypeOK
<1>7. ASSUME NEW k \in Keys, Unqueue(w, k)
      PROVE  TypeOK'
  BY <1>1, <1>7, OperatorTypes, ChangeTypes DEF Unqueue, TypeOK
<1>8. ASSUME Restore(w)
      PROVE  TypeOK'
  <2>1. /\ Change(w, RestoreProcessed(mem, held[w][1], held[w][2]))
        /\ held' = [held EXCEPT ![w] = <<>>] /\ Holds(w, "deleted")
        /\ claim' = claim /\ kept' = kept
    BY <1>8 DEF Restore
  <2>2. held[w][1] \in Keys /\ held[w][2] \in Nat /\ held' \in HeldType
    BY <2>1, HeldTypes
  <2> DEFINE s == RestoreProcessed(mem, held[w][1], held[w][2])
  <2>3. s \in State /\ s.ver = mem.ver
    BY <1>1, <2>2, OperatorTypes
  <2>4. Change(w, s)
    BY <2>1
  <2> HIDE DEF s
  <2> QED
    BY <2>1, <2>2, <2>3, <2>4, ChangeTypes DEF HeldType, TypeOK
<1>10. ASSUME Reset(w)
       PROVE  TypeOK'
  <2>1. ResetHistory(mem) \in State /\ ResetHistory(mem).ver = mem.ver
    BY <1>1 DEF ResetHistory, State
  <2> QED
    BY <1>10, <2>1, ChangeTypes DEF Reset, GiveUp, TypeOK
<1> QED
  BY <1>2, <1>3, <1>4, <1>5, <1>6, <1>7, <1>8, <1>10, <1>11, <1>12 DEF Mutate

LEMMA SaveType ==
  ASSUME TypeOK, NEW w \in Writers, Save(w)
  PROVE  TypeOK'
<1>1. CASE LockSave(w)
  BY <1>1, StoreAssumption DEF LockSave, history, TypeOK
<1>2. CASE Snapshot(w)
  BY <1>2 DEF Snapshot, history, TypeOK
<1>3. CASE Rename(w)
  BY <1>3, StoreAssumption, EmptyStateType DEF Rename, Return, TypeOK
<1>4. CASE SaveFails(w)
  BY <1>4, StoreAssumption, EmptyStateType DEF SaveFails, Return, TypeOK
<1> QED
  BY <1>1, <1>2, <1>3, <1>4 DEF Save

LEMMA RestartType ==
  ASSUME TypeOK, Restart
  PROVE  TypeOK'
<1>1. Compact(disk) \in State
  BY DEF Compact, State, TypeOK
<1> QED
  BY <1>1, StoreAssumption, EmptyStateType DEF Restart, TypeOK

LEMMA NextType == TypeOK /\ [Next]_vars => TypeOK'
<1> SUFFICES ASSUME TypeOK, [Next]_vars
             PROVE  TypeOK'
  OBVIOUS
<1>1. CASE UNCHANGED vars
  BY <1>1 DEF vars, TypeOK
<1>2. CASE Next
  BY <1>2, MutateType, SaveType, RestartType DEF Next
<1> QED
  BY <1>1, <1>2

\* The maps stay well formed, and saveMu excludes the savers from each other,
\* for any number of goroutines, keys, changes and restarts.
THEOREM TypeCorrect == Spec => []TypeOK
  BY InitType, NextType, PTL DEF Spec

-----------------------------------------------------------------------------
(***************************************************************************)
(* Durability.  TypeOK and Durable alone are not inductive: a snapshot on  *)
(* its way to the file must lie between the file and the memory, and must  *)
(* hold the change of the writer that waits for it.                        *)
(***************************************************************************)
SnapshotOrdered(w) ==
    /\ need[w] <= snap[w].ver
    /\ disk.ver <= snap[w].ver
    /\ snap[w].ver <= mem.ver

Ordered ==
    /\ disk.ver <= mem.ver
    /\ acked <= disk.ver
    /\ \A w \in Writers : need[w] <= mem.ver
    /\ \A w \in Writers : pc[w] = "writing" => SnapshotOrdered(w)

LEMMA InitOrdered == Init => Ordered
  BY EmptyStateType DEF Init, Ordered, SnapshotOrdered

\* All that a mutator means for the versions.
LEMMA ChangeOrdered ==
  ASSUME TypeOK, Ordered, NEW w \in Writers, NEW s \in State, s.ver = mem.ver,
         Change(w, s)
  PROVE  Ordered' /\ disk' = disk
<1>1. /\ mem.ver \in Nat /\ disk.ver \in Nat /\ acked \in Nat
      /\ \A v \in Writers : snap[v].ver \in Nat /\ need[v] \in Nat
  BY DEF TypeOK, State
<1>2. /\ mem'.ver = mem.ver + 1 /\ disk' = disk /\ acked' = acked /\ snap' = snap
      /\ pc' = [pc EXCEPT ![w] = "dirty"] /\ need' = [need EXCEPT ![w] = mem.ver + 1]
  BY ChangeTypes
<1>3. \A v \in Writers : need'[v] <= mem'.ver
  BY <1>1, <1>2 DEF TypeOK, Ordered
<1>4. ASSUME NEW v \in Writers, pc'[v] = "writing"
      PROVE  SnapshotOrdered(v)'
  <2>1. v # w /\ pc[v] = "writing" /\ need'[v] = need[v]
    BY <1>2, <1>4 DEF TypeOK
  <2> QED
    BY <1>1, <1>2, <2>1 DEF Ordered, SnapshotOrdered
<1> QED
  BY <1>1, <1>2, <1>3, <1>4 DEF Ordered

LEMMA MutateOrdered ==
  ASSUME TypeOK, Ordered, NEW w \in Writers, Mutate(w)
  PROVE  Ordered' /\ disk' = disk
<1>1. mem \in State /\ mem.ver + 1 \in Nat
  BY DEF TypeOK, State
<1>2. CASE Submitted(w) \/ BeginRetryLate(w) \/ \E k \in Keys : Read(w, k)
  BY <1>2 DEF Submitted, BeginRetryLate, Read, history, Ordered, SnapshotOrdered
<1>3. CASE \E s \in State : s.ver = mem.ver /\ Change(w, s)
  BY <1>3, ChangeOrdered
<1>4. ASSUME NEW k \in Keys,
             \/ Mark(w, k) \/ Fail(w, k) \/ Unfail(w, k)
             \/ Queue(w, k) \/ Unqueue(w, k)
      PROVE  \E s \in State : s.ver = mem.ver /\ Change(w, s)
  BY <1>1, <1>4, OperatorTypes
     DEF Mark, Fail, Unfail, Queue, Unqueue, Keeps
<1>5. ASSUME BeginRetry(w) \/ Restore(w)
      PROVE  \E s \in State : s.ver = mem.ver /\ Change(w, s)
  <2>1. held[w][1] \in Keys /\ held[w][2] \in Nat
    BY <1>5, HeldTypes DEF BeginRetry, Restore
  <2> QED
    BY <1>1, <1>5, <2>1, OperatorTypes DEF BeginRetry, Restore, Keeps
<1>6. ASSUME Reset(w)
      PROVE  \E s \in State : s.ver = mem.ver /\ Change(w, s)
  <2>1. ResetHistory(mem) \in State /\ ResetHistory(mem).ver = mem.ver
    BY <1>1 DEF ResetHistory, State
  <2> QED
    BY <1>6, <2>1 DEF Reset
<1> QED
  BY <1>2, <1>3, <1>4, <1>5, <1>6 DEF Mutate

LEMMA SaveOrdered ==
  ASSUME TypeOK, Ordered, NEW w \in Writers, Save(w)
  PROVE  Ordered' /\ disk'.ver >= disk.ver
<1>1. /\ mem.ver \in Nat /\ disk.ver \in Nat /\ acked \in Nat
      /\ \A v \in Writers : snap[v].ver \in Nat /\ need[v] \in Nat
  BY DEF TypeOK, State
<1>2. CASE LockSave(w)
  BY <1>1, <1>2 DEF LockSave, history, TypeOK, Ordered, SnapshotOrdered
<1>3. CASE Snapshot(w)
  BY <1>1, <1>3 DEF Snapshot, history, TypeOK, Ordered, SnapshotOrdered
<1>4. CASE Rename(w)
  <2>1. /\ disk' = snap[w] /\ mem' = mem
        /\ acked' = IF need[w] > acked THEN need[w] ELSE acked
        /\ need' = [need EXCEPT ![w] = 0]
        /\ pc[w] = "writing"
    BY <1>4 DEF Rename, Return
  <2>2. SnapshotOrdered(w)
    BY <2>1 DEF Ordered
  <2>3. \A v \in Writers : pc'[v] # "writing"
    BY <1>4 DEF Rename, Return, TypeOK
  <2>4. \A v \in Writers : need'[v] <= mem.ver
    BY <1>1, <2>1 DEF TypeOK, Ordered
  <2> QED
    BY <1>1, <2>1, <2>2, <2>3, <2>4 DEF Ordered, SnapshotOrdered
<1>5. CASE SaveFails(w)
  <2>1. /\ disk' = disk /\ mem' = mem /\ acked' = acked
        /\ need' = [need EXCEPT ![w] = 0]
    BY <1>5 DEF SaveFails, Return
  <2>2. \A v \in Writers : pc'[v] # "writing"
    BY <1>5 DEF SaveFails, Return, TypeOK
  <2>3. \A v \in Writers : need'[v] <= mem.ver
    BY <1>1, <2>1 DEF TypeOK, Ordered
  <2> QED
    BY <1>1, <2>1, <2>2, <2>3 DEF Ordered
<1> QED
  BY <1>2, <1>3, <1>4, <1>5 DEF Save

LEMMA RestartOrdered ==
  ASSUME TypeOK, Ordered, Restart
  PROVE  Ordered' /\ disk' = disk
<1>1. disk.ver \in Nat /\ mem'.ver = disk.ver
  BY DEF Restart, Compact, State, TypeOK
<1> QED
  BY <1>1 DEF Restart, Ordered

LEMMA NextOrdered ==
  TypeOK /\ Ordered /\ [Next]_vars => Ordered' /\ disk'.ver >= disk.ver
<1> SUFFICES ASSUME TypeOK, Ordered, [Next]_vars
             PROVE  Ordered' /\ disk'.ver >= disk.ver
  OBVIOUS
<1>1. disk.ver \in Nat
  BY DEF TypeOK, State
<1>2. CASE UNCHANGED vars
  BY <1>1, <1>2 DEF vars, Ordered, SnapshotOrdered
<1>3. CASE Next
  BY <1>1, <1>3, MutateOrdered, SaveOrdered, RestartOrdered DEF Next
<1> QED
  BY <1>2, <1>3

\* A change whose save returned without error is in the file and stays there,
\* whatever other goroutines save, and whenever the process dies.
THEOREM DurableAlways == Spec => []Durable
<1>1. Ordered => Durable
  BY DEF Ordered, Durable
<1> QED
  BY <1>1, InitType, InitOrdered, NextType, NextOrdered, PTL DEF Spec

\* No save replaces the file by an older state.
THEOREM FileMovesForward == Spec => NewerNeverOverwritten
<1>1. TypeOK /\ Ordered /\ [Next]_vars => [disk'.ver >= disk.ver]_vars
  BY NextOrdered
<1> QED
  BY <1>1, InitType, InitOrdered, NextType, NextOrdered, PTL
     DEF Spec, NewerNeverOverwritten

-----------------------------------------------------------------------------
(***************************************************************************)
(* Protection.  Loading a file keeps an identity only if its records have  *)
(* a newest one, so completion times must be bounded in every copy of the  *)
(* maps; and what is promised must be in every copy that may become the    *)
(* memory or the file.                                                     *)
(***************************************************************************)
StampedBy(s, v) == \A k \in Keys : s.processed[k] <= v

Stamped ==
    /\ StampedBy(mem, mem.ver)
    /\ StampedBy(disk, disk.ver)
    /\ \A w \in Writers : StampedBy(snap[w], snap[w].ver)
    /\ \A w \in Writers : held[w] # <<>> => held[w][2] > 0 /\ held[w][2] <= mem.ver

Promised ==
    /\ kept \subseteq RecordedIdentities(mem)
    /\ kept \subseteq RecordedIdentities(disk)
    /\ \A w \in Writers : claim[w] \subseteq RecordedIdentities(mem)
    /\ \A w \in Writers :
          pc[w] = "writing" => kept \cup claim[w] \subseteq RecordedIdentities(snap[w])

\* A mutator that drops from Processed no more than it gives up.
Honest(w, s, ids) ==
    /\ s \in State /\ s.ver = mem.ver
    /\ StampedBy(s, mem.ver + 1)
    /\ RecordedIdentities(mem) \ ids \subseteq RecordedIdentities(s)
    /\ Change(w, s)
    /\ kept' = kept \ ids
    /\ \A v \in Writers \ {w} : claim'[v] \subseteq claim[v] \ ids
    /\ claim'[w] \subseteq RecordedIdentities(s)
    /\ \A v \in Writers : held'[v] # <<>> =>
          held'[v] = held[v] \/ held'[v][2] \in 1 .. mem.ver

LEMMA HonestKeeps ==
  ASSUME TypeOK, Stamped, Promised, NEW w \in Writers, NEW s, NEW ids, Honest(w, s, ids)
  PROVE  Stamped' /\ Promised'
<1>1. /\ s \in State /\ s.ver = mem.ver /\ Change(w, s) /\ mem.ver \in Nat
  BY DEF Honest, TypeOK, State
<1>2. /\ mem' = [s EXCEPT !.ver = mem.ver + 1] /\ mem'.ver = mem.ver + 1
      /\ RecordedIdentities(mem') = RecordedIdentities(s)
      /\ disk' = disk /\ snap' = snap
      /\ pc' = [pc EXCEPT ![w] = "dirty"]
  BY <1>1, ChangeTypes
<1>3. StampedBy(mem', mem'.ver)
  <2>1. mem'.processed = s.processed
    BY <1>1, <1>2 DEF State
  <2> QED
    BY <1>2, <2>1 DEF StampedBy, Honest
<1>4. ASSUME NEW v \in Writers, held'[v] # <<>>
      PROVE  held'[v][2] > 0 /\ held'[v][2] <= mem'.ver
  <2>1. CASE held'[v] = held[v]
    <3>1. held[v][2] \in Nat
      BY <1>4, <2>1 DEF TypeOK
    <3> QED
      BY <1>1, <1>2, <1>4, <2>1, <3>1 DEF Stamped
  <2>2. CASE held'[v][2] \in 1 .. mem.ver
    BY <1>1, <1>2, <2>2
  <2> QED
    BY <1>4, <2>1, <2>2 DEF Honest
<1>5. Stamped'
  BY <1>2, <1>3, <1>4 DEF Stamped
<1>6. kept' \subseteq RecordedIdentities(mem') /\ kept' \subseteq RecordedIdentities(disk')
  BY <1>2 DEF Honest, Promised
<1>7. \A v \in Writers : claim'[v] \subseteq RecordedIdentities(mem')
  BY <1>2 DEF Honest, Promised
<1>8. ASSUME NEW v \in Writers, pc'[v] = "writing"
      PROVE  kept' \cup claim'[v] \subseteq RecordedIdentities(snap'[v])
  <2>1. v # w /\ pc[v] = "writing"
    BY <1>2, <1>8 DEF TypeOK
  <2> QED
    BY <1>2, <2>1 DEF Honest, Promised
<1>9. Promised'
  BY <1>6, <1>7, <1>8 DEF Promised
<1> QED
  BY <1>5, <1>9

LEMMA InitPromised == Init => Stamped /\ Promised
<1> SUFFICES ASSUME Init PROVE Stamped /\ Promised
  OBVIOUS
<1>1. StampedBy(EmptyState, EmptyState.ver)
  BY DEF EmptyState, StampedBy
<1> QED
  BY <1>1 DEF Init, Stamped, Promised

LEMMA MutatePromised ==
  ASSUME TypeOK, Stamped, Promised, NEW w \in Writers, Mutate(w)
  PROVE  Stamped' /\ Promised'
<1>1. /\ mem \in State /\ mem.ver \in Nat /\ mem.ver + 1 \in Nat \ {0}
      /\ \A k \in Keys : mem.processed[k] \in Nat /\ mem.processed[k] <= mem.ver
  BY DEF TypeOK, State, Stamped, StampedBy
<1>2. ASSUME NEW k \in Keys, Mark(w, k)
      PROVE  Honest(w, MarkProcessed(mem, k, mem.ver + 1), {})
  <2> DEFINE s == MarkProcessed(mem, k, mem.ver + 1)
  <2>1. s \in State /\ s.ver = mem.ver
    BY <1>1, OperatorTypes DEF Keeps
  <2>2. StampedBy(s, mem.ver + 1)
    BY <1>1 DEF StampedBy, MarkProcessed, State
  <2>3. RecordedIdentities(s) = RecordedIdentities(mem) \cup {Identity[k]}
    BY <1>1, MarkRecords
  <2>4. claim' = [claim EXCEPT ![w] = {Identity[k]}] /\ held' = held /\ kept' = kept
    BY <1>2 DEF Mark
  <2>5. /\ claim'[w] = {Identity[k]}
        /\ \A v \in Writers \ {w} : claim'[v] = claim[v]
    BY <2>4 DEF TypeOK
  <2>6. Change(w, s)
    BY <1>2 DEF Mark
  <2> QED
    BY <2>1, <2>2, <2>3, <2>4, <2>5, <2>6 DEF Honest
<1>3. ASSUME NEW s, s \in State, s.ver = mem.ver, s.processed = mem.processed,
             Change(w, s), held' = held, claim' = claim, kept' = kept
      PROVE  Honest(w, s, {})
  <2>1. RecordedIdentities(s) = RecordedIdentities(mem)
    BY <1>3 DEF RecordedIdentities, Recorded
  <2>2. StampedBy(s, mem.ver + 1)
    BY <1>1, <1>3 DEF StampedBy
  <2> QED
    BY <1>3, <2>1, <2>2 DEF Honest, Promised
<1>4. ASSUME NEW k \in Keys, Fail(w, k) \/ Unfail(w, k) \/ Queue(w, k) \/ Unqueue(w, k)
      PROVE  \E s : Honest(w, s, {})
  <2>1. CASE Fail(w, k)
    <3>1. MarkFailed(mem, k).processed = mem.processed
      BY <1>1 DEF MarkFailed, State
    <3> QED
      BY <1>1, <1>3, <2>1, <3>1, OperatorTypes DEF Fail, Keeps
  <2>2. CASE Unfail(w, k)
    <3>1. ClearFailed(mem, k).processed = mem.processed
      BY <1>1 DEF ClearFailed, State
    <3> QED
      BY <1>1, <1>3, <2>2, <3>1, OperatorTypes DEF Unfail, Keeps
  <2>3. CASE Queue(w, k)
    <3>1. SavePending(mem, k).processed = mem.processed
      BY <1>1 DEF SavePending, State
    <3> QED
      BY <1>1, <1>3, <2>3, <3>1, OperatorTypes DEF Queue, Keeps
  <2>4. CASE Unqueue(w, k)
    <3>1. RemovePending(mem, k).processed = mem.processed
      BY <1>1 DEF RemovePending, State
    <3> QED
      BY <1>1, <1>3, <2>4, <3>1, OperatorTypes DEF Unqueue, Keeps
  <2> QED
    BY <1>4, <2>1, <2>2, <2>3, <2>4
<1>5. ASSUME BeginRetry(w)
      PROVE  Honest(w, DeleteProcessed(mem, held[w][1]), {Identity[held[w][1]]})
  <2> DEFINE k == held[w][1]
             s == DeleteProcessed(mem, k)
  <2>1. k \in Keys
    BY <1>5, HeldTypes DEF BeginRetry
  <2>2. s \in State /\ s.ver = mem.ver
    BY <1>1, <2>1, OperatorTypes DEF Keeps
  <2>3. StampedBy(s, mem.ver + 1)
    BY <1>1 DEF StampedBy, DeleteProcessed, State
  <2>4. RecordedIdentities(mem) \ {Identity[k]} \subseteq RecordedIdentities(s)
    BY <1>1, <2>1, DeleteRecords
  <2>5. /\ kept' = kept \ {Identity[k]}
        /\ \A v \in Writers : claim'[v] = claim[v] \ {Identity[k]}
    BY <1>5 DEF BeginRetry, GiveUp
  <2>6. ASSUME NEW v \in Writers, held'[v] # <<>>
        PROVE  held'[v] = held[v] \/ held'[v][2] \in 1 .. mem.ver
    <3>1. CASE v = w
      <4>1. held'[w][2] = held[w][2] /\ held[w] # <<>>
        <5>1. held' = [held EXCEPT ![w] = <<held[w][1], held[w][2], "deleted">>]
              /\ held[w] # <<>>
          BY <1>5 DEF BeginRetry, Holds
        <5>2. held'[w] = <<held[w][1], held[w][2], "deleted">>
          BY <5>1 DEF TypeOK
        <5> QED
          BY <5>1, <5>2
      <4>2. held[w][2] \in 1 .. mem.ver
        <5>1. held[w][2] \in Nat
          BY <1>5, HeldTypes DEF BeginRetry
        <5>2. held[w][2] > 0 /\ held[w][2] <= mem.ver
          BY <4>1 DEF Stamped
        <5> QED
          BY <1>1, <5>1, <5>2
      <4> QED
        BY <3>1, <4>1, <4>2
    <3>2. CASE v # w
      BY <1>5, <3>2 DEF BeginRetry, TypeOK
    <3> QED
      BY <3>1, <3>2
  <2>7. Change(w, s)
    BY <1>5 DEF BeginRetry
  <2>8. claim'[w] \subseteq RecordedIdentities(s)
    BY <2>4, <2>5 DEF Promised
  <2> QED
    BY <2>2, <2>3, <2>4, <2>5, <2>6, <2>7, <2>8 DEF Honest
<1>6. ASSUME Restore(w)
      PROVE  Honest(w, RestoreProcessed(mem, held[w][1], held[w][2]), {})
  <2> DEFINE s == RestoreProcessed(mem, held[w][1], held[w][2])
  <2>1. held[w][1] \in Keys /\ held[w][2] \in Nat \ {0} /\ held[w][2] <= mem.ver
    <3>1. Holds(w, "deleted")
      BY <1>6 DEF Restore
    <3>2. held[w] # <<>> /\ held[w][1] \in Keys /\ held[w][2] \in Nat
      BY <3>1, HeldTypes
    <3>3. held[w][2] > 0 /\ held[w][2] <= mem.ver
      BY <3>2 DEF Stamped
    <3> QED
      BY <3>2, <3>3
  <2>2. s \in State /\ s.ver = mem.ver
    BY <1>1, <2>1, OperatorTypes DEF Keeps
  <2>3. StampedBy(s, mem.ver + 1)
    BY <1>1, <2>1 DEF StampedBy, RestoreProcessed, State
  <2>4. RecordedIdentities(mem) \subseteq RecordedIdentities(s)
    BY <1>1, <2>1, RestoreRecords
  <2>5. /\ kept' = kept /\ claim' = claim /\ Change(w, s)
        /\ \A v \in Writers : held'[v] # <<>> => held'[v] = held[v]
    BY <1>6 DEF Restore, TypeOK
  <2> QED
    BY <2>2, <2>3, <2>4, <2>5 DEF Honest, Promised
<1>7. ASSUME Reset(w)
      PROVE  Honest(w, ResetHistory(mem), Identities)
  <2> DEFINE s == ResetHistory(mem)
  <2>1. s \in State /\ s.ver = mem.ver
    BY <1>1 DEF ResetHistory, State
  <2>2. StampedBy(s, mem.ver + 1)
    BY <1>1 DEF StampedBy, ResetHistory, State
  <2>3. RecordedIdentities(mem) \ Identities \subseteq RecordedIdentities(s)
    BY StoreAssumption DEF RecordedIdentities, Recorded
  <2>4. /\ kept' = kept \ Identities
        /\ \A v \in Writers : claim'[v] = claim[v] \ Identities
        /\ held' = held /\ Change(w, s)
    BY <1>7 DEF Reset, GiveUp
  <2>5. claim'[w] \subseteq RecordedIdentities(s)
    BY <2>4 DEF TypeOK
  <2> QED
    BY <2>1, <2>2, <2>3, <2>4, <2>5 DEF Honest
<1>8. ASSUME Submitted(w) \/ BeginRetryLate(w) \/ \E k \in Keys : Read(w, k)
      PROVE  Stamped' /\ Promised'
  <2>1. /\ mem' = mem /\ disk' = disk /\ snap' = snap /\ pc' = pc
        /\ kept' = kept /\ claim' = claim
    BY <1>8 DEF Submitted, BeginRetryLate, Read, history
  <2>2. \A v \in Writers \ {w} : held'[v] = held[v]
    BY <1>8 DEF Submitted, BeginRetryLate, Read, TypeOK
  <2>3. ASSUME held'[w] # <<>>
        PROVE  held'[w][2] > 0 /\ held'[w][2] <= mem.ver
    <3>1. CASE Submitted(w)
      BY <2>3, <3>1 DEF Submitted, TypeOK
    <3>2. CASE BeginRetryLate(w)
      BY <3>2 DEF BeginRetryLate, Holds, TypeOK, Stamped
    <3>3. ASSUME NEW k \in Keys, Read(w, k)
          PROVE  held'[w][2] > 0 /\ held'[w][2] <= mem.ver
      <4>1. held'[w] = <<k, mem.processed[k], "read">> /\ mem.processed[k] > 0
        BY <3>3 DEF Read, Recorded, TypeOK
      <4> QED
        BY <1>1, <4>1
    <3> QED
      BY <1>8, <3>1, <3>2, <3>3
  <2>4. \A v \in Writers : held'[v] # <<>> => held'[v][2] > 0 /\ held'[v][2] <= mem.ver
    BY <2>2, <2>3 DEF Stamped
  <2> QED
    BY <2>1, <2>4 DEF Stamped, Promised
<1> QED
  BY <1>2, <1>4, <1>5, <1>6, <1>7, <1>8, HonestKeeps DEF Mutate

LEMMA SavePromised ==
  ASSUME TypeOK, Stamped, Promised, NEW w \in Writers, Save(w)
  PROVE  Stamped' /\ Promised'
<1>1. StampedBy(EmptyState, EmptyState.ver)
  BY DEF EmptyState, StampedBy
<1>2. CASE LockSave(w)
  <2>1. \A v \in Writers : pc'[v] = "writing" => pc[v] = "writing"
    BY <1>2 DEF LockSave, TypeOK
  <2> QED
    BY <1>2, <2>1 DEF LockSave, history, Stamped, Promised
<1>3. CASE Snapshot(w)
  <2>1. \A v \in Writers : snap'[v] = IF v = w THEN mem ELSE snap[v]
    BY <1>3 DEF Snapshot, TypeOK
  <2>2. \A v \in Writers \ {w} : pc'[v] = pc[v]
    BY <1>3 DEF Snapshot, TypeOK
  <2> QED
    BY <1>3, <2>1, <2>2 DEF Snapshot, history, Stamped, Promised
<1>4. ASSUME Return(w), pc[w] = "writing", mem' = mem, held' = held,
             \/ disk' = disk /\ kept' = kept
             \/ disk' = snap[w] /\ kept' = kept \cup claim[w]
      PROVE  Stamped' /\ Promised'
  <2>1. \A v \in Writers : snap'[v] = IF v = w THEN EmptyState ELSE snap[v]
    BY <1>4 DEF Return, TypeOK
  <2>2. \A v \in Writers : claim'[v] = IF v = w THEN {} ELSE claim[v]
    BY <1>4 DEF Return, TypeOK
  <2>3. \A v \in Writers : pc'[v] # "writing"
    BY <1>4 DEF Return, TypeOK
  <2>4. Stamped'
    BY <1>1, <1>4, <2>1 DEF Stamped
  <2>5. Promised'
    BY <1>4, <2>2, <2>3 DEF Promised
  <2> QED
    BY <2>4, <2>5
<1>5. CASE Rename(w)
  BY <1>4, <1>5 DEF Rename
<1>6. CASE SaveFails(w)
  BY <1>4, <1>6 DEF SaveFails
<1> QED
  BY <1>2, <1>3, <1>5, <1>6 DEF Save

LEMMA RestartPromised ==
  ASSUME TypeOK, Stamped, Promised, Restart
  PROVE  Stamped' /\ Promised'
<1>1. disk \in State /\ disk.ver \in Nat /\ StampedBy(disk, disk.ver)
  BY DEF TypeOK, State, Stamped
<1>2. RecordedIdentities(mem') = RecordedIdentities(disk)
  BY <1>1, CompactRecords DEF Restart, StampedBy
<1>3. StampedBy(mem', mem'.ver)
  BY <1>1 DEF Restart, Compact, StampedBy, State
<1>4. StampedBy(EmptyState, EmptyState.ver)
  BY DEF EmptyState, StampedBy
<1>5. Stamped'
  BY <1>3, <1>4 DEF Restart, Stamped
<1>6. Promised'
  BY <1>2 DEF Restart, Promised
<1> QED
  BY <1>5, <1>6

LEMMA NextPromised ==
  TypeOK /\ Stamped /\ Promised /\ [Next]_vars => Stamped' /\ Promised'
<1> SUFFICES ASSUME TypeOK, Stamped, Promised, [Next]_vars
             PROVE  Stamped' /\ Promised'
  OBVIOUS
<1>1. CASE UNCHANGED vars
  BY <1>1 DEF vars, Stamped, Promised
<1>2. CASE Next
  BY <1>2, MutatePromised, SavePromised, RestartPromised DEF Next
<1> QED
  BY <1>1, <1>2

\* An identity saved as processed stays processed, in memory and in the file,
\* until a retry or a reset gives it up.
THEOREM ProtectedAlways == Spec => []Protected
<1>1. Promised => Protected
  BY DEF Promised, Protected
<1> QED
  BY <1>1, InitType, InitPromised, NextType, NextPromised, PTL DEF Spec


-----------------------------------------------------------------------------
(***************************************************************************)
(* Loading.  Compaction leaves one record of each identity only if no two  *)
(* records share a completion time.  A retry puts an old time back, saves  *)
(* overlap, and a crash takes the count of changes back, so the times are  *)
(* followed everywhere they are kept: no time is ever that of two keys.    *)
(***************************************************************************)
Dated(t, k) ==
    \/ mem.processed[k] = t
    \/ disk.processed[k] = t
    \/ \E w \in Writers : pc[w] = "writing" /\ snap[w].processed[k] = t
    \/ \E w \in Writers : held[w] # <<>> /\ held[w][1] = k /\ held[w][2] = t

Times == Nat \ {0}

OneKeyPerDate ==
    \A t \in Times : \A k, j \in Keys : Dated(t, k) /\ Dated(t, j) => k = j

\* No time lies ahead of the memory.
LEMMA DatesPast ==
  ASSUME TypeOK, Ordered, Stamped, NEW t \in Times, NEW k \in Keys, Dated(t, k)
  PROVE  t <= mem.ver
<1>1. /\ mem.ver \in Nat /\ disk.ver \in Nat
      /\ mem.processed[k] \in Nat /\ disk.processed[k] \in Nat
      /\ \A w \in Writers : snap[w].ver \in Nat /\ snap[w].processed[k] \in Nat
  BY DEF TypeOK, State
<1>2. CASE mem.processed[k] = t
  BY <1>2 DEF Stamped, StampedBy
<1>3. CASE disk.processed[k] = t
  BY <1>1, <1>3 DEF Stamped, StampedBy, Ordered, Times
<1>4. ASSUME NEW w \in Writers, pc[w] = "writing", snap[w].processed[k] = t
      PROVE  t <= mem.ver
  <2>1. t <= snap[w].ver
    BY <1>4 DEF Stamped, StampedBy
  <2>2. snap[w].ver <= mem.ver
    BY <1>4 DEF Ordered, SnapshotOrdered
  <2> QED
    BY <1>1, <2>1, <2>2 DEF Times
<1>5. ASSUME NEW w \in Writers, held[w] # <<>>, held[w][2] = t
      PROVE  t <= mem.ver
  BY <1>5 DEF Stamped
<1> QED
  BY <1>2, <1>3, <1>4, <1>5 DEF Dated

\* A step that dates nothing anew.
LEMMA NoNewDate ==
  ASSUME OneKeyPerDate,
         \A t \in Times : \A k \in Keys : Dated(t, k)' => Dated(t, k)
  PROVE  OneKeyPerDate'
  BY DEF OneKeyPerDate

\* A step that dates one key, at a moment that was not yet.
LEMMA OneNewDate ==
  ASSUME TypeOK, Ordered, Stamped, OneKeyPerDate, NEW n \in Keys,
         \A t \in Times : \A k \in Keys :
             Dated(t, k)' => (Dated(t, k) \/ (t = mem.ver + 1 /\ k = n))
  PROVE  OneKeyPerDate'
<1>1. mem.ver \in Nat
  BY DEF TypeOK, State
<1>2. ASSUME NEW k \in Keys
      PROVE  mem.ver + 1 \in Times /\ ~Dated(mem.ver + 1, k)
  <2>1. mem.ver + 1 \in Times /\ ~(mem.ver + 1 <= mem.ver)
    BY <1>1 DEF Times
  <2> QED
    BY <2>1, DatesPast
<1> QED
  BY <1>2 DEF OneKeyPerDate

\* What a mutator has to show: the records it stores, and the ones the
\* retries hold, carry times of their own key or the moment of the change.
LEMMA ChangeDates ==
  ASSUME TypeOK, NEW w \in Writers, NEW s \in State, s.ver = mem.ver, Change(w, s),
         \A v \in Writers : held'[v] # <<>> =>
             /\ held[v] # <<>>
             /\ held'[v][1] = held[v][1] /\ held'[v][2] = held[v][2],
         NEW t \in Times, NEW k \in Keys, Dated(t, k)'
  PROVE  Dated(t, k) \/ s.processed[k] = t
<1>1. /\ mem' = [s EXCEPT !.ver = mem.ver + 1] /\ disk' = disk /\ snap' = snap
      /\ pc' = [pc EXCEPT ![w] = "dirty"]
  BY ChangeTypes
<1>2. mem'.processed = s.processed
  BY <1>1 DEF State
<1>3. \A v \in Writers : pc'[v] = "writing" => pc[v] = "writing"
  BY <1>1 DEF TypeOK
<1> QED
  BY <1>1, <1>2, <1>3 DEF Dated

\* A save and a crash only move records from one place to another.
LEMMA SaveDates ==
  ASSUME TypeOK, NEW w \in Writers, Save(w),
         NEW t \in Times, NEW k \in Keys, Dated(t, k)'
  PROVE  Dated(t, k)
<1>1. CASE LockSave(w)
  <2>1. \A v \in Writers : pc'[v] = "writing" => pc[v] = "writing"
    BY <1>1 DEF LockSave, TypeOK
  <2> QED
    BY <1>1, <2>1 DEF LockSave, Dated
<1>2. CASE Snapshot(w)
  <2>1. \A v \in Writers : snap'[v] = IF v = w THEN mem ELSE snap[v]
    BY <1>2 DEF Snapshot, TypeOK
  <2>2. \A v \in Writers \ {w} : pc'[v] = pc[v]
    BY <1>2 DEF Snapshot, TypeOK
  <2> QED
    BY <1>2, <2>1, <2>2 DEF Snapshot, Dated
<1>3. ASSUME Return(w), pc[w] = "writing", mem' = mem, held' = held,
             disk' = disk \/ disk' = snap[w]
      PROVE  Dated(t, k)
  <2>1. \A v \in Writers : pc'[v] # "writing"
    BY <1>3 DEF Return, TypeOK
  <2> QED
    BY <1>3, <2>1 DEF Dated
<1> QED
  BY <1>1, <1>2, <1>3 DEF Save, Rename, SaveFails

LEMMA RestartDates ==
  ASSUME TypeOK, Restart, NEW t \in Times, NEW k \in Keys, Dated(t, k)'
  PROVE  Dated(t, k)
<1>1. Compact(disk).processed[k] = 0 \/ Compact(disk).processed[k] = disk.processed[k]
  BY DEF TypeOK, State, Compact
<1>2. /\ mem' = Compact(disk) /\ disk' = disk
      /\ \A w \in Writers : pc'[w] = "idle" /\ held'[w] = <<>>
  BY DEF Restart
<1> QED
  BY <1>1, <1>2 DEF Dated, Times

LEMMA MutateDates ==
  ASSUME TypeOK, Ordered, Stamped, OneKeyPerDate, NEW w \in Writers, Mutate(w)
  PROVE  OneKeyPerDate'
<1>1. /\ mem \in State /\ mem.ver \in Nat /\ mem.ver + 1 \in Nat
      /\ \A k \in Keys : mem.processed[k] \in Nat
  BY DEF TypeOK, State
<1>2. ASSUME NEW k \in Keys, Mark(w, k)
      PROVE  OneKeyPerDate'
  <2> DEFINE s == MarkProcessed(mem, k, mem.ver + 1)
  <2>1. s \in State /\ s.ver = mem.ver
    BY <1>1, OperatorTypes DEF Keeps
  <2>2. Change(w, s) /\ held' = held
    BY <1>2 DEF Mark
  <2>3. ASSUME NEW t \in Times, NEW j \in Keys, s.processed[j] = t
        PROVE  Dated(t, j) \/ (t = mem.ver + 1 /\ j = k)
    BY <1>1, <2>3 DEF MarkProcessed, State, Dated, Times
  <2> HIDE DEF s
  <2>4. ASSUME NEW t \in Times, NEW j \in Keys, Dated(t, j)'
        PROVE  Dated(t, j) \/ (t = mem.ver + 1 /\ j = k)
    BY <2>1, <2>2, <2>3, <2>4, ChangeDates
  <2> QED
    BY <2>4, OneNewDate
<1>3. ASSUME NEW s \in State, s.ver = mem.ver, Change(w, s),
             \A j \in Keys : s.processed[j] \in {0, mem.processed[j]},
             \A v \in Writers : held'[v] # <<>> =>
                 /\ held[v] # <<>>
                 /\ held'[v][1] = held[v][1] /\ held'[v][2] = held[v][2]
      PROVE  OneKeyPerDate'
  <2>1. ASSUME NEW t \in Times, NEW j \in Keys, s.processed[j] = t
        PROVE  Dated(t, j)
    BY <1>3, <2>1 DEF Dated, Times
  <2>2. ASSUME NEW t \in Times, NEW j \in Keys, Dated(t, j)'
        PROVE  Dated(t, j)
    BY <1>3, <2>1, <2>2, ChangeDates
  <2> QED
    BY <2>2, NoNewDate
<1>4. ASSUME NEW k \in Keys, Fail(w, k) \/ Unfail(w, k) \/ Queue(w, k) \/ Unqueue(w, k)
      PROVE  OneKeyPerDate'
  <2>1. PICK s \in {MarkFailed(mem, k), ClearFailed(mem, k),
                    SavePending(mem, k), RemovePending(mem, k)} :
          Change(w, s) /\ held' = held
    BY <1>4 DEF Fail, Unfail, Queue, Unqueue
  <2>2. s \in State /\ s.ver = mem.ver
    BY <1>1, <2>1, OperatorTypes DEF Keeps
  <2>3. s.processed = mem.processed
    BY <1>1, <2>1 DEF State, MarkFailed, ClearFailed, SavePending, RemovePending
  <2> QED
    BY <1>3, <2>1, <2>2, <2>3
<1>5. ASSUME BeginRetry(w)
      PROVE  OneKeyPerDate'
  <2> DEFINE s == DeleteProcessed(mem, held[w][1])
  <2>1. /\ held[w] # <<>> /\ held[w][1] \in Keys
        /\ held' = [held EXCEPT ![w] = <<held[w][1], held[w][2], "deleted">>]
        /\ Change(w, s)
    BY <1>5, HeldTypes DEF BeginRetry
  <2>2. s \in State /\ s.ver = mem.ver
    BY <1>1, <2>1, OperatorTypes DEF Keeps
  <2>3. \A j \in Keys : s.processed[j] \in {0, mem.processed[j]}
    BY <1>1 DEF DeleteProcessed, State
  <2>4. /\ held'[w] = <<held[w][1], held[w][2], "deleted">>
        /\ \A v \in Writers \ {w} : held'[v] = held[v]
    BY <2>1 DEF TypeOK
  <2> HIDE DEF s
  <2> QED
    BY <1>3, <2>1, <2>2, <2>3, <2>4
<1>6. ASSUME Restore(w)
      PROVE  OneKeyPerDate'
  <2> DEFINE n == held[w][1]
             stamp == held[w][2]
             s == RestoreProcessed(mem, n, stamp)
  <2>1. /\ held[w] # <<>> /\ n \in Keys /\ stamp \in Nat
        /\ held' = [held EXCEPT ![w] = <<>>]
        /\ Change(w, s)
    BY <1>6, HeldTypes DEF Restore
  <2>2. s \in State /\ s.ver = mem.ver
    BY <1>1, <2>1, OperatorTypes DEF Keeps
  <2>3. ASSUME NEW t \in Times, NEW j \in Keys, s.processed[j] = t
        PROVE  Dated(t, j)
    <3>1. CASE j = n
      <4>1. t = stamp
        BY <1>1, <2>1, <2>3, <3>1 DEF RestoreProcessed, State
      <4> QED
        BY <2>1, <3>1, <4>1 DEF Dated
    <3>2. CASE j # n
      <4>1. mem.processed[j] = t
        BY <1>1, <2>1, <2>3, <3>2 DEF RestoreProcessed, State
      <4> QED
        BY <4>1 DEF Dated
    <3> QED
      BY <3>1, <3>2
  <2>4. /\ held'[w] = <<>>
        /\ \A v \in Writers \ {w} : held'[v] = held[v]
    BY <2>1 DEF TypeOK
  <2> HIDE DEF s
  <2>5. ASSUME NEW t \in Times, NEW j \in Keys, Dated(t, j)'
        PROVE  Dated(t, j)
    BY <2>1, <2>2, <2>3, <2>4, <2>5, ChangeDates
  <2> QED
    BY <2>5, NoNewDate
<1>7. ASSUME Reset(w)
      PROVE  OneKeyPerDate'
  <2>1. ResetHistory(mem) \in State /\ ResetHistory(mem).ver = mem.ver
    BY <1>1 DEF ResetHistory, State
  <2>2. \A j \in Keys : ResetHistory(mem).processed[j] = 0
    BY <1>1 DEF ResetHistory, State
  <2>3. Change(w, ResetHistory(mem)) /\ held' = held
    BY <1>7 DEF Reset
  <2> QED
    BY <1>3, <2>1, <2>2, <2>3
<1>8. ASSUME Submitted(w) \/ BeginRetryLate(w) \/ \E k \in Keys : Read(w, k)
      PROVE  OneKeyPerDate'
  <2>1. mem' = mem /\ disk' = disk /\ snap' = snap /\ pc' = pc
    BY <1>8 DEF Submitted, BeginRetryLate, Read
  <2>2. \A v \in Writers \ {w} : held'[v] = held[v]
    BY <1>8 DEF Submitted, BeginRetryLate, Read, TypeOK
  <2>3. ASSUME held'[w] # <<>>
        PROVE  \/ held[w] # <<>> /\ held'[w][1] = held[w][1] /\ held'[w][2] = held[w][2]
               \/ mem.processed[held'[w][1]] = held'[w][2]
    <3>1. CASE Submitted(w)
      BY <2>3, <3>1 DEF Submitted, TypeOK
    <3>2. CASE BeginRetryLate(w)
      <4>1. held[w] # <<>> /\ held'[w] = <<held[w][1], held[w][2], "deleted">>
        BY <3>2 DEF BeginRetryLate, Holds, TypeOK
      <4> QED
        BY <4>1
    <3>3. ASSUME NEW k \in Keys, Read(w, k)
          PROVE  mem.processed[held'[w][1]] = held'[w][2]
      <4>1. held'[w] = <<k, mem.processed[k], "read">>
        BY <3>3 DEF Read, TypeOK
      <4> QED
        BY <4>1
    <3> QED
      BY <1>8, <3>1, <3>2, <3>3
  <2>4. ASSUME NEW t \in Times, NEW j \in Keys, Dated(t, j)'
        PROVE  Dated(t, j)
    BY <2>1, <2>2, <2>3, <2>4 DEF Dated
  <2> QED
    BY <2>4, NoNewDate
<1> QED
  BY <1>2, <1>4, <1>5, <1>6, <1>7, <1>8 DEF Mutate

LEMMA NextDates ==
  TypeOK /\ Ordered /\ Stamped /\ OneKeyPerDate /\ [Next]_vars => OneKeyPerDate'
<1> SUFFICES ASSUME TypeOK, Ordered, Stamped, OneKeyPerDate, [Next]_vars
             PROVE  OneKeyPerDate'
  OBVIOUS
<1>1. CASE UNCHANGED vars
  BY <1>1, NoNewDate DEF vars, Dated
<1>2. CASE \E w \in Writers : Save(w)
  BY <1>2, SaveDates, NoNewDate
<1>3. CASE Restart
  BY <1>3, RestartDates, NoNewDate
<1> QED
  BY <1>1, <1>2, <1>3, MutateDates DEF Next

LEMMA InitDates == Init => OneKeyPerDate
  BY DEF Init, EmptyState, OneKeyPerDate, Dated, Times

\* Only a restart counts a crash.
LEMMA OnlyRestartCrashes ==
  ASSUME [Next]_vars, crashes' # crashes
  PROVE  Restart
<1>1. ASSUME NEW w \in Writers, Mutate(w)
      PROVE  crashes' = crashes
  BY <1>1 DEF Mutate, Mark, Fail, Unfail, Read, Queue, Unqueue, BeginRetry,
              BeginRetryLate, Restore, Submitted, Reset, Change, history
<1>2. ASSUME NEW w \in Writers, Save(w)
      PROVE  crashes' = crashes
  BY <1>2 DEF Save, LockSave, Snapshot, Rename, SaveFails, history
<1> QED
  BY <1>1, <1>2 DEF Next, vars

LEMMA RestartLoads ==
  ASSUME TypeOK, Stamped, OneKeyPerDate, Restart
  PROVE  /\ RecordedIdentities(mem') = RecordedIdentities(disk)
         /\ \A k \in Recorded(mem') : \A j \in SameIdentity(k) :
               /\ disk.processed[j] <= mem'.processed[k]
               /\ j \in Recorded(mem') => j = k
<1>1. /\ disk \in State /\ disk.ver \in Nat /\ StampedBy(disk, disk.ver)
      /\ \A k \in Keys : disk.processed[k] \in Nat
      /\ mem' = Compact(disk)
  BY DEF TypeOK, State, Stamped, Restart
<1>2. RecordedIdentities(mem') = RecordedIdentities(disk)
  BY <1>1, CompactRecords DEF StampedBy
<1>3. ASSUME NEW k \in Recorded(mem')
      PROVE  /\ k \in Keys
             /\ mem'.processed[k] = disk.processed[k] /\ disk.processed[k] \in Times
             /\ \A j \in SameIdentity(k) : disk.processed[j] <= disk.processed[k]
  BY <1>1 DEF Recorded, Compact, State, SameIdentity, Times
<1>4. ASSUME NEW k \in Recorded(mem'), NEW j \in SameIdentity(k), j \in Recorded(mem')
      PROVE  j = k
  <2>1. k \in SameIdentity(j)
    BY <1>3, <1>4 DEF SameIdentity
  <2>2. disk.processed[j] = disk.processed[k]
    BY <1>1, <1>3, <1>4, <2>1 DEF SameIdentity
  <2> QED
    BY <1>3, <1>4, <2>2 DEF OneKeyPerDate, Dated
<1> QED
  BY <1>2, <1>3, <1>4

\* Loading the file after a crash keeps every identity it records, and of the
\* records of one identity the newest alone, whatever retries put back, whatever
\* saves overlap, and however often the process has died before.
THEOREM LoadKeepsNewestAlways == Spec => LoadKeepsNewest
<1>1. TypeOK /\ Stamped /\ OneKeyPerDate /\ [Next]_vars =>
        [crashes' # crashes =>
           /\ RecordedIdentities(mem') = RecordedIdentities(disk)
           /\ \A k \in Recorded(mem') : \A j \in SameIdentity(k) :
                 /\ disk.processed[j] <= mem'.processed[k]
                 /\ j \in Recorded(mem') => j = k]_vars
  BY OnlyRestartCrashes, RestartLoads
<1> QED
  BY <1>1, InitType, InitOrdered, InitPromised, InitDates, NextType, NextOrdered,
     NextPromised, NextDates, PTL DEF Spec, LoadKeepsNewest

===============================================================================
