-------------------------- MODULE ProcessingStore --------------------------
(***************************************************************************)
(* The durable processing state of UnpackFlow (state_store.go).            *)
(*                                                                         *)
(* Every goroutine of the program records what it did by changing the maps *)
(* of u.state under state.mu and then calling saveProcessingState, which   *)
(* takes saveMu, snapshots the maps, writes a temporary file and renames   *)
(* it over unpackflow-state.json.  The in-memory change is visible to all  *)
(* readers at once; it survives a crash only after the rename.             *)
(*                                                                         *)
(* A record's key and its identity (base name | size) are separate: 115    *)
(* tasks have keys of their own, and several keys share one identity.      *)
(***************************************************************************)
EXTENDS Naturals, FiniteSets

CONSTANTS
    Keys,        \* keys of records in Processed and Failed
    Identities,  \* base name | size
    Identity,    \* processedIdentity: the identity of the record of a key
    Writers,     \* goroutines that change the state
    NoWriter,    \* saveMu is free
    MaxVer,      \* bound: changes of the memory in a run
    MaxCrash     \* bound: restarts in a run

ASSUME StoreAssumption ==
    /\ Identity \in [Keys -> Identities]
    /\ NoWriter \notin Writers
    /\ MaxVer \in Nat
    /\ MaxCrash \in Nat

(***************************************************************************)
(* A state of the maps.  processed[k] is 0 when Processed has no key k,    *)
(* and otherwise its CompletedAt, for which the number of the change that  *)
(* wrote it stands.  ver counts the changes the state contains.            *)
(***************************************************************************)
State == [processed : [Keys -> Nat], failed : SUBSET Keys,
          pending : SUBSET Keys, ver : Nat]

VARIABLES
    mem,      \* u.state, guarded by state.mu
    disk,     \* unpackflow-state.json
    saveMu,   \* the writer that holds u.state.saveMu
    pc,       \* where each writer is
    snap,     \* the snapshot a saving writer has marshalled
    held,     \* a retry's record and progress: <<>> or <<key, stamp, step>>
    \* what the properties look back on
    need,     \* the version of a writer's own change
    claim,    \* identities a writer has marked processed and not yet saved
    acked,    \* the newest version whose save returned without error
    kept,     \* identities saved as processed and not given up since
    crashes

vars == <<mem, disk, saveMu, pc, snap, held, need, claim, acked, kept, crashes>>
history == <<need, claim, acked, kept, crashes>>

EmptyState == [processed |-> [k \in Keys |-> 0], failed |-> {},
               pending |-> {}, ver |-> 0]

Recorded(s) == {k \in Keys : s.processed[k] > 0}
RecordedIdentities(s) == {Identity[k] : k \in Recorded(s)}
SameIdentity(k) == {j \in Keys : Identity[j] = Identity[k]}

(***************************************************************************)
(* What each mutator does to the maps while it holds state.mu; t is the    *)
(* moment it runs.                                                         *)
(***************************************************************************)
\* Mutant: the new record is stored before those of its identity are removed.
MarkProcessedSwapped(s, k, t) ==
    [s EXCEPT !.failed = @ \ SameIdentity(k),
              !.processed = [j \in Keys |-> IF j \in SameIdentity(k) THEN 0 ELSE @[j]]]

MarkProcessed(s, k, t) ==
    [s EXCEPT !.failed = @ \ SameIdentity(k),
              !.processed = [j \in Keys |-> IF j = k THEN t
                                            ELSE IF j \in SameIdentity(k) THEN 0
                                            ELSE @[j]]]

MarkFailed(s, k) == [s EXCEPT !.failed = @ \cup {k}]

ClearFailed(s, k) == [s EXCEPT !.failed = @ \ {k}]

DeleteProcessed(s, k) ==
    [s EXCEPT !.processed = [j \in Keys |-> IF j \in SameIdentity(k) THEN 0 ELSE @[j]]]

RestoreProcessed(s, k, stamp) == [s EXCEPT !.processed[k] = stamp]

SavePending(s, k) == [s EXCEPT !.pending = @ \cup {k}]

RemovePending(s, k) == [s EXCEPT !.pending = @ \ {k}]

ResetHistory(s) == [s EXCEPT !.processed = [j \in Keys |-> 0], !.failed = {}]

\* Mutant: the completion times are compared the wrong way round.
CompactOldest(s) ==
    [s EXCEPT !.processed =
        [k \in Keys |-> IF \E j \in SameIdentity(k) : @[j] > 0 /\ @[j] < @[k]
                        THEN 0 ELSE @[k]]]

\* compactProcessedSources: of the records of one identity the newest stays.
Compact(s) ==
    [s EXCEPT !.processed =
        [k \in Keys |-> IF \E j \in SameIdentity(k) : @[j] > @[k] THEN 0 ELSE @[k]]]

Init ==
    /\ mem = EmptyState
    /\ disk = EmptyState
    /\ saveMu = NoWriter
    /\ pc = [w \in Writers |-> "idle"]
    /\ snap = [w \in Writers |-> EmptyState]
    /\ held = [w \in Writers |-> <<>>]
    /\ need = [w \in Writers |-> 0]
    /\ claim = [w \in Writers |-> {}]
    /\ acked = 0
    /\ kept = {}
    /\ crashes = 0

-----------------------------------------------------------------------------
(***************************************************************************)
(* The first half of a mutator: lock state.mu, change the maps, unlock.    *)
(* The writer is now on its way into saveProcessingState.                  *)
(***************************************************************************)
Change(w, s) ==
    /\ pc[w] = "idle"
    /\ mem.ver < MaxVer
    /\ mem' = [s EXCEPT !.ver = mem.ver + 1]
    /\ pc' = [pc EXCEPT ![w] = "dirty"]
    /\ need' = [need EXCEPT ![w] = mem.ver + 1]
    /\ UNCHANGED <<disk, saveMu, snap, acked, crashes>>

\* Identities that a change takes out of Processed are no longer promised.
GiveUp(ids) ==
    /\ kept' = kept \ ids
    /\ claim' = [v \in Writers |-> claim[v] \ ids]

Mark(w, k) ==
    /\ Change(w, MarkProcessed(mem, k, mem.ver + 1))
    /\ claim' = [claim EXCEPT ![w] = {Identity[k]}]
    /\ UNCHANGED <<held, kept>>

Fail(w, k) ==
    /\ Change(w, MarkFailed(mem, k))
    /\ UNCHANGED <<held, claim, kept>>

Unfail(w, k) ==
    /\ Change(w, ClearFailed(mem, k))
    /\ UNCHANGED <<held, claim, kept>>

\* retryHistory reads the record first, under a lock of its own.
Read(w, k) ==
    /\ pc[w] = "idle"
    /\ held[w] = <<>>
    /\ k \in Recorded(mem)
    /\ held' = [held EXCEPT ![w] = <<k, mem.processed[k], "read">>]
    /\ UNCHANGED <<mem, disk, saveMu, pc, snap, history>>

Holds(w, step) == held[w] # <<>> /\ held[w][3] = step

\* deleteProcessed: the key is there, and goes with all of its identity ...
BeginRetry(w) ==
    /\ Holds(w, "read")
    /\ held[w][1] \in Recorded(mem)
    /\ Change(w, DeleteProcessed(mem, held[w][1]))
    /\ held' = [held EXCEPT ![w] = <<@[1], @[2], "deleted">>]
    /\ GiveUp({Identity[held[w][1]]})

\* ... or another goroutine took it away, and nothing is saved.
BeginRetryLate(w) ==
    /\ pc[w] = "idle"
    /\ Holds(w, "read")
    /\ held[w][1] \notin Recorded(mem)
    /\ held' = [held EXCEPT ![w] = <<@[1], @[2], "deleted">>]
    /\ UNCHANGED <<mem, disk, saveMu, pc, snap, history>>

\* retryHistory puts the record it read back when nothing could be submitted.
Restore(w) ==
    /\ Holds(w, "deleted")
    /\ Change(w, RestoreProcessed(mem, held[w][1], held[w][2]))
    /\ held' = [held EXCEPT ![w] = <<>>]
    /\ UNCHANGED <<claim, kept>>

\* retryHistory drops it when the archive was submitted again.
Submitted(w) ==
    /\ pc[w] = "idle"
    /\ Holds(w, "deleted")
    /\ held' = [held EXCEPT ![w] = <<>>]
    /\ UNCHANGED <<mem, disk, saveMu, pc, snap, history>>

Queue(w, k) ==
    /\ Change(w, SavePending(mem, k))
    /\ UNCHANGED <<held, claim, kept>>

Unqueue(w, k) ==
    /\ Change(w, RemovePending(mem, k))
    /\ UNCHANGED <<held, claim, kept>>

Reset(w) ==
    /\ Change(w, ResetHistory(mem))
    /\ GiveUp(Identities)
    /\ UNCHANGED held

-----------------------------------------------------------------------------
(***************************************************************************)
(* saveProcessingState.  Snapshot and replacement are serialised by        *)
(* saveMu; the maps are only read under state.mu, so other writers change  *)
(* them while this one writes its file.                                    *)
(***************************************************************************)
\* Mutant: two writers snapshot and replace at the same time.
LockSaveUnserialised(w) ==
    /\ pc[w] = "dirty"
    /\ saveMu' = w
    /\ pc' = [pc EXCEPT ![w] = "locked"]
    /\ UNCHANGED <<mem, disk, snap, held, history>>

LockSave(w) ==
    /\ pc[w] = "dirty"
    /\ saveMu = NoWriter
    /\ saveMu' = w
    /\ pc' = [pc EXCEPT ![w] = "locked"]
    /\ UNCHANGED <<mem, disk, snap, held, history>>

Snapshot(w) ==
    /\ pc[w] = "locked"
    /\ snap' = [snap EXCEPT ![w] = mem]
    /\ pc' = [pc EXCEPT ![w] = "writing"]
    /\ UNCHANGED <<mem, disk, saveMu, held, history>>

\* saveProcessingState returns: its locals are gone and saveMu is free.
Return(w) ==
    /\ saveMu' = NoWriter
    /\ pc' = [pc EXCEPT ![w] = "idle"]
    /\ snap' = [snap EXCEPT ![w] = EmptyState]
    /\ need' = [need EXCEPT ![w] = 0]
    /\ claim' = [claim EXCEPT ![w] = {}]

Rename(w) ==
    /\ pc[w] = "writing"
    /\ disk' = snap[w]
    /\ acked' = IF need[w] > acked THEN need[w] ELSE acked
    /\ kept' = kept \cup claim[w]
    /\ Return(w)
    /\ UNCHANGED <<mem, held, crashes>>

\* Mutant: a failed save is taken for a finished one.
SaveFailsSilently(w) ==
    /\ pc[w] = "writing"
    /\ acked' = IF need[w] > acked THEN need[w] ELSE acked
    /\ Return(w)
    /\ UNCHANGED <<mem, disk, held, kept, crashes>>

\* Creating, writing, syncing or renaming the temporary file fails: the error
\* is logged, the change stays in memory and waits for the next save.
SaveFails(w) ==
    /\ pc[w] = "writing"
    /\ Return(w)
    /\ UNCHANGED <<mem, disk, held, acked, kept, crashes>>

\* The process dies and loadProcessingState reads the file again.
Restart ==
    /\ crashes < MaxCrash
    /\ crashes' = crashes + 1
    /\ mem' = Compact(disk)
    /\ saveMu' = NoWriter
    /\ pc' = [w \in Writers |-> "idle"]
    /\ held' = [w \in Writers |-> <<>>]
    /\ snap' = [w \in Writers |-> EmptyState]
    /\ need' = [w \in Writers |-> 0]
    /\ claim' = [w \in Writers |-> {}]
    /\ UNCHANGED <<disk, acked, kept>>

Mutate(w) ==
    \/ \E k \in Keys : \/ Mark(w, k)
                       \/ Fail(w, k)
                       \/ Unfail(w, k)
                       \/ Read(w, k)
                       \/ Queue(w, k)
                       \/ Unqueue(w, k)
    \/ BeginRetry(w)
    \/ BeginRetryLate(w)
    \/ Restore(w)
    \/ Submitted(w)
    \/ Reset(w)

Save(w) == LockSave(w) \/ Snapshot(w) \/ Rename(w) \/ SaveFails(w)

Next == (\E w \in Writers : Mutate(w) \/ Save(w)) \/ Restart

Spec == Init /\ [][Next]_vars

-----------------------------------------------------------------------------
\* The maps hold records of known keys, and saveMu is held by the one writer
\* that is inside saveProcessingState.
TypeOK ==
    /\ mem \in State
    /\ disk \in State
    /\ saveMu \in Writers \cup {NoWriter}
    /\ pc \in [Writers -> {"idle", "dirty", "locked", "writing"}]
    /\ snap \in [Writers -> State]
    /\ held \in [Writers -> {<<>>} \cup (Keys \X Nat \X {"read", "deleted"})]
    /\ need \in [Writers -> Nat]
    /\ claim \in [Writers -> SUBSET Identities]
    /\ acked \in Nat
    /\ kept \in SUBSET Identities
    /\ crashes \in Nat
    /\ \A w \in Writers : pc[w] \in {"locked", "writing"} <=> saveMu = w

\* A mutator whose save returned without error has its change in the file, and
\* no other goroutine's save takes it out again (saveProcessingState).
Durable == acked <= disk.ver

\* "An older writer cannot overwrite a newer state" (state_store.go:169): the
\* file only ever moves forward, whatever the order the savers run in.
NewerNeverOverwritten == [][disk'.ver >= disk.ver]_vars

\* Once markProcessed has saved an archive, wasProcessed stays true for its
\* identity, in memory and after any restart, until a retry or a reset asks
\* for it again: other marks, restores and compaction never lose it.
Protected ==
    \A id \in kept : /\ id \in RecordedIdentities(mem)
                     /\ id \in RecordedIdentities(disk)

\* Loading drops duplicates and nothing else: each identity of the file keeps
\* exactly one record, its newest (compactProcessedSources).
LoadKeepsNewest ==
    [][crashes' # crashes =>
        /\ RecordedIdentities(mem') = RecordedIdentities(disk)
        /\ \A k \in Recorded(mem') : \A j \in SameIdentity(k) :
              /\ disk.processed[j] <= mem'.processed[k]
              /\ j \in Recorded(mem') => j = k]_vars

=============================================================================
