---------------------------- MODULE Replicated ----------------------------
(***************************************************************************)
(* src/replicated.rs: a Raft node and the store its committed entries go   *)
(* into, on one machine, across crashes.                                   *)
(*                                                                         *)
(* The log the cluster agrees on is history; of the node this module keeps *)
(* how far it has learnt that log to be committed, and its snapshot, whose *)
(* storage is AtomicStorage.  Of the store it keeps what the Store module  *)
(* shows of it: writes are lost from the last one back, and a sync keeps   *)
(* them all (disk and unsynced); and that a stop amid the unlinks at the   *)
(* end of a compaction may bring a deleted key back (loose and revived).   *)
(* The background jobs of the cluster node and the inline ones of a        *)
(* replica without threads are both here.                                  *)
(***************************************************************************)
EXTENDS Integers, Sequences, FiniteSets, FiniteSetsExt, Ordered

CONSTANTS
    MaxKey,         \* keys are 1..MaxKey, in the order a snapshot sorts them
    Values,         \* values a client may store
    Absent,         \* no value
    MaxLog,         \* bound: length of the agreed log
    Histories,      \* the logs a cluster may agree on
    SnapshotEvery,  \* set_snapshot_every; 0 turns snapshots off
    MaxCrashes,     \* bound: crashes
    TransientErrors, \* whether reading the applied file may fail just once
    MaxFailures,    \* bound: background jobs that fail
    None            \* no job

ASSUME BoundsAssumption == /\ MaxKey \in Nat /\ MaxLog \in Nat /\ SnapshotEvery \in Nat
                           /\ MaxCrashes \in Nat /\ MaxFailures \in Nat
ASSUME AbsentAssumption == Absent \notin Values

Keys == 1..MaxKey
Map == [Keys -> Values \cup {Absent}]

(* Op, or a Noop or Config entry, which is nothing to the store.           *)
Noop == [key |-> 0, val |-> Absent]
Commands == [key : Keys, val : Values \cup {Absent}] \cup {Noop}

ASSUME HistoriesAssumption == Histories \subseteq [1..MaxLog -> Commands]

VARIABLES
    history,     \* the log the cluster agrees on
    commit,      \* Node.commit_index
    taken,       \* Node.last_applied: where take_committed goes on from
    snap,        \* the node's snapshot on disk: [index, data, stale]
    applied,     \* ReplicatedStore.applied
    appliedFile, \* the index in the applied file
    disk,        \* what the store's files are sure to give back
    unsynced,    \* writes after that, oldest first
    background,  \* ReplicatedStore.background_snapshots
    job,         \* a snapshot being written: [index, data, stale], or None
    compaction,  \* compaction_due and the job: "no", "due" or "out"
    dead,        \* keys of whose records the merged file gets none
    loose,       \* keys whose last records are in files whose unlinks may be half done
    restore,     \* the restore job: None, or [index, data, stale, placed]
    pc,          \* the next step of what holds the replica's lock
    reach,       \* history: the highest index with an effect in the store
    revived,     \* history: keys of the disk that a half done unlinking brought back
    crashes, failures

nodeVars == <<commit, taken, snap>>
storeVars == <<disk, unsynced>>
unlinkVars == <<dead, loose, revived>>
jobVars == <<job, compaction, restore>>
bounds == <<crashes, failures>>
vars == <<history, commit, taken, snap, applied, appliedFile, disk, unsynced,
          background, job, compaction, dead, loose, restore, pc, reach, revived,
          crashes, failures>>

-----------------------------------------------------------------------------
(* A map after some writes: the last write to a key wins.                  *)
After(m, ws) ==
    [k \in Keys |->
        LET W == {i \in DOMAIN ws : ws[i].key = k}
        IN  IF W = {} THEN m[k] ELSE ws[Max(W)].val]

NoKeys == [k \in Keys |-> Absent]
StateAt(i) == After(NoKeys, SubSeq(history, 1, i))

(* What the store's index says: Store::get.                                *)
store == After(disk, unsynced)

(* The keys some writes name, and those they leave a record of:            *)
(* delete_with writes no tombstone for a key that is not there.            *)
Named(ws) == {k \in Keys : \E i \in DOMAIN ws : ws[i].key = k}
Recorded(ws) ==
    {k \in Keys : \E i \in DOMAIN ws : ws[i].key = k /\ {ws[i].val, disk[k]} # {Absent}}

(* What a record of the key can say that may still be in some file, or     *)
(* that there is none.                                                     *)
Old(k) == {StateAt(n)[k] : n \in 0..reach}

(* The keys a merge copies nothing of: the tombstones stay behind in the   *)
(* files it replaces, with what they hide.                                 *)
Dead == {k \in Keys : store[k] = Absent}

(* The keys of the store that an unfinished unlinking brought back.        *)
Stale == revived \ Named(unsynced)

(* A map that holds the log up to i, and for some keys a later write, up   *)
(* to j: what a replay leaves half way through, and what such a replica    *)
(* puts in its snapshots.  A stale key may be as old as it likes.          *)
HoldsPrefix(m, stale, i, j) ==
    \A k \in Keys : \E n \in (IF k \in stale THEN 0 ELSE i)..j : m[k] = StateAt(n)[k]

SnapshotAhead == snap.index > applied

Init ==
    /\ history \in Histories
    /\ commit = 0 /\ taken = 0
    /\ snap = [index |-> 0, data |-> NoKeys, stale |-> {}]
    /\ applied = 0 /\ appliedFile = 0
    /\ disk = NoKeys /\ unsynced = <<>>
    /\ background \in BOOLEAN
    /\ job = None /\ compaction = "no" /\ restore = None
    /\ dead = {} /\ loose = {}
    /\ pc = "idle"
    /\ reach = 0 /\ revived = {}
    /\ crashes = 0 /\ failures = 0

-----------------------------------------------------------------------------
(* tick and step: the node does its part, then apply.                      *)

(* The node learns that more of its log is committed.                      *)
Commit(n) ==
    /\ pc = "idle"
    /\ n > commit
    /\ commit' = n
    /\ pc' = "apply"
    /\ UNCHANGED <<history, taken, snap, applied, appliedFile, storeVars, background,
                   jobVars, unlinkVars, reach, bounds>>

(* The last piece of a leader's snapshot, which the node installs when it  *)
(* is past its commit index; step throws it away while a restore reads the *)
(* snapshot before it.  The leader's own store may have been replaying up  *)
(* to index h when it wrote the snapshot, with some keys stale.            *)
InstallSnapshot(i, data, stale, h) ==
    /\ pc = "idle"
    /\ restore = None
    /\ i > commit
    /\ snap' = [index |-> i, data |-> data, stale |-> stale]
    /\ commit' = i
    /\ taken' = Max({taken, i})
    /\ reach' = Max({reach, h})
    /\ pc' = "apply"
    /\ UNCHANGED <<history, applied, appliedFile, storeVars, background, jobVars,
                   unlinkVars, bounds>>

(* apply, when the snapshot is ahead of the store: its entries are gone.   *)
ApplyMustRestore ==
    /\ pc = "apply"
    /\ SnapshotAhead
    /\ pc' = IF background THEN "idle" ELSE "restore"
    /\ UNCHANGED <<history, nodeVars, applied, appliedFile, storeVars, background,
                   jobVars, unlinkVars, reach, bounds>>

(* Mutant: a snapshot ahead of the store is not waited for.                *)
ApplyEntries_NoWait ==
    /\ pc = "apply"
    /\ taken' = commit
    /\ LET from == Max({taken, applied}) + 1
       IN  IF from <= commit
           THEN /\ unsynced' = unsynced \o SubSeq(history, from, commit)
                /\ applied' = commit
                /\ pc' = "sync"
           ELSE /\ UNCHANGED <<unsynced, applied>>
                /\ pc' = "inline"
    /\ reach' = Max({reach, applied'})
    /\ UNCHANGED <<history, commit, snap, appliedFile, disk, background, jobVars,
                   unlinkVars, bounds>>

(* apply: take_committed, past what the store already holds, deferred.     *)
ApplyEntries ==
    /\ pc = "apply"
    /\ ~SnapshotAhead
    /\ taken' = commit
    /\ LET from == Max({taken, applied}) + 1
       IN  IF from <= commit
           THEN /\ unsynced' = unsynced \o SubSeq(history, from, commit)
                /\ applied' = commit
                /\ pc' = "sync"
           ELSE /\ UNCHANGED <<unsynced, applied>>
                /\ pc' = "inline"
    /\ reach' = Max({reach, applied'})
    /\ UNCHANGED <<history, commit, snap, appliedFile, disk, background, jobVars,
                   unlinkVars, bounds>>

(* Mutant: the claim is made with the writes still in the kernel.          *)
SyncStore_Skipped ==
    /\ pc \in {"sync", "restoreSync"}
    /\ pc' = IF pc = "sync" THEN "claim" ELSE "restoreClaim"
    /\ UNCHANGED <<history, nodeVars, applied, appliedFile, storeVars, background, jobVars,
                   unlinkVars, reach, bounds>>

(* The writes first, the claim second.  A key with a record in a newer     *)
(* file does not mind what the unlinks leave of the old ones.              *)
SyncStore ==
    /\ pc \in {"sync", "restoreSync"}
    /\ disk' = store
    /\ unsynced' = <<>>
    /\ dead' = dead \ Recorded(unsynced)
    /\ loose' = loose \ Recorded(unsynced)
    /\ revived' = Stale
    /\ pc' = IF pc = "sync" THEN "claim" ELSE "restoreClaim"
    /\ UNCHANGED <<history, nodeVars, applied, appliedFile, background, jobVars,
                   reach, bounds>>

(* Mutant: the index of the next entry is written.                         *)
WriteApplied_Next ==
    /\ pc = "claim"
    /\ appliedFile' = applied + 1
    /\ loose' = {}
    /\ pc' = "inline"
    /\ UNCHANGED <<history, nodeVars, applied, storeVars, background, jobVars, dead, reach,
                   revived, bounds>>

(* write_atomically syncs the store's directory, and so the unlinks in it. *)
WriteApplied ==
    /\ pc = "claim"
    /\ appliedFile' = applied
    /\ loose' = {}
    /\ pc' = "inline"
    /\ UNCHANGED <<history, nodeVars, applied, storeVars, background, jobVars, dead, reach,
                   revived, bounds>>

SnapshotDue == /\ SnapshotEvery # 0
               /\ job = None
               /\ applied >= snap.index + SnapshotEvery

(* Node::begin_compaction: only what the node has handed out.              *)
MaySnapshot == applied > snap.index /\ applied <= taken

(* The end of apply: without a background, a snapshot there and then, and  *)
(* if the store is more than half dead compact, whose unlinks come last.   *)
InlineSnapshot ==
    /\ pc = "inline"
    /\ pc' = "idle"
    /\ IF ~background /\ SnapshotDue /\ MaySnapshot
       THEN /\ snap' = [index |-> applied, data |-> store, stale |-> Stale]
            /\ loose' \in {loose, Dead}
       ELSE UNCHANGED <<snap, loose>>
    /\ UNCHANGED <<history, commit, taken, applied, appliedFile, storeVars, background,
                   jobVars, dead, reach, revived, bounds>>

-----------------------------------------------------------------------------
(* restore: walk the snapshot and the store's keys in step.                *)

(* The writes that give the keys the snapshot's values, in its order.      *)
Writes(keys) ==
    LET order == InOrder(keys)
    IN  [i \in 1..Cardinality(keys) |-> [key |-> order[i], val |-> snap.data[order[i]]]]

(* Mutant: what the snapshot does not have is left in the store.           *)
RestoreStore_KeepsStale ==
    /\ pc = "restore"
    /\ unsynced' = unsynced \o
          Writes({k \in Keys : snap.data[k] \notin {Absent, store[k]}})
    /\ pc' = "restoreSync"
    /\ UNCHANGED <<history, nodeVars, applied, appliedFile, disk, background, jobVars,
                   unlinkVars, reach, bounds>>

RestoreStore ==
    /\ pc = "restore"
    /\ unsynced' = unsynced \o Writes({k \in Keys : store[k] # snap.data[k]})
    /\ pc' = "restoreSync"
    /\ UNCHANGED <<history, nodeVars, applied, appliedFile, disk, background, jobVars,
                   unlinkVars, reach, bounds>>

(* Both restores end here: the applied index follows the synced store, and *)
(* apply carries on.                                                       *)
ClaimRestored ==
    /\ pc = "restoreClaim"
    /\ applied' = IF restore = None THEN snap.index ELSE restore.index
    /\ appliedFile' = applied'
    /\ loose' = {}
    /\ revived' = IF restore = None THEN snap.stale ELSE restore.stale
    /\ restore' = None
    /\ pc' = "apply"
    /\ UNCHANGED <<history, nodeVars, storeVars, background, job, compaction, dead, reach,
                   bounds>>

-----------------------------------------------------------------------------
(* The background jobs.                                                    *)

StartSnapshot ==
    /\ pc = "idle"
    /\ background
    /\ SnapshotDue /\ MaySnapshot
    /\ job' = [index |-> applied, data |-> store, stale |-> Stale]
    /\ UNCHANGED <<history, nodeVars, applied, appliedFile, storeVars, background,
                   compaction, restore, unlinkVars, pc, reach, bounds>>

(* Dropped if the node has a newer one by now.  Installed, it may find the *)
(* store more than half dead.                                              *)
FinishSnapshot ==
    /\ pc = "idle"
    /\ job # None
    /\ job' = None
    /\ IF job.index > snap.index
       THEN /\ snap' = job
            /\ compaction' \in {compaction, IF compaction = "no" THEN "due" ELSE compaction}
       ELSE UNCHANGED <<snap, compaction>>
    /\ UNCHANGED <<history, commit, taken, applied, appliedFile, storeVars, background,
                   restore, unlinkVars, pc, reach, bounds>>

AbandonSnapshot ==
    /\ pc = "idle"
    /\ job # None
    /\ failures < MaxFailures /\ failures' = failures + 1
    /\ job' = None
    /\ UNCHANGED <<history, nodeVars, applied, appliedFile, storeVars, background,
                   compaction, restore, unlinkVars, pc, reach, crashes>>

(* Store::begin_compaction refuses while a restore is out, and the flag is *)
(* cleared all the same: the next snapshot raises it again.                *)
StartCompaction ==
    /\ pc = "idle"
    /\ compaction = "due"
    /\ IF restore = None
       THEN compaction' = "out" /\ dead' = Dead
       ELSE compaction' = "no" /\ UNCHANGED dead
    /\ UNCHANGED <<history, nodeVars, applied, appliedFile, storeVars, background, job,
                   loose, restore, pc, reach, revived, bounds>>

(* Mutant: the store goes on thinking that its compaction is out.          *)
EndCompaction_Forgotten ==
    /\ pc = "idle"
    /\ compaction = "out"
    /\ UNCHANGED vars

(* finish_compaction: the store reads the same, but the old files are gone *)
(* in any order, and only the next sync of the directory makes it sure.    *)
(* The job's own, when it renamed the merged file, did so for those of the *)
(* compaction before.                                                      *)
FinishCompaction ==
    /\ pc = "idle"
    /\ compaction = "out"
    /\ compaction' = "no"
    /\ loose' = dead
    /\ dead' = {}
    /\ UNCHANGED <<history, nodeVars, applied, appliedFile, storeVars, background, job,
                   restore, pc, reach, revived, bounds>>

AbandonCompaction ==
    /\ pc = "idle"
    /\ compaction = "out"
    /\ failures < MaxFailures /\ failures' = failures + 1
    /\ compaction' = "no"
    /\ dead' = {}
    /\ UNCHANGED <<history, nodeVars, applied, appliedFile, storeVars, background, job,
                   loose, restore, pc, reach, revived, crashes>>

EndCompaction == FinishCompaction \/ AbandonCompaction

StartRestore ==
    /\ pc = "idle"
    /\ background
    /\ restore = None
    /\ SnapshotAhead
    /\ compaction # "out"
    /\ restore' = [index |-> snap.index, data |-> snap.data, stale |-> snap.stale,
                   placed |-> FALSE]
    /\ UNCHANGED <<history, nodeVars, applied, appliedFile, storeVars, background, job,
                   compaction, unlinkVars, pc, reach, bounds>>

(* The job's last step, without the lock: its file is renamed into the     *)
(* slot after the old files, and an open would read them all; the sync of  *)
(* the directory covers what a compaction unlinked.                        *)
PlaceRestored ==
    /\ restore # None
    /\ ~restore.placed
    /\ restore' = [restore EXCEPT !.placed = TRUE]
    /\ loose' = {}
    /\ UNCHANGED <<history, nodeVars, applied, appliedFile, storeVars, background, job,
                   compaction, dead, pc, reach, revived, bounds>>

(* finish_restore: the old files go, and the store is the new one.  They   *)
(* are not sure to be gone before write_applied syncs the directory.       *)
FinishRestore ==
    /\ pc = "idle"
    /\ restore # None
    /\ restore.placed
    /\ disk' = restore.data
    /\ unsynced' = <<>>
    /\ pc' = "restoreClaim"
    /\ UNCHANGED <<history, nodeVars, applied, appliedFile, background, jobVars,
                   unlinkVars, reach, bounds>>

AbandonRestore ==
    /\ pc = "idle"
    /\ restore # None
    /\ ~restore.placed
    /\ failures < MaxFailures /\ failures' = failures + 1
    /\ restore' = None
    /\ UNCHANGED <<history, nodeVars, applied, appliedFile, storeVars, background, job,
                   compaction, unlinkVars, pc, reach, crashes>>

-----------------------------------------------------------------------------
(* Crashes.                                                                *)

Stop == /\ crashes < MaxCrashes /\ crashes' = crashes + 1
        /\ pc' = "down"
        /\ unsynced' = <<>>
        /\ job' = None /\ compaction' = "no" /\ dead' = {} /\ restore' = None
        /\ applied' = 0
        /\ commit' = snap.index /\ taken' = snap.index
        /\ UNCHANGED <<history, snap, appliedFile, background, reach, failures>>

(* Some first few of the unsynced writes are kept.  A loose key that none  *)
(* of them recorded is what the files still there say of it: with the file *)
(* of its tombstone unlinked and an older one not, a deleted key is back.  *)
(* The unlinks are no surer for it, as a kill leaves them to the kernel.   *)
Crash ==
    /\ pc # "down"
    /\ restore # None => ~restore.placed
    /\ \E n \in 0..Len(unsynced) :
          LET kept  == SubSeq(unsynced, 1, n)
              plain == After(disk, kept)
          IN  /\ loose' = loose \ Recorded(kept)
              /\ disk' \in {m \in Map :
                    \A k \in Keys : m[k] = plain[k] \/ (k \in loose' /\ m[k] \in Old(k))}
              /\ revived' = (revived \ Named(kept)) \cup {k \in Keys : disk'[k] # plain[k]}
    /\ Stop

(* With the restored file in its slot some of the old files may be there   *)
(* still, and what they say of a key the snapshot does not have is found   *)
(* again: an old value, or none.                                           *)
CrashWithBoth ==
    /\ restore # None
    /\ restore.placed
    /\ disk' \in {m \in Map :
          \A k \in Keys : restore.data[k] # Absent => m[k] = restore.data[k]}
    /\ UNCHANGED <<loose, revived>>
    /\ Stop

(* ReplicatedStore::new, on a node that begins at its snapshot.            *)
Begin(a) ==
    /\ pc = "down"
    /\ applied' = a
    /\ pc' = IF snap.index > a THEN "restore" ELSE "idle"
    /\ UNCHANGED <<history, nodeVars, storeVars, background, jobVars, unlinkVars, reach,
                   bounds>>

Open == Begin(appliedFile) /\ UNCHANGED appliedFile

(* read_applied takes any failure for 0.  A file that is missing, short or *)
(* does not match its checksum stays so until it is written again; an      *)
(* error in reading it may be gone the next time.                          *)
OpenUnread ==
    /\ Begin(0)
    /\ appliedFile' = 0 \/ (TransientErrors /\ appliedFile' = appliedFile)

-----------------------------------------------------------------------------
Jobs == \/ StartSnapshot \/ FinishSnapshot \/ AbandonSnapshot
        \/ StartCompaction \/ EndCompaction
        \/ StartRestore \/ PlaceRestored \/ FinishRestore \/ AbandonRestore

Apply == \/ ApplyMustRestore \/ ApplyEntries \/ SyncStore \/ WriteApplied
         \/ InlineSnapshot \/ RestoreStore \/ ClaimRestored

Learn == \E n \in 1..MaxLog : Commit(n)
Start == Open \/ OpenUnread

Next ==
    \/ Learn
    \/ \E i \in 1..MaxLog : \E h \in i..MaxLog, data \in Map :
           LET stale == {k \in Keys : \A n \in i..h : data[k] # StateAt(n)[k]}
           IN  HoldsPrefix(data, stale, i, h) /\ InstallSnapshot(i, data, stale, h)
    \/ Apply
    \/ Jobs
    \/ Crash \/ CrashWithBoth
    \/ Start

(* The lock is always let go of, a job's thread always gets to its end,    *)
(* the ticker starts a restore that is called for, a process that died is  *)
(* started again and the node hears how far the log is committed.          *)
Fairness == /\ WF_vars(Apply) /\ WF_vars(EndCompaction)
            /\ WF_vars(StartRestore) /\ WF_vars(PlaceRestored) /\ WF_vars(FinishRestore)
            /\ WF_vars(Start) /\ WF_vars(Learn)

Spec == Init /\ [][Next]_vars /\ Fairness

-----------------------------------------------------------------------------
(* The type of every variable.                                             *)
TypeOK ==
    /\ history \in Histories
    /\ commit \in 0..MaxLog /\ taken \in 0..MaxLog
    /\ snap \in [index : 0..MaxLog, data : Map, stale : SUBSET Keys]
    /\ applied \in 0..MaxLog /\ appliedFile \in 0..MaxLog
    /\ disk \in Map /\ unsynced \in Seq(Commands)
    /\ background \in BOOLEAN
    /\ job \in [index : 0..MaxLog, data : Map, stale : SUBSET Keys] \cup {None}
    /\ compaction \in {"no", "due", "out"}
    /\ dead \subseteq Keys /\ loose \subseteq Keys /\ revived \subseteq Keys
    /\ restore \in [index : 0..MaxLog, data : Map, stale : SUBSET Keys, placed : BOOLEAN]
                      \cup {None}
    /\ pc \in {"idle", "apply", "sync", "claim", "inline", "restore", "restoreSync",
               "restoreClaim", "down"}
    /\ reach \in 0..MaxLog
    /\ crashes \in 0..MaxCrashes /\ failures \in 0..MaxFailures

(* Whatever was lost, replayed or restored, a store that says it has       *)
(* applied up to an index holds every write up to it: none is skipped and  *)
(* only a write this replica has seen applied before may be ahead.  Once   *)
(* it has caught up with those it is exactly the state of the log.  One    *)
(* window is excused, key by key: a stop amid the unlinks that end a       *)
(* compaction, of which a deleted key may come back, below the applied     *)
(* index, where no replay deletes it again.  Until the log writes such a   *)
(* key (Stale) the store may have any value for it that the log once gave. *)
StoreHoldsWhatItApplied ==
    pc \notin {"down", "restore", "restoreSync", "restoreClaim"} =>
        HoldsPrefix(store, Stale, applied, Max({applied, reach}))

(* A snapshot, of this replica or a leader, holds the log up to its index: *)
(* the entries it stands for are gone from the log when it is installed.   *)
(* Excused are the keys that such a stop had brought back in the store it  *)
(* was taken of: the snapshot carries them to every replica it reaches.    *)
SnapshotHoldsItsPrefix ==
    HoldsPrefix(snap.data, snap.stale, snap.index, Max({snap.index, reach}))

(* While the replica is up the applied index never goes back, though       *)
(* finish_restore sets it outright: nothing is applied past a snapshot     *)
(* that is ahead of the store.                                             *)
AppliedNeverGoesBack == [][pc # "down" /\ pc' # "down" => applied' >= applied]_vars

(* A replica whose crashes and failed jobs come to an end applies the      *)
(* whole log: a failed restore is tried again, one kept waiting by a       *)
(* compaction is let in, and what was committed meanwhile is not lost.     *)
CatchesUp == <>[](applied = MaxLog)
=============================================================================
