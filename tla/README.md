# A verification project for minicask

minicask is a Bitcask-style key/value store (append-only data files, an index in
memory, hint files, compaction), a RESP server with group commit on top of it,
and a replicated mode built on its own Raft. This directory holds TLA+ models of
all of these down to the file system and the network, TLC runs on small
instances, and TLAPS proofs for every value of the constants.

Paths below are relative to the repository's `src/` (`store.rs` is
`src/store.rs`). The line ranges behind every definition are in `PROJECT.json`,
under `map`.

## The system

| component | state | operations | talks to |
|---|---|---|---|
| `log.rs` LogWriter | file, buffer, offset, written, synced | open, append, flush, sync | owned by the store |
| `store.rs` Store | keydir, readers, writer, active hints, byte counters, the flags of the two jobs | open, get, put, delete, their deferred forms, sync, roll, compact, begin/finish/abandon of background compaction and restore, sync_handle, note_synced | LogWriter, hint files, the directory |
| `hint.rs` | one hint file per sealed data file | write, load | store open and seal |
| `server.rs` | `Durable {point, syncing}` under a mutex, one condvar, held replies per connection | dispatch, must_reach, send, `GroupCommit::wait` | Store under a lock; fsync with no lock held |
| `raft/node.rs` Node | hard state, log, role, votes, commit and applied index, progress per peer, read rounds, snapshot transfer, membership | tick, step, propose, propose_membership, campaign, read_index, compaction of the log | Storage; returns messages to send |
| `raft/storage.rs` DiskStorage | hard state file, entries file, snapshot file, part files | save, append, truncate, install, recover and reconcile at open | Node |
| `replicated.rs` ReplicatedStore | applied index (in memory and on disk), restore, snapshot and compaction jobs | step, tick, apply, restore, start/finish/abandon of each job | Node and Store |
| `cluster.rs` | proposal queue, replica lock, change count and condvar, address book | write, read, membership commands, ticker, peer threads | ReplicatedStore, TCP |
| `resp.rs`, `raft/wire.rs`, `record.rs`, `crc.rs` | none | encode, decode | |

What is hard in it: merges that run beside writes and are finished later; what a
kill or a power cut leaves between any two file operations, those of a recovery
included; threads that share one fsync, one batch of proposals or one change
count, with no lock held in between; jobs that hold a snapshot while the replica
moves on; and consensus over messages that are late, repeated, reordered or lost,
with restarts and a membership that changes. `PROJECT.json` lists these hazards
line by line, with the properties that cover each, and says which are not covered.

What makes each part correct:

* log writer: an append adds its record at the end, and every record can be read
  back from the buffer or the file;
* store: a read sees the newest write; recovery restores a prefix of the writes
  that contains all that was promised; open never refuses what a crash left;
* group commit: no acknowledgement before durability, one fsync at a time, every
  waiter answered;
* disk storage: each call takes effect once, and for good when it returns;
* Raft: one leader per term, matching logs, committed entries are never lost,
  state machines apply the same entries, snapshots arrive whole, reads are fresh;
* replicated store: the store holds every write up to its applied index, whatever
  was lost, replayed or restored (but for a key that finding 1 brings back), and in
  the end catches up;
* cluster node: an answer goes to the client it belongs to, no wake-up is lost, an
  OK is only sent for a committed entry (which is not so: see Findings).

## How the modules fit together

    Store ----- LogWriter                     AtomicStorage  (what a node relies on)
      |                                             ^
      | what a crash may take of it                 | Implements
      v                                       DiskStorage    (the files)
    Replicated  (one replica: log to store)         :
      ^                                             : what survives Restart
      | applied = committed                   Raft  (nodes and network) --- RaftNode
    Cluster     (threads around a replica)

`Raft` restarts a node on exactly what it had written: that is `AtomicStorage`, and
`DiskStorage` shows that the files provide it. `Replicated` takes from `Store` that
unsynced writes are lost from the last one back, that a compaction does not change what
a running store reads, and that a stop amid the unlinks at its end can (finding 1); from
`Raft`, one agreed log of which a node learns more and more. `Cluster` takes from `Raft`
what a leader, a follower and a read may see.
`GroupCommit` takes from `Store` that a sealed file is durable.
`Ordered` has the members of a set of numbers in order, for `Cluster`, `Replicated` and the
proofs. A module `XProofs` extends `X` and proves about it (`RaftLogProofs` goes on from
`RaftProofs`); see Proofs.

### `LogWriter.tla`: `log.rs`, `record.rs`

Pure operators over a writer record: `OpenWriter`, `Flush`, `SyncData`,
`AppendRecord`. A file is a sequence of records, one unit long each; `durable` is
how many of them a power cut must leave (the environment's), `synced` what the
program believes. Byte layout and the CRC are abstracted: a torn record is one
after which the scanner stops.

### `Store.tla`: `store.rs`, `hint.rs`

The directory (`dir`, `data`, `durable`, `torn`, `hints`) is kept apart from the
process (`keydir`, `readers`, `w`, `activeHints`, counters, `merge`), so that
`Kill` and `PowerCut` can take the second and part of the first. `Kill` may leave
part of the buffered write in the kernel; `PowerCut` may take anything not synced,
file by file, and leave half a record.

* `Put`, `Delete`, `Sync`, `Open` are one call each, with the roll, the sealing
  sync, the hint and the counters in the same step. `Reaches` gives each write
  the policy's reach or that of the deferred forms.
* `compact` holds the store for its whole length, but a crash may fall between
  its file operations, so it is a sequence of steps (`BeginCompact`, `CopyRecord`,
  `SyncMerged`, `UnlinkHint`, `UnlinkData`, `EndCompact`) during which no client
  step is enabled.
* The background jobs are `BeginCompaction`/`BeginRestore`, steps that copy, then
  `PlacePart`, `FinishCompaction`/`FinishRestore` and the unlinks; clients run
  between begin and finish. `Abandon` models a job that fails before its rename.
* `history` and `kern` are ghosts: the contents clients have made the store hold,
  and what was promised to survive a power cut (from the first of `history`) and a
  kill (`kern`). An open after a power cut or an excused stop begins a new history:
  what it found is promised to a kill, and to a power cut what it would have found had
  the newest file ended where the disk's copy of it ends.
* `excused` records that a stop fell in one of three windows, which the two
  recovery invariants leave out: old files unlinked out of order, the window that
  `begin_restore` documents, and a power cut while a file below the newest is
  unsynced. The first and the third are the subject of two runs of their own
  that show what they lead to (see Findings); outside them recovery is exact.

### `GroupCommit.tla`: `server.rs` with the store's sync handle

One process per connection; a step is what happens between two lock operations or
during one system call. A `Point` is a file id and an offset, as in
`Store::append_point`. `appended`, `flushed` and `disk` say how far the log has
got; `point`, `syncing` are the mutex's contents; `pc`, `by`, `own`, `handle`
belong to a connection. That files below the active one are durable is `Store`'s
`SealedFilesAreDurable`, so the two modules meet there. `FailureDrops` chooses
between two kernels: after a failed fsync dirty pages stay dirty, or are marked
clean and lost. `Restart` is a kill of the server followed by `Server::bind`.

### `AtomicStorage.tla` and `DiskStorage.tla`: `raft/log.rs`, `raft/storage.rs`

`AtomicStorage` is the abstract specification: one call at a time, done when it
returns; a crash in the middle leaves it done or not done, or an append done for
its first few entries. `DiskStorage` is the code, one action per file system step.
`kern` is what the kernel has of the three files. `before` holds, per name, what a
rename that no directory sync has followed may still be undone to; `flushed` the
contents that writes in place may have left. `Kill` keeps `kern`; `PowerCut` picks
one content per name. `FailWrite` is a write that is cut short. `Open`, `SyncCut`,
`Reconcile` and the rewrite that may follow are steps too, so recoveries are
interrupted as well.

The refinement mapping: while a call runs, `stored` is what memory said when it
began (`entry0`) and `running` is the call; idle, it is memory; with the process
down or an open under way, it is what an open would make of the files
(`Recovered`). `Implements == Atomic!Spec` is a PROPERTY of the run.

### `RaftNode.tla` and `Raft.tla`: `raft/node.rs`, `raft/log.rs`, `raft/message.rs`

`RaftNode` has a node as a record of its fields and each call and handler as a
function to the node after it and the messages it returns; `Raft` has the nodes,
the network and one action per call. What goes to `Storage` is durable before the
call returns its messages; `CrashAfterCut` is the one place where a handler writes
the log twice. `Applied` moves `applied` with the commit index, as
`ReplicatedStore::step` and `tick` do before they let go of the node. Between calls
an election timer is always still running (it fires inside `tick`), so the lease
that `step` checks is held exactly while a leader is known.

* Snapshots: a node keeps the entries its snapshot covers, so that properties can
  name them, but nothing reads an index at or below `snap.index`. A snapshot's bytes
  are `Pieces` pieces, marked with who wrote them: two nodes' snapshots of the same
  index need not have the same bytes.
* Reads: a read remembers in `asked` what had been committed anywhere when it began.
* Membership: voters and learners; in force from the moment it is in the log;
  `departing` are those still sent the log until their removal commits.

The network holds at most `inFlight` messages. A delivered message stays and may be
delivered again; one that is never delivered is lost; when the set is full any
messages give way. `elected` and `committed` are ghosts. `Batch` is
`max_append_bytes`, counted in entries.

Bounds come as `Scenarios`: records that say how many ticks, campaigns, proposals,
reads and so on may happen. `Init` picks one, so one run asks several questions
without their product. `MCRaft` adds three initial states that take more steps from
`Init` than a run can make: two failed leaders (`InitDivided`), an established leader
with a node that has not heard of it (`InitLed`), two leaders who each change the
membership (`InitChanging`). `Next` reaches the first two as they stand. The third it
reaches with a higher round number: for the new leader to know of one entry on the other
followers without having sent them its no-op in the same batch, a read round must have
come before. `InitChanging` starts that number at 0, and its scenario has no reads.

### `Replicated.tla`: `replicated.rs`

The log the cluster agrees on is `history`; `commit` is how far this node has learnt
it, `taken` where `take_committed` goes on from. `disk` and `unsynced` are the store.
`apply` is a run of steps (entries, sync, claim, inline snapshot) because a crash may
come between any two; `pc` is where the holder of the replica's lock is. Jobs are
started and finished with the lock and run without it. `background` chooses between
a cluster node and a replica without threads. `CrashWithBoth` is the window that
`Store::begin_restore` documents: old files and the restored file both there.

The other window is finding 1. A merge copies nothing of a deleted key, whose tombstone
stays in the old files with what it hides: `dead` are these keys while a background
compaction is out, less those written since. When the old files are unlinked, by
`finish_compaction` or by the `compact` that follows an inline snapshot, they become
`loose`, until a sync of the directory (with the applied file, or a job's rename) makes
the unlinks sure. `Crash` may then give a loose key any value it had in the log. The
ghost `revived` has the keys for which it did, until the log writes them again or a
restore replaces the store; each snapshot has the ones it was taken with (`stale`), a
leader's too. `delete_with` writes no tombstone for a missing key, so a delete does not
make a loose key safe (`Recorded`).

`reach` is a ghost. A replay starts from an applied index below what the store has,
so half way through, and in a snapshot taken then, some keys already hold a later
write; `HoldsPrefix(m, stale, i, j)` says exactly that, and of a stale key only that the
log once gave it the value.

### `Cluster.tla`: `cluster.rs`

One process per client. `submit` is the queue (`Submit`, `TakeAnswer`, `TakeQueue`,
`Sleep`, `Propose`, `Publish`), `wait_for` is `Look`, `Check`, `Compare`, `Timeout`.
The replica is its term, log, commit index and whether it leads; what the cluster
does to it is `Advance`, `Follows`, `StepDown`, `Elected` and `ReadAnswered`, each
with the address book after it (`PeerStep`) and, later and without the lock,
`Changed`. `placed`, `agreed`, `floor` and `readAt` are ghosts. `Casts` says which
clients take part and how many steps the rest of the cluster takes.

### `MCStore`, `MCGroupCommit`, `MCDiskStorage`, `MCReplicated`, `MCCluster`, `MCRaft`

Symmetry sets for the safety runs, the histories, casts and scenarios, and Raft's
initial states.

## Runs

| run | instance | shows |
|---|---|---|
| `store_merge` | 2 keys, 2 values, 4 writes, 1 merge, no crash | reads see the newest write, the counters stay exact, files are only appended to while merges run beside writes |
| `store_crash` | 2 keys, 1 value, 3 writes, 1 merge, 2 stops | promises are kept by recovery, open is never refused, hints are never ahead, sealed files are durable |
| `store_unlink_order` | 1 kill | violation: a deleted key comes back |
| `store_compact_power` | policy `Kernel`, 1 power cut | violation: open refuses the directory |
| `group_commit` | 3 connections, 3 writes, 1 failed fsync, 1 kill | acknowledged writes are durable, one fsync at a time, what is believed synced is, every waiter is answered |
| `disk_storage` | 3 indexes, 2 terms, 2 hard states, appends of 2, 2 snapshots at once, any number of power cuts, 1 kill that leaves something unsynced | the files implement `AtomicStorage`; open is never refused; part files are never shared or left behind |
| `replicated` | 2 keys, logs of 3, 2 crashes, 1 failed job, both modes | the store holds what it has applied and snapshots hold their prefix, but for keys that a stop amid a compaction's unlinks brought back; applied never goes back, the replica catches up |
| `cluster` | up to 3 writers, a membership change, a read; up to 3 steps of the cluster | every answer to its owner, one proposer, fresh reads, no write left in the queue, no wake-up lost |
| `cluster_write_lost` | 1 writer, 1 step | violation: OK for a write that was replaced |
| `raft_core` | 3 servers (also 2 voters), up to 4 terms, 2 messages in flight, 1 restart | Raft's safety properties for elections and replication |
| `raft_whole` | 4 servers, 3 terms, 2 snapshots, 2 reads, changes of membership | the same with snapshots, and that progress is real, snapshots are whole, reads are fresh |
| `raft_read_restart` | 3 servers, 2 reads, 1 restart | violation: a read is answered with an index from before it |

Each bound is a named constant and a guard. They are chosen so that the case each
property is about occurs. `MaxFile = 2` makes two writes fill a file, so four
writes roll, merge and overwrite; `MaxPending = 2` makes the buffer overflow; two
stops give a power cut after a kill; three connections give one that syncs, one
that waits and one that appends meanwhile. In `disk_storage` three indexes give a
log that a snapshot covers in part, wholly or not at all, with an equal or another
term where it ends. In `replicated` three entries on two keys give a write, an
overwrite or delete and a snapshot between them, so that a compaction after the delete
is stopped and the next snapshot has the key that came back; two crashes give one inside
the recovery from another. In `cluster` the cast of three writers with one too large
gives a batch with a refusal in the middle; two steps give a lost term and a commit.
In Raft two to four terms give an election over a log that a former leader left, and
four servers a change of voters in which two majorities could miss each other. For
every property of a passing run `PROJECT.json` names a mutant of the code (a dropped
guard, a missing reset, a wrong file) under which TLC finds the property violated in
the same instance.

Deadlock is checked in `disk_storage` and `cluster` (which has a step for the state
in which every client is done). `CHECK_DEADLOCK FALSE` in the others: clients may
stop asking, and the bounds end every behaviour.

Fairness.

* `GroupCommit`: weak fairness of each connection's own steps inside `wait`, and
  nothing of clients. The mutex is never held across a system call, the store's lock
  is held for the length of one command, and an fsync returns, with or without an
  error. The condvar's wake-ups are not assumed: a sleeper moves only when
  `notify_all` (in `Settle` and `SettleFailed`) or a spurious wake-up moves it, and
  no fairness is assumed of the latter.
* `Cluster`: weak fairness of each thread and of `Changed`, which a thread that has
  stepped the replica always reaches. The deadline of `wait_for` is an action with
  no fairness: liveness does not rest on timeouts.
* `Replicated`: the lock is let go of, a job's thread gets to its end, the ticker
  starts a restore that is called for, a dead process is started again, and the node
  goes on hearing how far the log is committed. Crashes and failing jobs are bounded.

## Proofs

Eight modules hold theorems, each for every value of the constants that the named
ASSUMEs allow: any sets of keys, values, clients and connections, any file and
buffer size, any bound. No invariant below was inductive as the run states it; each
section names the strengthening. Every strengthening was first checked by TLC on the
instances of the runs, and the proof has one lemma per action (for `Raft`, per
handler).

`StoreProofs` begins with the log writer, for any that is well formed (`WriterOK`):

* `AppendAddsTheRecord`: whatever is buffered and however far the append has to
  reach, the sequence of all records grows by exactly that record, the writer stays
  well formed, and what the reach promises holds.
* `EveryRecordIsReadable`: at every offset the read path finds the record appended
  there, in the buffer or in the file.

Of the store it proves `TypesAreKept`, `ReadsAlwaysSeeTheNewestWrite`, `HintsAreNeverAhead`,
`SealedFilesAreAlwaysDurable`, `RecoveryIsAlwaysAccepted`, and the action property
`FilesAlwaysOnlyGrow`, all from one invariant `Inv`. A read depends on the index,
the index on what a merge copied, a copy on the files, and the files on what crashes
left, so the parts are only inductive together:

* `FilesInv`: no file has more on the disk than in the kernel, and its hint lists
  records at its start that are on the disk. So `hint::load` and the scan give the
  entries of the whole file (`LoadedIs`), and `Open` an index into it.
* `OpenInv`: an open store reads every file but the merge's own; the active file is
  the newest that is read, its writer is well formed, and `active_hints` lists it;
  every other file is on the disk, unless `compact` holds the store.
* `StoppedInv`: what is torn is the newest file, outside the windows of `excused`.
* `MergeInv`: the merge's file comes after all it replaces and before the active
  one, and nobody reads it yet. `CopyInv`: each copy has the value of the record the
  merge read, and a key that still points at a file to be unlinked still points
  where the merge read it; this is what `keydir[k] = merge.view[k]` in
  `finish_compaction` decides. `IndexInv`: the index points at what was last written.
* `BytesInv`: `old_bytes` is never more than `disk_bytes`, a `u64` in the code.

`PromisesAreAlwaysKept` (`RecoveryKeepsPromises`) is the store's main promise: what a
stopped store would open with is the contents after a prefix of the writes that has
every write promised to survive that stop. `Inv` only says that the index points into
the files, so this needs a second invariant `RecInv`, kept by every action given `Inv`
before and after it:

* `Holds(F, c)`: replaying the files `F` gives the contents `c`. It is stated by places
  of records (a key's last record decides, and one that no later tombstone erased may
  not come back to life), not by a recursion over them, and files hold only one contents
  (`OneHolding`); `ReplayedFacts` shows that `open_with`'s replay, through hints or not,
  finds it.
* `Promises`: a power cut leaves some part of the newest file's unsynced tail. For every
  length it may leave there is a place in `history` whose contents the files then hold;
  the more is left, the later the place; with all of it, the last, and with all that the
  kernel has, one no earlier than what was promised to survive a kill. So each write,
  sync, rollover and stop moves a monotone map, and the promise is that one exists.
* A merge keeps it through every step in which old and new files stand side by side:
  `ViewInv` (what it reads is the index of all before its slot), `OutInv` (its file has
  one live copy of each key copied), `CompactInv`, `SlotInv` and `RestoreInv`. While the
  old files are unlinked `DeadInv` is the point: a record still there is erased by a
  tombstone also still there, or has a copy, or a newer file went before it, which is
  the unlinking out of order that `excused` names (`Drop`, `Shadow`).
* `DownInv` is `Promises` of a stopped store, and `Open` begins a history in which it
  holds again.

`GroupCommitProofs`: `AckedWritesAreDurable`, `PointIsAlwaysDurable`,
`NotedIsAlwaysDurable`, `TypesAreKept`, `OneFsyncAtATime`.

* A reply is sent because `by <= point`, and after a restart `point` may be ahead of
  the disk. `IInv` adds the order of the log (`disk <= flushed <= appended`), that a
  handle under fsync is in the kernel and one that has returned is on the disk
  (`HandlesInv`), and that no connection's own record lies between the disk and the
  point: it was appended after the point was set, or a sync that covered it raised
  the point (`OwnInv`).
* The first three are for a kernel that keeps dirty pages after a failed fsync
  (`FailureDrops = FALSE`; see Observations for the other), the last two for both.

`ReplicatedProofs`: `TypesAreKept`, `AppliedIsMonotone`, `TheStoreHoldsItsPrefix`,
`TheSnapshotHoldsItsPrefix`.

* `IndexInv` orders the indexes (snapshot, claimed, applied, taken, committed) at
  each place the lock's holder can be. `DataInv` says what each copy of the data
  holds: the store in memory and on the disk, the snapshot written, the one being
  written and the one being restored are each a prefix of the history, overtaken by
  writes up to `reach` at most (`ReachInv`, `StoreInv`, `DiskInv`, `SnapshotsInv`), each
  with its own set of keys that a stop amid a compaction's unlinks brought back. A crash
  adds to the disk's set just the keys it changed; applying takes out the keys written.
  That a replay from an older index repairs this rests on `AfterLast`: a key's value
  is that of its last command.
* The last two assume `~TransientErrors`; see Observations.

`ClusterProofs`: `TypesAreKept`, `AnswersAlwaysReachTheirOwners`,
`OneProposerAtATime`, `ReadsAlwaysSeeWhatWasCommitted`.

* `QueueInv`: every ticket given out is in the queue, in the batch or in the answers,
  once, and it still is the place of its own client; a batch is nonempty exactly while
  `busy`. `ReadInv`: the index confirmed for a read is at least what the cluster had
  committed when it was asked, and the store it is answered from has reached it.

`DiskStorageProofs`: `TypesAreKept`, `EverySinkHasItsPart`, `NoOpenIsRefused`, and the
refinement `TheStorageIsAtomic`: every step of `DiskStorage` is a step of
`AtomicStorage` or leaves its variables unchanged.

* `FilesInv` says what the three files hold at each step of a call, `DurableInv` what
  a power cut can leave of them, `CrashInv` that all such remainders are read back as
  the state before the call or after it (or, for an append, after some of its
  entries). The last two theorems assume `~PowerAfterKill`; see Observations.

`RaftProofs`: `SnapshotsAreAlwaysWhole`, for every number of nodes and pieces, every
scenario, restarts and changes of the membership included; and `ElectionsAreSafe`,
for every number of nodes and every set of voters, in a cluster whose membership
nobody asks to change (`sc.changes = {}` in every scenario).

* Neither a vote nor a piece can be followed from its sender to where it is counted:
  in between it may be in flight several times, and the sender may have restarted or
  moved on. So the invariant speaks of what any place of the system still shows.
  `Voted(v, t, c)`: v's storage, an answer in flight, c's count or an election c won
  shows that v voted for c in term t. `Gave(f, i, w)`: f's storage, a piece in flight
  or what someone has put together shows that f had a snapshot at i that w wrote.
  `OneVote` and `OneFile` say that two such signs never disagree, `NotLater` and
  `NotAhead` that they are never ahead of the storage of the node they are about,
  which is why a vote or a snapshot that is new there contradicts none of them.
* `Step` is what every handler does to its node: the term and the snapshot only move
  forward, a vote in a term stays, and votes and pieces are its own, those it had, or
  the one just delivered. Each handler is proved to be a `Step` that sends only what
  its node's storage shows (`Sends`), a restart too, also after a log cut short; then
  any `Step` of one node keeps the invariant (`MovesKeepInv`).
* `Inv(M, E)` is parameterised by the memberships that may be in force and those an
  entry may hold. With both `Membership`, it gives the first theorem; without changes
  only the initial membership is ever in force, two majorities of it share a voter,
  and that gives the second.

`RaftLogProofs`: `StateMachinesAgree`, `LeadersAreComplete`, `LogsAlwaysMatch`,
`MajoritiesAlwaysHoldCommitted` and `ProgressIsAlwaysReal`, for every number of nodes
and every set of voters, with restarts (also between the truncation and the append of
one message), compactions, snapshots and any network, in a cluster whose membership
nobody asks to change.

* None of the five is inductive, and what makes them so is not in the model's
  variables: what a node acknowledged in an old term is nowhere to be seen once it has
  restarted, yet it is why the entry is committed. So the invariant says that a history
  `G` exists (`Logged`): the longest log of each term's leader, how far each node ever
  acknowledged it (`took`), who led and who stood in which term and with which log, and
  what leaders counted committed. The history is no variable of the model; each step is
  shown to extend it (`Extends`), and old facts to stay true as it grows.
* `HistoryOK`: the leaders' logs are `Sound` (up to any entry, a log is that of the
  leader of the entry's term), and `Safe`: an entry that a majority acknowledged in its
  term, or still could, is in the log of every later leader. `Chosen` is the first of
  these and `Never` rules out the second; they exclude each other because two
  majorities meet (`ChosenIsKept`).
* `NodeOK`: a node's log is sound and is its leader's as far as it acknowledged it; what
  it acknowledged in any term it still has, unless a later leader overruled it
  (`Persists`); what it counts committed, applied or folded into a snapshot is a prefix
  that was chosen (`Settles`); a candidate's voters each endorsed the log it stands with
  (`Stands`); a leader's `match` never exceeds what was acknowledged (`Leads`).
  `MessageOK` says the same of messages: an append or a snapshot is a piece of its
  leader's log, a vote endorses, an answer counts no more than `took`.
* Every handler is proved to leave such a history (the `...Fares` lemmas, one per
  handler), of which six kinds of step suffice: a node rests, moves to a later term,
  follows the leader of its term, is elected, lengthens its log or counts a commit
  (`RestingKeeps`, `AdvancingKeeps`, `FollowingKeeps`, `ElectionIsSafe`,
  `ReigningKeeps`, `CommittingKeeps`). The election is the heart: a majority that
  endorses the candidate's log, each member of which either has an entry or saw it
  overruled, keeps `Safe`. That nobody else leads the term (`Alone`) is
  `ElectionsAreSafe`.
* `HistoryOK`, `NodeOK`, `MessageOK` and what is recorded of commitments were first
  checked by TLC, with the history as a variable updated by each action.

`Ordered` and `OrderedProofs` hold what the others share: the members of a finite set
of numbers in order, and that every nonempty bounded set of numbers has a greatest.
Their induction is over a set of numbers with no operator as a parameter
(`SetInduction`, from the well-foundedness of the order).

The proofs rest on the ASSUMEs of the modules and on the library's theorems about
sequences, functions and finite sets. The ASSUMEs bound sizes from below and make
the bounds numbers; `KeysAssumption` in `Store` says that there are finitely many
keys, which the `u32` of a key's length implies (it makes `live_bytes` a number).

Only model-checked:

* liveness (`EveryWaiterIsAnswered`, `EveryWriteLeavesTheQueue`, `DecidedIsAnswered`,
  `CatchesUp`): fairness is out of the prover's reach;
* `StatsAreExact`: cardinalities of unions over the files that a merge rearranges;
* `ElectionSafety` while the membership changes: that majorities of neighbouring
  memberships meet needs that a leader proposes the next only once the last is
  committed, hence what a commitment means while they change;
* `StateMachineSafety`, `LeaderCompleteness`, `LogMatching` and `ProgressIsReal` while
  the membership changes: they need the former, and it needs them;
* `ReadsAreFresh`: a read is fresh because the round that confirms it was heard by a
  majority after it began, of which `Logged` says nothing; and it holds only of
  processes that do not restart (finding 4), while the proofs are about those that do;
* `TypeOK` of `Raft`. Its types are part of `NodesAreWellMade` and
  `MessagesAreWellMade`, which are proved for every scenario, and that nothing committed
  or applied is beyond the end of the log is part of `Logged`; that `applied` is never
  behind the snapshot, and the bookkeeping of read rounds and departing nodes, are not
  proved.

## Findings

Each is a run that expects a violation; `PROJECT.json` quotes the line it
contradicts.

1. `compact` and `finish_compaction` unlink old files in `HashMap` order. Killed
   after a file with a tombstone is gone and before an older file with the value
   is, the next open brings the key back. In a replica the delete is below the applied
   index, so no replay repairs it, and the next snapshot carries the key to others. The
   run `replicated` has this window, and its properties excuse the keys it brings back
   (`Stale`, `snap.stale`) and nothing else.
2. `compact` flushes the old active file, does not sync it, and creates the merged
   file above it. A power cut before the end can leave a torn file that is not the
   newest, and open refuses it as corrupt. With policy `EveryWrite` the deferred
   writes give the same.
3. `write` in `cluster.rs` looks at the applied index before the term. One message of
   a new leader can replace the proposal and commit its own entry at that index, and
   the client is told OK for a write that is nowhere.
4. Read ids restart from 0 with the process, and `step` takes a `ReadIndexReply` by
   its id alone: one from before the restart answers a new read with an old index,
   and the read can miss an acknowledged write.

## Observations

Each of these is a choice of a constant or a property under which a run above would
fail; the runs make the other choice, so that they can say what holds otherwise.

* `Server::bind` takes what it read back as durable; after a kill it may be in the
  kernel only. `PointIsDurable` is stated for a server that has not been restarted.
  No acknowledgement of the same process depends on it: `AckedWritesAreDurable`
  includes restarts.
* With `FailureDrops = TRUE` (a kernel that marks pages clean when fsync fails)
  `AckedIsDurable` fails: the next waiter's retry succeeds and acknowledges writes
  that are not on the disk.
* With `PowerAfterKill = TRUE` `DiskStorage` does not implement `AtomicStorage`. A
  killed process leaves a rename or a write in the kernel; the next one reads it
  back, goes on from it without syncing it, and a power cut takes it away after all.
* With `TransientErrors = TRUE` `StoreHoldsWhatItApplied` fails. `read_applied` takes
  any failure for 0 ("always safe"). If reading fails once, the replica restores an
  older snapshot and is killed, the next start believes the file that is still there.
* `follow_membership` compares only the index of the membership. A change of another
  leader at the same index as the one it replaces leaves the address book as it was,
  and a new member is not reached until a later change.
* A follower's commit index can move back, below what it has applied (`node.rs`,
  `leader_commit.min(last_covered)`). Nothing is applied twice, and
  `StateMachineSafety` holds.
* The comment at the test helper `leader_with` in `raft/node.rs` says that the
  current-term rule of `maybe_commit` cannot matter because every append carries the
  new leader's no-op. With batches limited by `max_append_bytes` it does matter:
  dropping the rule violates `LeaderCompleteness` in `raft_core`.

## Assumptions

* In `Store` creating, renaming and unlinking files take effect in order and survive a
  power cut. The code syncs the directory when a job renames its file, with each hint
  and with the applied file, but not after a new data file or an unlink. `Replicated`
  assumes it of new files and of the rename of the applied file, not of unlinks;
  `DiskStorage` does not assume it.
* Records have one length; file size and buffer size are counted in records.
* `Store::open_with` is one step. A crash inside it repeats it on the same files.
* I/O errors: a hint that cannot be written, a job that fails before its rename, a
  failed fsync of a sync handle, an append of the Raft log that is cut short in a
  tick or a step, an applied file that cannot be read. Others are not modelled.
* An entry is its index and term in `DiskStorage`; two nodes' snapshots of one index
  stand for the same state, with different bytes.
* A tick on which two timers run out is two ticks, one after the other.
* In `Cluster` what is committed is applied in the same step, and `submit` is cut
  into more steps than the queue's lock allows: more orders, never fewer.
* In `Raft` no restore is out, so what is committed is applied in the same call.
* Left out where it makes no difference to what is checked: the flush inside an append
  when the buffer is full (`log.rs`, `MAX_PENDING`), in `GroupCommit`; which
  of its refusals `recover` gives for a log that no crash leaves, in `DiskStorage`
  (`Whole`); that `propose_membership` refuses a member listed twice, so `RaftNode`
  proposes sets; a restart of `Raft` between the hard state and the write that follows
  it in one `step`, and with part of an append; a single node's commit inside
  `propose`, which in `Cluster` is a later step.
* With `PowerAfterKill = FALSE` a process killed with unsynced state rules out every
  later power cut, also after syncs that would cover that state.

## Not modelled

`raft/wire.rs`, `resp.rs` and the byte layout of `record.rs` and `hint.rs` have no
state and no order of events; the binaries parse arguments. `glob_match` of
`server.rs` is a pure function. The sockets of `cluster.rs` are Raft's network:
what its reconnects and full queues do is lose and repeat messages. Liveness of
elections is not stated: it rests on randomised timeouts, which weak fairness does
not describe.

## Plan

Done: every part of the system that keeps state, and the theorems above. Next:

1. The safety of `Raft` while the membership changes: `HistoryOK` with the membership
   that each log of the history carries in place of the one set of voters.
2. An abstract map with crashes (some prefix that holds the promises) as the
   specification that `Store` implements.
3. I/O errors inside the store's append and its jobs.
