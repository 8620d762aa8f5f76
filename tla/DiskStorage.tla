---------------------------- MODULE DiskStorage ----------------------------
(***************************************************************************)
(* src/raft/storage.rs with the EntryLog of src/raft/log.rs: a Raft node's *)
(* term and vote, its log and its snapshot, held in three files.           *)
(*                                                                         *)
(* Every call is a run of file system steps, and a process kill or a power *)
(* cut may come between any two of them.  A kill leaves what the kernel    *)
(* holds (kern).  A power cut leaves, for each name, a content that may    *)
(* have reached the disk: what the name meant before a rename that no      *)
(* directory sync has followed (before), or, for the entries file, which   *)
(* is also written in place, a content its writes may have left (flushed). *)
(*                                                                         *)
(* A file is a sequence of records, so an offset is a number of records;   *)
(* Torn stands for a record of which only a part was written.  A snapshot  *)
(* file is its header: its data is synced with the header and goes where   *)
(* the header goes.                                                        *)
(***************************************************************************)
EXTENDS Naturals, Sequences, FiniteSets, Functions

CONSTANTS
    HardStates,      \* what a node may save of its term and vote
    DefaultHard,     \* HardState::default()
    Terms,           \* terms of entries and snapshots
    MaxIndex,        \* bound: the highest index used
    MaxBatch,        \* bound: entries in one append
    MaxParts,        \* bound: snapshots begun between two opens
    MaxKills,        \* bound: kills that leave something unsynced between
                     \* two power cuts
    NoCall,          \* no call is running
    Torn,            \* a half-written record
    PowerAfterKill   \* whether the power may fail while what a killed
                     \* process had not synced is still in the kernel

ASSUME DefaultHardAssumption == DefaultHard \in HardStates
ASSUME BoundsAssumption == MaxIndex \in Nat /\ MaxBatch \in Nat /\ MaxParts \in Nat /\ MaxKills \in Nat
ASSUME TermsAssumption == Terms \subseteq Nat \ {0}

Entry == [index : 1..MaxIndex, term : Terms]
NoSnapshot == [index |-> 0, term |-> 0]
Meta == Entry \cup {NoSnapshot}

(* What a file may hold, what the storage keeps in memory, a snapshot being*)
(* written, and the calls made of it.                                      *)
File == Seq(Entry \cup {Torn})
Memory == [hard : HardStates, base : Meta, log : Seq(Entry), end : 0..MaxIndex]
Sink == [part : 1..MaxParts, meta : Entry]
Calls ==   [kind : {"save"},     hard : HardStates]
      \cup [kind : {"append"},   entries : Seq(Entry)]
      \cup [kind : {"truncate"}, index : 1..MaxIndex]
      \cup [kind : {"install"},  sink : Sink]

ASSUME TornAssumption == Torn \notin Entry

VARIABLES
    kern,      \* [hard, snap, ents]: the files, as the kernel has them
    before,    \* per name, contents a lost rename would bring back
    flushed,   \* contents the entries file itself may have on the disk
    mem,       \* the DiskStorage: [hard, base, log, end]
    pc,        \* the next file system step
    call,      \* the call in progress, or NoCall
    entry0,    \* mem when that call began
    sinks,     \* snapshots being written: [part, meta]
    parts,     \* the part files in the directory
    nextPart,  \* DiskStorage.next_part
    kills      \* processes that died leaving something unsynced since
               \* the power last failed

vars == <<kern, before, flushed, mem, pc, call, entry0, sinks, parts, nextPart, kills>>

files == <<kern, before, flushed>>
sinkVars == <<sinks, parts, nextPart>>

Opening == {"down", "cut", "reconcile", "corrupt"}

NoMem == [hard |-> DefaultHard, base |-> NoSnapshot, log |-> <<>>, end |-> 0]
NothingBefore == [hard |-> {}, snap |-> {}, ents |-> {}]

-----------------------------------------------------------------------------
(* EntryLog                                                                *)

LastIndex(m) == IF m.log = <<>> THEN m.base.index ELSE m.log[Len(m.log)].index

(* Mutant: an index at or below the base underflows.                       *)
Keep_NoFloor(m, index) == index - m.base.index - 1

(* EntryLog::truncate_from: how many entries stay.                         *)
Keep(m, index) ==
    IF index <= m.base.index THEN 0
    ELSE IF index - m.base.index - 1 < Len(m.log) THEN index - m.base.index - 1
    ELSE Len(m.log)

(* term_at(meta.index) == Some(meta.term), for an index above the base.    *)
Holds(m, meta) ==
    LET at == meta.index - m.base.index
    IN  at \in 1..Len(m.log) /\ m.log[at].term = meta.term

(* EntryLog::compact, when meta is newer than the base.                    *)
Compact(m, meta) ==
    [m EXCEPT !.base = meta,
              !.log  = IF Holds(m, meta)
                       THEN SubSeq(@, meta.index - m.base.index + 1, Len(@))
                       ELSE <<>>]

-----------------------------------------------------------------------------
(* What DiskStorage::open makes of the files.                              *)

(* recover: the records before the first half-written one.                 *)
Whole(ents) ==
    SubSeq(ents, 1, CHOOSE n \in 0..Len(ents) :
                        /\ \A i \in 1..n : ents[i] # Torn
                        /\ n < Len(ents) => ents[n + 1] = Torn)

(* The entries begin above the end of the snapshot: open refuses.          *)
Hole(base, ents) == ents # <<>> /\ ents[1].index > base.index + 1

(* Entries the snapshot already covers: open applies the rule that taking  *)
(* the snapshot would have.                                                *)
Covered(base, ents) == ents # <<>> /\ ents[1].index <= base.index

Reconciled(base, ents) ==
    IF Covered(base, ents)
    THEN Compact([base |-> [index |-> ents[1].index - 1, term |-> 0], log |-> ents],
                 base).log
    ELSE ents

-----------------------------------------------------------------------------
Init ==
    /\ kern = [hard |-> DefaultHard, snap |-> NoSnapshot, ents |-> <<>>]
    /\ before = NothingBefore
    /\ flushed = {<<>>}
    /\ mem = NoMem
    /\ pc = "idle"
    /\ call = NoCall
    /\ entry0 = NoMem
    /\ sinks = {}
    /\ parts = {}
    /\ nextPart = 0
    /\ kills = 0

BeginCall(c, at) ==
    /\ pc = "idle"
    /\ call' = c
    /\ entry0' = mem
    /\ pc' = at

EndCall == /\ call' = NoCall
           /\ entry0' = NoMem
           /\ pc' = "idle"

(* log.rs sync_dir: every rename in the directory is on the disk.          *)
SyncDir == before' = NothingBefore

-----------------------------------------------------------------------------
(* save_hard_state, by write_atomically: a file beside it, synced, renamed *)
(* over it.  The same state again is not written at all.                   *)

SaveHardState(h) ==
    /\ h # mem.hard
    /\ BeginCall([kind |-> "save", hard |-> h], "hardRename")
    /\ UNCHANGED <<files, mem, sinkVars, kills>>

RenameHard ==
    /\ pc = "hardRename"
    /\ kern' = [kern EXCEPT !.hard = call.hard]
    /\ before' = [before EXCEPT !.hard = @ \cup {kern.hard}]
    /\ pc' = "hardDir"
    /\ UNCHANGED <<flushed, mem, call, entry0, sinkVars, kills>>

SyncHard ==
    /\ pc = "hardDir"
    /\ SyncDir
    /\ mem' = [mem EXCEPT !.hard = call.hard]
    /\ EndCall
    /\ UNCHANGED <<kern, flushed, sinkVars, kills>>

-----------------------------------------------------------------------------
(* append: one write at the end of the file, then a sync.                  *)

AppendEntries(es) ==
    /\ LastIndex(mem) + Len(es) <= MaxIndex
    /\ BeginCall([kind |-> "append", entries |-> es], "write")
    /\ UNCHANGED <<files, mem, sinkVars, kills>>

(* What the file may hold when only a part of es was written.              *)
Partials(es) ==
         {SubSeq(es, 1, n) : n \in 0..Len(es)}
    \cup {Append(SubSeq(es, 1, n), Torn) : n \in 0..(Len(es) - 1)}

WriteAt(end, es) == SubSeq(kern.ents, 1, end) \o es

WriteEntries ==
    /\ pc = "write"
    /\ kern' = [kern EXCEPT !.ents = WriteAt(mem.end, call.entries)]
    /\ flushed' = flushed \cup {WriteAt(mem.end, p) : p \in Partials(call.entries)}
    /\ pc' = "writeSync"
    /\ UNCHANGED <<before, mem, call, entry0, sinkVars, kills>>

(* Mutant: append returns without the sync.                                *)
SyncEntries_NoSync ==
    /\ pc = "writeSync"
    /\ mem' = [mem EXCEPT !.log = @ \o call.entries,
                          !.end = @ + Len(call.entries)]
    /\ EndCall
    /\ UNCHANGED <<kern, before, flushed, sinkVars, kills>>

SyncEntries ==
    /\ pc = "writeSync"
    /\ flushed' = {kern.ents}
    /\ mem' = [mem EXCEPT !.log = @ \o call.entries,
                          !.end = @ + Len(call.entries)]
    /\ EndCall
    /\ UNCHANGED <<kern, before, sinkVars, kills>>

-----------------------------------------------------------------------------
(* truncate_from: the log in memory first, then set_len and a sync.        *)

TruncateFrom(index) ==
    /\ Keep(mem, index) < mem.end
    /\ BeginCall([kind |-> "truncate", index |-> index], "setLen")
    /\ mem' = [mem EXCEPT !.log = SubSeq(@, 1, Keep(mem, index))]
    /\ UNCHANGED <<files, sinkVars, kills>>

SetLen ==
    /\ pc = "setLen"
    /\ kern' = [kern EXCEPT !.ents = SubSeq(@, 1, Keep(entry0, call.index))]
    /\ flushed' = flushed \cup {kern'.ents}
    /\ pc' = "setLenSync"
    /\ UNCHANGED <<before, mem, call, entry0, sinkVars, kills>>

SyncLength ==
    /\ pc = "setLenSync"
    /\ flushed' = {kern.ents}
    /\ mem' = [mem EXCEPT !.end = Keep(entry0, call.index)]
    /\ EndCall
    /\ UNCHANGED <<kern, before, sinkVars, kills>>

-----------------------------------------------------------------------------
(* Snapshots: a part file of its own for each one being written.           *)

(* Mutant: next_part is used but never advanced.                           *)
NewSnapshot_SamePart(meta) ==
    /\ pc = "idle"
    /\ sinks' = sinks \cup {[part |-> nextPart + 1, meta |-> meta]}
    /\ parts' = parts \cup {nextPart + 1}
    /\ UNCHANGED <<files, mem, pc, call, entry0, nextPart, kills>>

NewSnapshot(meta) ==
    /\ pc = "idle"
    /\ nextPart < MaxParts
    /\ nextPart' = nextPart + 1
    /\ sinks' = sinks \cup {[part |-> nextPart', meta |-> meta]}
    /\ parts' = parts \cup {nextPart'}
    /\ UNCHANGED <<files, mem, pc, call, entry0, kills>>

(* Drop for DiskSnapshot: abandoned, or no newer than the snapshot held.   *)
DropSnapshot(k) ==
    /\ pc = "idle"
    /\ sinks' = sinks \ {k}
    /\ parts' = parts \ {k.part}
    /\ UNCHANGED <<files, mem, pc, call, entry0, nextPart, kills>>

(* Mutant: the entries are rewritten before the snapshot is in place.      *)
InstallSnapshot_LogFirst(k) ==
    /\ k.meta.index > mem.base.index
    /\ BeginCall([kind |-> "install", sink |-> k], "rewrite")
    /\ mem' = Compact(mem, k.meta)
    /\ UNCHANGED <<files, sinkVars, kills>>

(* install_snapshot: the header and a sync make the part file whole.  One  *)
(* no newer than the snapshot held is dropped: DropSnapshot.               *)
InstallSnapshot(k) ==
    /\ k.meta.index > mem.base.index
    /\ BeginCall([kind |-> "install", sink |-> k], "snapRename")
    /\ UNCHANGED <<files, mem, sinkVars, kills>>

RenameSnapshot ==
    /\ pc = "snapRename"
    /\ kern' = [kern EXCEPT !.snap = call.sink.meta]
    /\ before' = [before EXCEPT !.snap = @ \cup {kern.snap}]
    /\ sinks' = sinks \ {call.sink}
    /\ parts' = parts \ {call.sink.part}
    /\ pc' = "snapDir"
    /\ UNCHANGED <<flushed, mem, call, entry0, nextPart, kills>>

SyncSnapshot ==
    /\ pc = "snapDir"
    /\ SyncDir
    /\ mem' = Compact(mem, call.sink.meta)
    /\ pc' = "rewrite"
    /\ UNCHANGED <<kern, flushed, call, entry0, sinkVars, kills>>

(* rewrite_entries: a whole new file, synced, renamed over the old one.    *)
RewriteEntries ==
    /\ pc = "rewrite"
    /\ kern' = [kern EXCEPT !.ents = mem.log]
    /\ before' = [before EXCEPT !.ents = @ \cup flushed]
    /\ flushed' = {mem.log}
    /\ pc' = "rewriteDir"
    /\ UNCHANGED <<mem, call, entry0, sinkVars, kills>>

SyncRewrite ==
    /\ pc = "rewriteDir"
    /\ SyncDir
    /\ mem' = [mem EXCEPT !.end = Len(mem.log)]
    /\ EndCall
    /\ UNCHANGED <<kern, flushed, sinkVars, kills>>

-----------------------------------------------------------------------------
(* open                                                                    *)

(* The hard state, the snapshot's header and the part files; then recover  *)
(* reads the entries and cuts the file at a half-written one.              *)
Open ==
    /\ pc = "down"
    /\ mem' = [NoMem EXCEPT !.hard = kern.hard, !.base = kern.snap]
    /\ sinks' = {} /\ parts' = {} /\ nextPart' = 0
    /\ kern' = [kern EXCEPT !.ents = Whole(@)]
    /\ flushed' = flushed \cup {kern'.ents}
    /\ pc' = IF kern'.ents # kern.ents THEN "cut" ELSE "reconcile"
    /\ UNCHANGED <<before, call, entry0, kills>>

SyncCut ==
    /\ pc = "cut"
    /\ flushed' = {kern.ents}
    /\ pc' = "reconcile"
    /\ UNCHANGED <<kern, before, mem, call, entry0, sinkVars, kills>>

(* Where the entries begin against where the snapshot ends.                *)
Reconcile ==
    /\ pc = "reconcile"
    /\ mem' = [mem EXCEPT !.log = Reconciled(mem.base, kern.ents),
                          !.end = Len(kern.ents)]
    /\ pc' = IF Hole(mem.base, kern.ents) THEN "corrupt"
             ELSE IF Covered(mem.base, kern.ents) THEN "rewrite"
             ELSE "idle"
    /\ UNCHANGED <<files, call, entry0, sinkVars, kills>>

-----------------------------------------------------------------------------
(* Faults                                                                  *)

AllSynced == before = NothingBefore /\ flushed = {kern.ents}

Stop == /\ pc' = "down"
        /\ call' = NoCall
        /\ entry0' = NoMem
        /\ mem' = NoMem
        /\ sinks' = {}
        /\ nextPart' = 0
        /\ UNCHANGED parts

(* The process dies.  A storage error is no different: cluster.rs          *)
(* storage_failed aborts.                                                  *)
Kill ==
    /\ pc \notin {"down", "corrupt"}
    /\ Stop
    /\ \/ AllSynced /\ UNCHANGED kills
       \/ ~AllSynced /\ kills < MaxKills /\ kills' = kills + 1
    /\ UNCHANGED files

(* A write that fails part way (a full disk), in a tick or a step: they    *)
(* abort too.  A proposal's is answered with an error, and is left out.    *)
FailWrite ==
    /\ pc = "write"
    /\ kills < MaxKills
    /\ \E p \in Partials(call.entries) :
          /\ kern' = [kern EXCEPT !.ents = WriteAt(mem.end, p)]
          /\ flushed' = flushed \cup
                {WriteAt(mem.end, q) : q \in {q \in Partials(call.entries) :
                     Len(q) <= Len(p) /\ Len(Whole(q)) <= Len(Whole(p))}}
    /\ Stop
    /\ kills' = kills + 1
    /\ UNCHANGED before

PowerCut ==
    /\ PowerAfterKill \/ kills = 0
    /\ \E h \in before.hard \cup {kern.hard}, s \in before.snap \cup {kern.snap},
          es \in before.ents \cup flushed :
          /\ kern' = [hard |-> h, snap |-> s, ents |-> es]
          /\ flushed' = {es}
    /\ SyncDir
    /\ Stop
    /\ kills' = 0

-----------------------------------------------------------------------------
(* What a node may append: entries that follow its log without a gap.      *)
Batches ==
    {[i \in 1..n |-> [index |-> LastIndex(mem) + i, term |-> ts[i]]] :
        n \in 1..MaxBatch, ts \in [1..MaxBatch -> Terms]}

Next ==
    \/ \E h \in HardStates : SaveHardState(h)
    \/ RenameHard \/ SyncHard
    \/ \E es \in Batches : AppendEntries(es)
    \/ WriteEntries \/ SyncEntries
    \/ \E i \in 1..MaxIndex : TruncateFrom(i)
    \/ SetLen \/ SyncLength
    \/ \E m \in Entry : NewSnapshot(m)
    \/ \E k \in sinks : DropSnapshot(k) \/ InstallSnapshot(k)
    \/ RenameSnapshot \/ SyncSnapshot
    \/ RewriteEntries \/ SyncRewrite
    \/ Open \/ SyncCut \/ Reconcile
    \/ Kill \/ FailWrite \/ PowerCut

Spec == Init /\ [][Next]_vars

-----------------------------------------------------------------------------
(* What the storage promises: AtomicStorage.                               *)

Logical(m) == [hard |-> m.hard, base |-> m.base, log |-> Range(m.log)]

(* What an open would make of these files.                                 *)
Recovered(k) ==
    [hard |-> k.hard,
     base |-> k.snap,
     log  |-> Range(Reconciled(k.snap, Whole(k.ents)))]

(* An open that is under way, or rewriting the entries, is not a call.     *)
Stored ==
    IF call # NoCall THEN Logical(entry0)
    ELSE IF pc = "idle" THEN Logical(mem)
    ELSE Recovered(kern)

Running ==
    IF call = NoCall THEN NoCall
    ELSE CASE call.kind = "append"  -> [kind |-> "append", entries |-> Range(call.entries)]
           [] call.kind = "install" -> [kind |-> "install", meta |-> call.sink.meta]
           [] OTHER -> call

Atomic == INSTANCE AtomicStorage WITH stored <- Stored, running <- Running

ASSUME NoCallAssumption == NoCall \notin Calls /\ NoCall \notin Atomic!Call

(* The storage implements AtomicStorage: whatever step of a call, of a     *)
(* recovery or of a snapshot's installation a crash comes between, the     *)
(* next open finds the call done or not done, an append's entries from the *)
(* first on, and everything that had returned before.                      *)
Implements == Atomic!Spec

(* The type of every variable.                                             *)
TypeOK ==
    /\ kern \in [hard : HardStates, snap : Meta, ents : File]
    /\ before \in [hard : SUBSET HardStates, snap : SUBSET Meta, ents : SUBSET File]
    /\ flushed \in SUBSET File
    /\ mem \in Memory /\ entry0 \in Memory
    /\ pc \in Opening \cup {"idle", "hardRename", "hardDir", "write", "writeSync", "setLen",
                 "setLenSync", "snapRename", "snapDir", "rewrite", "rewriteDir"}
    /\ call \in Calls \cup {NoCall}
    /\ sinks \in SUBSET Sink
    /\ parts \in SUBSET (1..MaxParts) /\ nextPart \in 0..MaxParts
    /\ kills \in 0..MaxKills

(* open's arm for a hole says that no order of writes produces one: no     *)
(* crash, in a call or in an earlier recovery, leaves files that the next  *)
(* open refuses.                                                           *)
OpenIsNeverRefused == pc # "corrupt"

(* Two snapshots being written at once, one taken here and one arriving,   *)
(* never share a part file, and no part file outlives its snapshot in a    *)
(* running storage: new_snapshot, Drop, install and remove_stray_parts.    *)
EachSinkHasItsPart ==
    pc \notin Opening =>
        /\ parts = {k.part : k \in sinks}
        /\ Cardinality(parts) = Cardinality(sinks)
=============================================================================
