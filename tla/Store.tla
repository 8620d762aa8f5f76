------------------------------- MODULE Store -------------------------------
(***************************************************************************)
(* src/store.rs, with src/log.rs and src/hint.rs: an index in memory over  *)
(* a directory of append-only data files, and what a crash leaves of it.   *)
(*                                                                         *)
(* The directory is modelled apart from the process: `data' is what the    *)
(* kernel holds of each file, `durable' how much of it a power cut must    *)
(* leave, `torn' the files that end in half a record.  Creating, renaming  *)
(* and unlinking a file take effect in order and survive a power cut.      *)
(*                                                                         *)
(* `history' is the sequence of contents clients have made the store hold, *)
(* from the newest contents promised to survive a power cut onwards; `kern'*)
(* is the newest of them promised to survive the process being killed.     *)
(***************************************************************************)
EXTENDS LogWriter, FiniteSetsExt, SequencesExt

CONSTANTS
    Policy,      \* Options::sync: "Disk" for EveryWrite, "Kernel" for OsCache
    MaxFile,     \* Options::max_file_bytes, in records
    MaxId,       \* bound: data file ids used
    MaxWrites,   \* bound: puts and deletes
    MaxCrashes,  \* bound: kills, power cuts and clean shutdowns
    MaxMerges    \* bound: compactions and restores begun

(* A key's length is a u32, so there are only so many keys.                *)
ASSUME KeysAssumption == IsFiniteSet(Keys)
ASSUME PolicyAssumption == Policy \in {"Disk", "Kernel"}
ASSUME MaxFileAssumption == MaxFile \in Nat \ {0}
ASSUME BoundsAssumption ==
    {MaxId, MaxWrites, MaxCrashes, MaxMerges} \subseteq Nat /\ MaxId >= 1

VARIABLES
    dir,         \* ids of the data files in the directory
    data,        \* id -> the records the kernel has in that file
    durable,     \* id -> how many of them a power cut cannot take
    torn,        \* files with half a record after the last whole one
    hints,       \* id -> the entries of its hint file, <<>> for none
    up,          \* the store is open
    keydir,      \* Store::keydir
    readers,     \* Store::readers, the ids of the open files
    w,           \* Store::writer, without the file itself
    activeHints, \* Store::active_hints
    live_bytes, disk_bytes,
    merge,       \* a compaction or restore under way
    history, kern,
    crash,       \* how the store last stopped
    excused,     \* the windows it stopped in that the properties exempt
    writes, crashes, merges

disk  == <<dir, data, durable, torn, hints>>
index == <<keydir, live_bytes>>
ghost == <<history, kern, crash, excused>>
bound == <<writes, crashes, merges>>
vars  == <<disk, up, index, readers, w, activeHints, disk_bytes, merge,
           ghost, bound>>

Id       == 1 .. MaxId
Location == [id : Id, off : Nat]
NoLoc    == [id |-> 0, off |-> 0]
Index    == [Keys -> Location \cup {NoLoc}]
Contents == [Keys -> Values \cup {Absent}]
Entry    == [key : Keys, tomb : BOOLEAN]

EntryOf(rec)  == [key |-> rec.key, tomb |-> rec.val = Absent]
EntriesOf(s)  == [i \in 1 .. Len(s) |-> EntryOf(s[i])]
Newest        == Max(dir)
Nowhere       == [k \in Keys |-> NoLoc]

Merge == [kind     : {"none", "compact", "background", "restore"},
          stage    : {"idle", "copy", "placed", "unlink"},
          id       : 0 .. MaxId,     \* the slot the new file takes
          old      : SUBSET Id,      \* files still to be unlinked
          cur      : 0 .. MaxId,     \* the one whose hint has just gone
          gone     : SUBSET Id,      \* files already unlinked
          oldBytes : Nat,
          view     : Index,          \* the index the merge copies from
          moved    : Index,          \* where each copy is
          part     : Seq(Record)]    \* written, but not in any .log yet

NoMerge == [kind |-> "none", stage |-> "idle", id |-> 0, old |-> {},
            cur |-> 0, gone |-> {}, oldBytes |-> 0, view |-> Nowhere,
            moved |-> Nowhere, part |-> <<>>]

Compacting == merge.kind = "background" /\ merge.stage \in {"copy", "placed"}
Restoring  == merge.kind = "restore" /\ merge.stage \in {"copy", "placed"}
(* A call that holds the store to itself has not returned yet.             *)
Exclusive  == merge.kind = "compact" \/ merge.stage = "unlink"
Ready      == up /\ ~Exclusive

Active == [file |-> data[w.id], durable |-> durable[w.id],
           offset |-> w.offset, written |-> w.written,
           synced |-> w.synced, pending |-> w.pending]
Attach(id, lw) == [id |-> id, offset |-> lw.offset, written |-> lw.written,
                   synced |-> lw.synced, pending |-> lw.pending]

-----------------------------------------------------------------------------
(* Opening: hint::load, the scan, and replaying the entries in file order. *)

(* hint::load: a hint is believed unless it describes more than there is.  *)
Believed(id, verify) ==
    IF verify \/ Len(hints[id]) > Len(data[id]) THEN <<>> ELSE hints[id]

(* The entries open_with takes from a file: its hint, then a scan of what  *)
(* the hint does not cover.                                                *)
Loaded_HintIsTheWholeFile(id, verify) ==
    IF hints[id] # <<>> /\ ~verify THEN hints[id] ELSE EntriesOf(data[id])
Loaded(id, verify) ==
    LET hinted == Believed(id, verify)
    IN  hinted \o EntriesOf(SubSeq(data[id], Len(hinted) + 1, Len(data[id])))

(* Where the entries of a key are, as <<file, place in it>>.               *)
Places(k, loaded) ==
    UNION {{<<id, i>> : i \in {j \in DOMAIN loaded[id] : loaded[id][j].key = k}} :
              id \in DOMAIN loaded}
Later(p, q) == p[1] > q[1] \/ (p[1] = q[1] /\ p[2] >= q[2])

(* The index after replaying what was loaded: a key's last entry decides.  *)
Replay(loaded) ==
    [k \in Keys |->
        LET places == Places(k, loaded)
            last   == CHOOSE p \in places : \A q \in places : Later(p, q)
        IN  IF places = {} \/ loaded[last[1]][last[2]].tomb THEN NoLoc
            ELSE [id |-> last[1], off |-> last[2] - 1]]
Replayed(verify) == Replay([id \in dir |-> Loaded(id, verify)])

(* What a get through an index reads back from the files.                  *)
ReadBack(idx) ==
    [k \in Keys |-> IF idx[k] = NoLoc THEN Absent
                    ELSE data[idx[k].id][idx[k].off + 1].val]
Recovered(verify) == ReadBack(Replayed(verify))

(* What open would have found had the newest file ended after n records.   *)
FoundUpTo(n, verify) ==
    ReadBack(Replay([id \in dir |->
        IF id = Newest THEN SubSeq(Loaded(id, verify), 1, n)
        ELSE Loaded(id, verify)]))

(* Every record's place in some files: as many as the bytes they hold.     *)
Slots(ids, files) == UNION {{id} \X DOMAIN files[id] : id \in ids}

LiveKeys(idx) == {k \in Keys : idx[k] # NoLoc}
Refused == \E id \in torn : id # Newest

(* Contents the last stop was allowed to leave, newest first to match.     *)
Kept(c) ==
    LET floor == IF crash = "power" THEN 1 ELSE kern
        same  == {i \in floor .. Len(history) : history[i] = c}
    IN  IF same = {} THEN 0 ELSE Max(same)

Init ==
    /\ dir = {} /\ torn = {}
    /\ data = [id \in Id |-> <<>>]
    /\ durable = [id \in Id |-> 0]
    /\ hints = [id \in Id |-> <<>>]
    /\ up = FALSE
    /\ keydir = Nowhere /\ readers = {} /\ activeHints = <<>>
    /\ w = Attach(1, OpenWriter(<<>>, 0))
    /\ live_bytes = 0 /\ disk_bytes = 0
    /\ merge = NoMerge
    /\ history = <<[k \in Keys |-> Absent]>> /\ kern = 1
    /\ crash = "close" /\ excused = {}
    /\ writes = 0 /\ crashes = 0 /\ merges = 0

(* What open makes durable: the sealed files it scanned, which it syncs     *)
(* before it writes their hints, and a file it cut back to whole records.  *)
SyncedAtOpen_NotSealed(sealed) ==
    [id \in Id |-> IF id \in torn THEN Len(data[id]) ELSE durable[id]]
SyncedAtOpen(sealed) ==
    [id \in Id |-> IF id \in sealed \cup torn THEN Len(data[id])
                   ELSE durable[id]]

(* truncate_at: no half record is left.                                    *)
TornAfterOpen_NotTruncated == torn
TornAfterOpen == {}

(* Store::open_with.  hinted is FALSE when writing missing hints fails,    *)
(* which open ignores.  A tear anywhere but in the newest file is refused. *)
(* Contents no earlier write promised are promised from here on: to a kill *)
(* as found, to a power cut as far as the disk has the newest file.        *)
Open(verify, hinted) ==
    LET newest  == IF dir = {} THEN 1 ELSE Newest
        scanned == {id \in dir : Len(Believed(id, verify)) < Len(data[id])}
        sealed  == scanned \ {newest}
        replay  == Replayed(verify)
        found   == ReadBack(replay)
        kept    == IF excused # {} \/ crash = "power" THEN 0 ELSE Kept(found)
        onDisk  == SyncedAtOpen(sealed)[newest]
    IN  /\ ~up /\ ~Refused
        /\ up' = TRUE
        /\ dir' = dir \cup {newest}
        /\ torn' = TornAfterOpen
        /\ durable' = SyncedAtOpen(sealed)
        /\ hints' = [id \in Id |-> IF id \notin dir THEN <<>>
                                   ELSE IF hinted /\ id \in sealed
                                   THEN Loaded(id, verify) ELSE hints[id]]
        /\ keydir' = replay
        /\ live_bytes' = Cardinality(LiveKeys(replay))
        /\ disk_bytes' = Cardinality(Slots(dir, [id \in dir |-> Loaded(id, verify)]))
        /\ readers' = dir \cup {newest}
        /\ activeHints' = Loaded(newest, verify)
        /\ w' = Attach(newest, OpenWriter(data[newest], durable[newest]))
        /\ history' = IF kept # 0 THEN SubSeq(history, 1, kept)
                      ELSE [i \in 1 .. Len(data[newest]) - onDisk + 1 |->
                               FoundUpTo(onDisk + i - 1, verify)]
        /\ kern' = Len(history')
        /\ excused' = {}
        /\ UNCHANGED <<data, merge, crash, bound>>

-----------------------------------------------------------------------------
(* Reading and writing.                                                    *)

(* Store::get: from the writer's buffer if the record is still there, else *)
(* through the file's handle; "unreadable" stands for any error.           *)
Get(k) ==
    LET loc == keydir[k]
    IN  IF loc = NoLoc THEN Absent
        ELSE IF loc.id = w.id /\ InBuffer(Active, loc.off)
        THEN BufferedAt(Active, loc.off).val
        ELSE IF loc.id \in readers /\ loc.off < Len(data[loc.id])
        THEN data[loc.id][loc.off + 1].val
        ELSE "unreadable"

(* The contents a write leaves, and how much of them it promises to keep.  *)
Remember(contents, reach) ==
    /\ history' = IF reach = "Disk" THEN <<contents>>
                  ELSE Append(history, contents)
    /\ kern' = IF reach = "Buffer" THEN kern ELSE Len(history')
    /\ UNCHANGED <<crash, excused>>

(* Store::roll_if_needed's condition, for a record one unit long.          *)
MustRoll == w.offset # 0 /\ w.offset + 1 > MaxFile

(* Sealing the active file: sync it, then write its hint if that works.    *)
Sealed_OnlyFlushed == Flush(Active)
Sealed == SyncWriter(Active)
SealHint(hinted) == IF hinted THEN activeHints ELSE hints[w.id]

(* Store::roll_if_needed, then LogWriter::append, then active_hints.push.  *)
AppendToLog(rec, reach) ==
    \/ LET lw == AppendRecord(Active, rec, reach)
       IN  /\ ~MustRoll
           /\ w' = Attach(w.id, lw)
           /\ data' = [data EXCEPT ![w.id] = lw.file]
           /\ durable' = [durable EXCEPT ![w.id] = lw.durable]
           /\ activeHints' = Append(activeHints, EntryOf(rec))
           /\ UNCHANGED <<dir, hints, readers>>
    \/ \E hinted \in BOOLEAN :
       LET next == w.id + 1
           lw   == AppendRecord(OpenWriter(<<>>, 0), rec, reach)
       IN  /\ MustRoll /\ next <= MaxId
           /\ w' = Attach(next, lw)
           /\ data' = [data EXCEPT ![w.id] = Sealed.file, ![next] = lw.file]
           /\ durable' = [durable EXCEPT ![w.id] = Sealed.durable,
                                         ![next] = lw.durable]
           /\ hints' = [hints EXCEPT ![w.id] = SealHint(hinted)]
           /\ activeHints' = <<EntryOf(rec)>>
           /\ dir' = dir \cup {next}
           /\ readers' = readers \cup {next}

(* Where LogWriter::append says the record landed: the append point before *)
(* it, whether or not the kernel has the record.                           *)
Landed_InTheKernel == [id |-> w'.id, off |-> w'.written - 1]
Landed == [id |-> w'.id, off |-> w'.offset - 1]

(* Store::put and put_deferred, by way of put_with.                        *)
Put(k, v, reach) ==
    /\ Ready /\ ~Restoring /\ writes < MaxWrites
    /\ AppendToLog([key |-> k, val |-> v], reach)
    /\ keydir' = [keydir EXCEPT ![k] = Landed]
    /\ live_bytes' = IF keydir[k] = NoLoc THEN live_bytes + 1 ELSE live_bytes
    /\ disk_bytes' = disk_bytes + 1
    /\ Remember([Last(history) EXCEPT ![k] = v], reach)
    /\ writes' = writes + 1
    /\ UNCHANGED <<torn, up, merge, crashes, merges>>

(* Store::delete and delete_deferred; a missing key changes nothing.       *)
Delete(k, reach) ==
    /\ Ready /\ ~Restoring /\ writes < MaxWrites
    /\ keydir[k] # NoLoc
    /\ AppendToLog([key |-> k, val |-> Absent], reach)
    /\ keydir' = [keydir EXCEPT ![k] = NoLoc]
    /\ live_bytes' = live_bytes - 1
    /\ disk_bytes' = disk_bytes + 1
    /\ Remember([Last(history) EXCEPT ![k] = Absent], reach)
    /\ writes' = writes + 1
    /\ UNCHANGED <<torn, up, merge, crashes, merges>>

(* Store::sync.                                                            *)
Sync ==
    /\ Ready
    /\ w' = Attach(w.id, Sealed)
    /\ data' = [data EXCEPT ![w.id] = Sealed.file]
    /\ durable' = [durable EXCEPT ![w.id] = Sealed.durable]
    /\ history' = <<Last(history)>> /\ kern' = 1
    /\ UNCHANGED <<dir, torn, hints, up, index, readers, activeHints,
                   disk_bytes, merge, crash, excused, bound>>

-----------------------------------------------------------------------------
(* Store::compact, in the foreground: it holds the store throughout, so    *)
(* only a crash can come between its steps.                                *)

(* Flush, then create the merged file, under its final name.               *)
BeginCompact ==
    LET lw     == Flush(Active)
        merged == Max(readers) + 1
    IN  /\ Ready /\ ~Compacting /\ ~Restoring
        /\ merges < MaxMerges /\ merged <= MaxId
        /\ w' = Attach(w.id, lw)
        /\ data' = [data EXCEPT ![w.id] = lw.file]
        /\ dir' = dir \cup {merged}
        /\ merge' = [NoMerge EXCEPT !.kind = "compact", !.stage = "copy",
                        !.id = merged, !.old = readers, !.view = keydir]
        /\ merges' = merges + 1
        /\ UNCHANGED <<durable, torn, hints, up, index, readers, activeHints,
                       disk_bytes, ghost, writes, crashes>>

(* The next record in (file, offset) order is read back and appended, with *)
(* Reach::Buffer, to the merged file.                                      *)
CopyRecord(k) ==
    LET loc  == merge.view[k]
        rec  == data[loc.id][loc.off + 1]
        at   == Len(data[merge.id]) + Len(merge.part)
        todo == {j \in LiveKeys(merge.view) : merge.moved[j] = NoLoc}
        full == Len(merge.part) + 1 >= MaxPending
        out  == Append(merge.part, rec)
    IN  /\ up /\ merge.kind = "compact" /\ merge.stage = "copy"
        /\ k \in todo
        /\ \A j \in todo : Later(<<merge.view[j].id, merge.view[j].off>>,
                                 <<loc.id, loc.off>>)
        /\ data' = [data EXCEPT ![merge.id] = IF full THEN @ \o out ELSE @]
        /\ merge' = [merge EXCEPT !.part = IF full THEN <<>> ELSE out,
                        !.moved[k] = [id |-> merge.id, off |-> at]]
        /\ UNCHANGED <<dir, durable, torn, hints, up, index, readers, w,
                       activeHints, disk_bytes, ghost, bound>>

(* Everything copied: sync the merged file, then write its hint.           *)
SyncMerged(hinted) ==
    LET out == data[merge.id] \o merge.part
    IN  /\ up /\ merge.kind = "compact" /\ merge.stage = "copy"
        /\ \A k \in LiveKeys(merge.view) : merge.moved[k] # NoLoc
        /\ data' = [data EXCEPT ![merge.id] = out]
        /\ durable' = [durable EXCEPT ![merge.id] = Len(out)]
        /\ hints' = [hints EXCEPT ![merge.id] = IF hinted THEN EntriesOf(out)
                                               ELSE @]
        /\ merge' = [merge EXCEPT !.part = <<>>, !.stage = "unlink"]
        /\ UNCHANGED <<dir, torn, up, index, readers, w, activeHints,
                       disk_bytes, ghost, bound>>

(* The originals are gone: the merged file becomes the active one.         *)
EndCompact ==
    LET out == data[merge.id]
    IN  /\ up /\ merge.kind = "compact" /\ merge.stage = "unlink"
        /\ merge.old = {} /\ merge.cur = 0
        /\ readers' = readers \cup {merge.id}
        /\ keydir' = merge.moved
        /\ activeHints' = EntriesOf(out)
        /\ w' = Attach(merge.id, OpenWriter(out, durable[merge.id]))
        /\ live_bytes' = Len(out) /\ disk_bytes' = Len(out)
        /\ merge' = NoMerge
        /\ UNCHANGED <<disk, up, ghost, bound>>

(* The loop over old_ids that ends every merge, in the arbitrary order of  *)
(* the HashMap they came from: each hint goes before its data file.        *)
UnlinkHint(id) ==
    /\ up /\ merge.stage = "unlink" /\ merge.cur = 0 /\ id \in merge.old
    /\ readers' = readers \ {id}
    /\ hints' = [hints EXCEPT ![id] = <<>>]
    /\ merge' = [merge EXCEPT !.cur = id, !.old = @ \ {id}]
    /\ UNCHANGED <<dir, data, durable, torn, up, index, w, activeHints,
                   disk_bytes, ghost, bound>>

UnlinkData ==
    /\ up /\ merge.stage = "unlink" /\ merge.cur # 0
    /\ dir' = dir \ {merge.cur}
    /\ data' = [data EXCEPT ![merge.cur] = <<>>]
    /\ durable' = [durable EXCEPT ![merge.cur] = 0]
    /\ merge' = [merge EXCEPT !.cur = 0, !.gone = @ \cup {merge.cur}]
    /\ UNCHANGED <<torn, hints, up, index, readers, w, activeHints,
                   disk_bytes, ghost, bound>>

-----------------------------------------------------------------------------
(* Merging beside the store: begin_compaction and begin_restore seal the   *)
(* active file and leave a slot; the job writes a .log.part, which no      *)
(* reader looks at, and renames it into the slot; finishing takes the      *)
(* store again.                                                            *)

(* The merge's file replays after everything it replaces and before        *)
(* everything written meanwhile.                                           *)
Slot_IsTheActiveFile == w.id + 2
Slot == w.id + 1
NextActive == w.id + 2

(* Store::seal_leaving_a_slot, up to what the two callers do with it.      *)
SealLeavingASlot(kind) ==
    \E hinted \in BOOLEAN :
        /\ Ready /\ ~Compacting /\ ~Restoring
        /\ merges < MaxMerges /\ NextActive <= MaxId
        /\ data' = [data EXCEPT ![w.id] = Sealed.file]
        /\ durable' = [durable EXCEPT ![w.id] = Sealed.durable]
        /\ hints' = [hints EXCEPT ![w.id] = SealHint(hinted)]
        /\ activeHints' = <<>>
        /\ w' = Attach(NextActive, OpenWriter(<<>>, 0))
        /\ dir' = dir \cup {NextActive}
        /\ readers' = readers \cup {NextActive}
        /\ merge' = [NoMerge EXCEPT !.kind = kind, !.stage = "copy",
                        !.id = Slot, !.old = readers,
                        !.oldBytes = disk_bytes,
                        !.view = IF kind = "background" THEN keydir ELSE Nowhere]
        /\ merges' = merges + 1
        /\ UNCHANGED <<torn, up, index, disk_bytes, ghost, writes, crashes>>

BeginCompaction == SealLeavingASlot("background")
BeginRestore    == SealLeavingASlot("restore")

AddToPart(k, rec) ==
    /\ merge' = [merge EXCEPT !.part = Append(@, rec),
                    !.moved[k] = [id |-> merge.id, off |-> Len(merge.part)]]
    /\ UNCHANGED <<disk, up, index, readers, w, activeHints, disk_bytes,
                   ghost, bound>>

(* CompactionJob::run, one record of the view.                             *)
JobCopy(k) ==
    /\ up /\ Compacting /\ merge.stage = "copy"
    /\ merge.view[k] # NoLoc /\ merge.moved[k] = NoLoc
    /\ AddToPart(k, data[merge.view[k].id][merge.view[k].off + 1])

(* RestoreJob::push.                                                       *)
RestorePush(k, v) ==
    /\ up /\ Restoring /\ merge.stage = "copy"
    /\ merge.moved[k] = NoLoc
    /\ AddToPart(k, [key |-> k, val |-> v])

(* The end of CompactionJob::run, and RestoreJob::finish: sync the part    *)
(* file, rename it into the slot, write its hint.                          *)
PlacePart(hinted) ==
    /\ up /\ (Compacting \/ Restoring) /\ merge.stage = "copy"
    /\ \A k \in LiveKeys(merge.view) : merge.moved[k] # NoLoc
    /\ dir' = dir \cup {merge.id}
    /\ data' = [data EXCEPT ![merge.id] = merge.part]
    /\ durable' = [durable EXCEPT ![merge.id] = Len(merge.part)]
    /\ hints' = [hints EXCEPT ![merge.id] =
                    IF hinted THEN EntriesOf(merge.part) ELSE @]
    /\ merge' = [merge EXCEPT !.stage = "placed"]
    /\ UNCHANGED <<torn, up, index, readers, w, activeHints, disk_bytes,
                   ghost, bound>>

(* Store::finish_compaction up to its unlinking loop: a key moves to its   *)
(* copy only if it still points where the merge read it.                   *)
Repointed_Always ==
    [k \in Keys |-> IF merge.moved[k] # NoLoc THEN merge.moved[k] ELSE keydir[k]]
Repointed ==
    [k \in Keys |-> IF merge.moved[k] # NoLoc /\ keydir[k] = merge.view[k]
                    THEN merge.moved[k] ELSE keydir[k]]
FinishCompaction ==
    /\ up /\ Compacting /\ merge.stage = "placed"
    /\ readers' = readers \cup {merge.id}
    /\ keydir' = Repointed
    /\ merge' = [merge EXCEPT !.stage = "unlink"]
    /\ UNCHANGED <<disk, up, live_bytes, w, activeHints, disk_bytes, ghost,
                   bound>>

(* The rest of finish_compaction, after the loop: the merged file takes    *)
(* the place of the old ones in disk_bytes.                                *)
MergedBytes_ForgetsWrites == Len(merge.part)
MergedBytes == disk_bytes - merge.oldBytes + Len(merge.part)
EndCompaction ==
    /\ up /\ merge.kind = "background" /\ merge.stage = "unlink"
    /\ merge.old = {} /\ merge.cur = 0
    /\ disk_bytes' = MergedBytes
    /\ merge' = NoMerge
    /\ UNCHANGED <<disk, up, index, readers, w, activeHints, ghost, bound>>

(* Store::finish_restore, before and after its unlinking loop.             *)
FinishRestore ==
    /\ up /\ Restoring /\ merge.stage = "placed"
    /\ merge' = [merge EXCEPT !.stage = "unlink"]
    /\ UNCHANGED <<disk, up, index, readers, w, activeHints, disk_bytes,
                   ghost, bound>>
EndRestore ==
    /\ up /\ merge.kind = "restore" /\ merge.stage = "unlink"
    /\ merge.old = {} /\ merge.cur = 0
    /\ readers' = readers \cup {merge.id}
    /\ keydir' = merge.moved
    /\ live_bytes' = Len(merge.part)
    /\ disk_bytes' = Len(merge.part) + w.offset
    /\ history' = <<ReadBack(merge.moved)>> /\ kern' = 1
    /\ merge' = NoMerge
    /\ UNCHANGED <<disk, up, w, activeHints, crash, excused, bound>>

(* abandon_compaction and abandon_restore: the job failed before it renamed*)
(* anything, and its part file goes with it or at the next open.           *)
Abandon ==
    /\ up /\ (Compacting \/ Restoring) /\ merge.stage = "copy"
    /\ merge' = NoMerge
    /\ UNCHANGED <<disk, up, index, readers, w, activeHints, disk_bytes,
                   ghost, bound>>

-----------------------------------------------------------------------------
(* Stopping.                                                               *)

Forget ==
    /\ up' = FALSE
    /\ keydir' = Nowhere /\ readers' = {} /\ activeHints' = <<>>
    /\ w' = Attach(1, OpenWriter(<<>>, 0))
    /\ live_bytes' = 0 /\ disk_bytes' = 0 /\ merge' = NoMerge
    /\ crashes < MaxCrashes /\ crashes' = crashes + 1
    /\ UNCHANGED <<history, kern, writes, merges>>

(* A compaction has unlinked a file before an older one.                   *)
UnlinkedOutOfOrder ==
    /\ merge.kind \in {"compact", "background"} /\ merge.stage = "unlink"
    /\ \E g \in merge.gone, d \in merge.old \cup ({merge.cur} \ {0}) : g > d
(* begin_restore's documented window: both the old files and the new one.  *)
RestoreInPlace == merge.kind = "restore" /\ merge.stage \in {"placed", "unlink"}
(* A file that is not the newest has records only the kernel holds.        *)
SealedUnsynced == \E id \in dir : id # Newest /\ durable[id] < Len(data[id])
Windows == {x \in {"unlink"} : UnlinkedOutOfOrder}
           \cup {x \in {"restore"} : RestoreInPlace}

(* The file a write may be in flight to, and what is buffered for it.      *)
InFlight == IF merge.kind = "compact" THEN merge.id ELSE w.id
InFlightBuffer == IF merge.kind = "compact" THEN merge.part ELSE w.pending

(* The process is killed.  The kernel keeps what it was given, which may   *)
(* be part of a write: some whole records and half of the next.            *)
Kill ==
    /\ up
    /\ \E n \in 0 .. Len(InFlightBuffer), half \in BOOLEAN :
        /\ merge.stage = "unlink" => n = 0 /\ ~half
        /\ data' = [data EXCEPT ![InFlight] = @ \o SubSeq(InFlightBuffer, 1, n)]
        /\ torn' = IF half THEN torn \cup {InFlight} ELSE torn
    /\ crash' = "kill"
    /\ excused' = Windows
    /\ Forget
    /\ UNCHANGED <<dir, durable, hints>>

(* The power goes, in a running store or one already down.  Each file      *)
(* keeps at least what had been synced, and may end in half a record.      *)
Volatile == {id \in dir : durable[id] < Len(data[id])}
PowerCut ==
    /\ up \/ crash # "power"
    /\ \E keep \in [Volatile -> 0 .. Max({Len(data[id]) : id \in Id})],
         half \in SUBSET (torn \cup Volatile) :
        /\ \A id \in Volatile : durable[id] <= keep[id] /\ keep[id] <= Len(data[id])
        /\ half \ torn \subseteq {id \in Volatile : keep[id] < Len(data[id])}
        /\ data' = [id \in Id |-> IF id \in Volatile
                                  THEN SubSeq(data[id], 1, keep[id]) ELSE data[id]]
        /\ durable' = [id \in Id |-> Len(data'[id])]
        /\ torn' = half
    /\ crash' = "power"
    /\ excused' = excused \cup Windows
                   \cup {x \in {"sealed"} : SealedUnsynced}
    /\ Forget
    /\ UNCHANGED <<dir, hints>>

(* Dropping the store: LogWriter's drop flushes, so every write survives   *)
(* anything but the power going.                                           *)
Close ==
    /\ up /\ merge.kind = "none"
    /\ data' = [data EXCEPT ![w.id] = Flush(Active).file]
    /\ crash' = "close" /\ excused' = {}
    /\ up' = FALSE
    /\ keydir' = Nowhere /\ readers' = {} /\ activeHints' = <<>>
    /\ w' = Attach(1, OpenWriter(<<>>, 0))
    /\ live_bytes' = 0 /\ disk_bytes' = 0
    /\ crashes < MaxCrashes /\ crashes' = crashes + 1
    /\ kern' = Len(history)
    /\ UNCHANGED <<dir, durable, torn, hints, merge, history, writes, merges>>

-----------------------------------------------------------------------------
(* put and delete go as far as the policy says, the deferred ones nowhere. *)
Reaches == {Policy, "Buffer"}

ClientStep ==
    \/ \E k \in Keys, v \in Values, reach \in Reaches : Put(k, v, reach)
    \/ \E k \in Keys, reach \in Reaches : Delete(k, reach)
    \/ Sync
CompactStep ==
    \/ BeginCompact
    \/ \E k \in Keys : CopyRecord(k)
    \/ \E hinted \in BOOLEAN : SyncMerged(hinted)
    \/ EndCompact
UnlinkStep ==
    \/ \E id \in Id : UnlinkHint(id)
    \/ UnlinkData
JobStep ==
    \/ BeginCompaction \/ FinishCompaction \/ EndCompaction
    \/ BeginRestore \/ FinishRestore \/ EndRestore
    \/ \E k \in Keys : JobCopy(k)
    \/ \E k \in Keys, v \in Values : RestorePush(k, v)
    \/ \E hinted \in BOOLEAN : PlacePart(hinted)
    \/ Abandon
StopStep ==
    \/ Kill \/ PowerCut \/ Close
    \/ \E verify, hinted \in BOOLEAN : Open(verify, hinted)
Next == ClientStep \/ CompactStep \/ UnlinkStep \/ JobStep \/ StopStep

Spec == Init /\ [][Next]_vars

-----------------------------------------------------------------------------
TypeOK ==
    /\ dir \subseteq Id /\ torn \subseteq dir /\ readers \subseteq Id
    /\ data \in [Id -> Seq(Record)]
    /\ durable \in [Id -> Nat]
    /\ hints \in [Id -> Seq(Entry)]
    /\ up \in BOOLEAN /\ excused \subseteq {"unlink", "restore", "sealed"}
    /\ keydir \in Index
    /\ w \in [id : Id, offset : Nat, written : Nat, synced : Nat,
              pending : Seq(Record)]
    /\ activeHints \in Seq(Entry)
    /\ live_bytes \in Int /\ disk_bytes \in Nat
    /\ merge \in Merge
    /\ history \in Seq(Contents) /\ history # <<>>
    /\ kern \in 1 .. Len(history)
    /\ crash \in {"close", "kill", "power"}
    /\ writes \in 0 .. MaxWrites /\ crashes \in 0 .. MaxCrashes
    /\ merges \in 0 .. MaxMerges

(* README "Reads are one hash lookup": whatever rolling over, merging,     *)
(* restoring or reopening has moved, a get reads the newest write (or the  *)
(* contents the last restart recovered), never an older record or an error.*)
ReadsSeeTheNewestWrite ==
    Ready => \A k \in Keys : Get(k) = Last(history)[k]

(* README "Recovery is a replay": what a stopped store would open with,    *)
(* with or without its hints, is the contents after some prefix of the     *)
(* writes, and the prefix holds every write promised to survive that kind  *)
(* of stop.                                                                *)
RecoveryKeepsPromises ==
    ~up /\ excused = {} => \A verify \in BOOLEAN : Kept(Recovered(verify)) # 0

(* open_with's "only the file that was being appended to can end           *)
(* mid-record": no crash leaves a store that open refuses as corrupt.      *)
RecoveryIsNeverRefused == ~up /\ excused = {} => ~Refused

(* hint.rs "a hint is only ever written for bytes that are already synced, *)
(* so it is never ahead of the data": a hint lists the records its file    *)
(* really starts with, and a power cut cannot take any of them.            *)
HintsNeverRunAhead ==
    \A id \in dir :
        /\ Len(hints[id]) <= durable[id]
        /\ hints[id] = EntriesOf(SubSeq(data[id], 1, Len(hints[id])))

(* sync_handle's "everything in files before the active one is durable     *)
(* already, so syncing the active file is enough".                         *)
SealedFilesAreDurable ==
    Ready => \A id \in dir \ {w.id} : durable[id] = Len(data[id])

(* Store::stats: disk_bytes is what the open files hold, live_bytes what   *)
(* the index points at, through any overlap of writes and merges.          *)
StatsAreExact ==
    Ready => /\ live_bytes = Cardinality(LiveKeys(keydir))
             /\ disk_bytes = Cardinality(Slots(readers, data)) + Len(w.pending)

(* README "A crash partway through leaves the old files untouched, and the *)
(* next startup ignores the incomplete merge": killing the process inside  *)
(* a compaction loses no write and undoes none.                            *)
CompactionSurvivesAKill ==
    ~up /\ crash = "kill" /\ "restore" \notin excused =>
        \A verify \in BOOLEAN : Kept(Recovered(verify)) # 0

(* The same sentence, for the power going: open still accepts the files.   *)
CompactionSurvivesAPowerCut ==
    ~up /\ crash = "power" /\ "restore" \notin excused => ~Refused

(* Store's "nothing is ever mutated in place": while the store is open, a  *)
(* data file that stays in the directory only ever grows.                  *)
FilesOnlyGrow ==
    [][up /\ up' => \A id \in dir \cap dir' : IsPrefix(data[id], data'[id])]_vars
=============================================================================
