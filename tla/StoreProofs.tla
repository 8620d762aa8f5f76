---------------------------- MODULE StoreProofs ----------------------------
(***************************************************************************)
(* What a store's files and index keep through writes, merges, crashes and *)
(* recovery, for any keys, values, file and buffer sizes and bounds.       *)
(***************************************************************************)
EXTENDS Store, SequenceTheorems, OrderedProofs

-----------------------------------------------------------------------------
(* A LogWriter behaves as one append-only sequence of records, whatever    *)
(* part of it is still buffered.                                           *)

(* Everything appended, in order, and what Store::get reads at an offset.  *)
Appended(lw) == lw.file \o lw.pending
ReadAt(lw, off) ==
    IF InBuffer(lw, off) THEN BufferedAt(lw, off) ELSE lw.file[off + 1]

(* WriterOK as numbers, for m records in the file and n in the buffer, and *)
(* as sequences.                                                           *)
Counts(lw, m, n) ==
    /\ m \in Nat /\ n \in Nat
    /\ lw.durable \in Nat /\ lw.synced \in Nat
    /\ Len(lw.file) = m /\ Len(lw.pending) = n
    /\ lw.written = m /\ lw.offset = m + n
    /\ lw.durable <= m /\ lw.synced <= m + n
Records(lw) ==
    /\ lw.file \in Seq(Record) /\ lw.pending \in Seq(Record)
    /\ Appended(lw) \in Seq(Record)

LEMMA WriterFields ==
    ASSUME NEW lw, WriterOK(lw)
    PROVE  /\ lw \in Writer /\ Records(lw)
           /\ Counts(lw, Len(lw.file), Len(lw.pending))
           /\ Len(Appended(lw)) = lw.offset
           /\ lw.pending = <<>> => Len(lw.pending) = 0
  <1>1. /\ lw \in Writer
        /\ lw.file \in Seq(Record) /\ lw.pending \in Seq(Record)
        /\ lw.durable \in Nat /\ lw.offset \in Nat
        /\ lw.written \in Nat /\ lw.synced \in Nat
    BY DEF WriterOK, Writer
  <1>2. /\ Appended(lw) \in Seq(Record)
        /\ Len(Appended(lw)) = Len(lw.file) + Len(lw.pending)
        /\ Len(lw.file) \in Nat /\ Len(lw.pending) \in Nat
    BY <1>1, ConcatProperties, LenProperties DEF Appended
  <1>3. lw.pending = <<>> => Len(lw.pending) = 0 BY EmptySeq
  <1>4. QED BY <1>1, <1>2, <1>3 DEF WriterOK, Counts, Records

LEMMA WriterIntro == ASSUME NEW lw, lw \in Writer, NEW m, NEW n, Counts(lw, m, n) PROVE WriterOK(lw)
  BY DEF WriterOK, Counts

(* LogWriter::flush moves the buffer to the kernel and changes nothing     *)
(* that was appended; LogWriter::sync also makes all of it durable.        *)
LEMMA FlushKeeps ==
    ASSUME NEW lw, WriterOK(lw)
    PROVE  /\ WriterOK(Flush(lw))
           /\ Flush(lw).file = Appended(lw) /\ Flush(lw).pending = <<>>
           /\ Flush(lw).offset = lw.offset
           /\ Appended(Flush(lw)) = Appended(lw)
  <1> DEFINE f == Appended(lw)
             k == IF lw.pending = <<>> THEN lw.written ELSE lw.offset
             e == <<>>
  <1>0. PICK m, n : /\ lw \in Writer /\ Records(lw) /\ Counts(lw, m, n)
                    /\ Len(f) = lw.offset
    BY WriterFields
  <1>1. f \in Seq(Record) /\ e \in Seq(Record) /\ f \o e = f BY <1>0, ConcatEmptySeq DEF Records
  <1>2. k = lw.offset
    <2>1. Len(lw.pending) = 0 => lw.written = lw.offset BY <1>0 DEF Counts
    <2>2. QED BY <2>1, WriterFields
  <1>3. lw.offset \in Nat /\ lw.offset = m + n BY <1>0 DEF Counts
  <1>4. Flush(lw) = [lw EXCEPT !.file = f, !.written = k, !.pending = e] BY DEF Flush, Appended
  <1>5. Len(e) = 0 OBVIOUS
  <1> HIDE DEF f, k, e
  <1>6. /\ Flush(lw) \in Writer
        /\ Flush(lw).file = f /\ Flush(lw).pending = e
        /\ Flush(lw).written = k /\ Flush(lw).offset = lw.offset
        /\ Flush(lw).durable = lw.durable /\ Flush(lw).synced = lw.synced
    BY <1>0, <1>1, <1>2, <1>3, <1>4 DEF Writer
  <1>7. Counts(Flush(lw), m + n, 0) BY <1>0, <1>2, <1>3, <1>5, <1>6 DEF Counts
  <1>8. WriterOK(Flush(lw)) BY <1>6, <1>7, WriterIntro
  <1>9. Appended(Flush(lw)) = f BY <1>1, <1>6 DEF Appended
  <1>10. QED BY <1>6, <1>8, <1>9 DEF f, e

LEMMA SyncKeeps ==
    ASSUME NEW lw, WriterOK(lw)
    PROVE  /\ WriterOK(SyncWriter(lw))
           /\ SyncWriter(lw).offset = lw.offset
           /\ Appended(SyncWriter(lw)) = Appended(lw)
           /\ SyncWriter(lw).durable = lw.offset
           /\ SyncWriter(lw).synced = lw.offset
           /\ SyncWriter(lw).pending = <<>>
  <1> DEFINE l == Flush(lw)
             k == Len(l.file)
  <1>1. /\ WriterOK(l) /\ l.file = Appended(lw) /\ l.pending = <<>>
        /\ l.offset = lw.offset /\ Appended(l) = Appended(lw)
    BY FlushKeeps
  <1>2. SyncWriter(lw) = [l EXCEPT !.durable = k, !.synced = l.offset] BY DEF SyncWriter, SyncData
  <1>3. k = lw.offset BY <1>1, WriterFields
  <1> HIDE DEF l, k
  <1>4. PICK m, n : l \in Writer /\ Counts(l, m, n) /\ n = 0
    <2>1. Len(l.pending) = 0 BY <1>1, EmptySeq
    <2>2. QED BY <1>1, <2>1, WriterFields
  <1>5. l.offset \in Nat /\ k \in Nat /\ k = m /\ l.offset = m
    <2>1. l.offset = lw.offset BY <1>1
    <2>2. QED BY <1>3, <1>4, <2>1 DEF Counts
  <1>6. /\ SyncWriter(lw) \in Writer
        /\ SyncWriter(lw).file = l.file /\ SyncWriter(lw).pending = l.pending
        /\ SyncWriter(lw).written = l.written /\ SyncWriter(lw).offset = l.offset
        /\ SyncWriter(lw).durable = k /\ SyncWriter(lw).synced = l.offset
    BY <1>2, <1>4, <1>5 DEF Writer
  <1>7. Counts(SyncWriter(lw), m, 0) BY <1>4, <1>5, <1>6 DEF Counts
  <1>8. WriterOK(SyncWriter(lw)) BY <1>6, <1>7, WriterIntro
  <1>9. QED BY <1>1, <1>3, <1>6, <1>8 DEF Appended

(* The two ways a record goes in: straight to the kernel, or the buffer.   *)
LEMMA DirectKeeps ==
    ASSUME NEW lw, WriterOK(lw), NEW rec \in Record, lw.pending = <<>>
    PROVE  /\ WriterOK(AppendDirect(lw, rec))
           /\ Appended(AppendDirect(lw, rec)) = Append(Appended(lw), rec)
           /\ AppendDirect(lw, rec).offset = lw.offset + 1
  <1>0. PICK m, n : /\ lw \in Writer /\ Records(lw) /\ Counts(lw, m, n)
                    /\ n = Len(lw.pending)
    BY WriterFields
  <1> DEFINE k == lw.offset + 1
  <1>1. k \in Nat /\ k = m + n + 1 BY <1>0 DEF Counts
  <1> DEFINE f == Append(lw.file, rec)
             d == AppendDirect(lw, rec)
  <1>2. f \in Seq(Record) /\ Len(f) = Len(lw.file) + 1 BY <1>0, AppendProperties DEF Records
  <1>3. d = [lw EXCEPT !.file = f, !.offset = k, !.written = k] BY DEF AppendDirect
  <1>4. lw.file = Appended(lw) /\ f \o <<>> = f BY <1>0, <1>2, ConcatEmptySeq DEF Appended, Records
  <1>5. n = 0 BY <1>0, EmptySeq
  <1> HIDE DEF f, d, k
  <1>6. /\ d \in Writer
        /\ d.file = f /\ d.pending = lw.pending
        /\ d.written = k /\ d.offset = k
        /\ d.durable = lw.durable /\ d.synced = lw.synced
    BY <1>0, <1>1, <1>2, <1>3 DEF Writer
  <1>7. Counts(d, m + 1, 0)
    <2>1. Len(d.file) = Len(lw.file) + 1 BY <1>2, <1>6
    <2>2. QED BY <1>0, <1>1, <1>5, <1>6, <2>1 DEF Counts
  <1>8. Appended(d) = Append(Appended(lw), rec) BY <1>4, <1>6 DEF Appended, f
  <1>9. WriterOK(d) BY <1>6, <1>7, WriterIntro
  <1>10. QED BY <1>6, <1>8, <1>9 DEF d, k

LEMMA BufferedKeeps ==
    ASSUME NEW lw, WriterOK(lw), NEW rec \in Record
    PROVE  /\ WriterOK(Buffered(lw, rec))
           /\ Appended(Buffered(lw, rec)) = Append(Appended(lw), rec)
           /\ Buffered(lw, rec).offset = lw.offset + 1
  <1>0. PICK m, n : /\ lw \in Writer /\ Records(lw) /\ Counts(lw, m, n)
                    /\ n = Len(lw.pending)
    BY WriterFields
  <1> DEFINE k == lw.offset + 1
  <1>1. k \in Nat /\ k = m + n + 1 BY <1>0 DEF Counts
  <1> DEFINE p == Append(lw.pending, rec)
             d == Buffered(lw, rec)
  <1>2. p \in Seq(Record) /\ Len(p) = Len(lw.pending) + 1 BY <1>0, AppendProperties DEF Records
  <1>3. d = [lw EXCEPT !.pending = p, !.offset = k] BY DEF Buffered
  <1>4. lw.file \o p = Append(Appended(lw), rec)
    <2> DEFINE one == <<rec>>
    <2>1. one \in Seq(Record) OBVIOUS
    <2>2. p = lw.pending \o one BY <1>0, AppendIsConcat DEF Records
    <2>3. Append(Appended(lw), rec) = Appended(lw) \o one BY <1>0, AppendIsConcat DEF Records
    <2> HIDE DEF one, p
    <2>4. \A r, s, t \in Seq(Record) : (r \o s) \o t = r \o (s \o t) BY ConcatAssociative
    <2>5. (lw.file \o lw.pending) \o one = lw.file \o (lw.pending \o one)
      BY <1>0, <2>1, <2>4, Zenon DEF Records
    <2>6. QED BY <2>2, <2>3, <2>5, Zenon DEF Appended
  <1> HIDE DEF p, d, k
  <1>5. /\ d \in Writer
        /\ d.file = lw.file /\ d.pending = p
        /\ d.written = lw.written /\ d.offset = k
        /\ d.durable = lw.durable /\ d.synced = lw.synced
    BY <1>0, <1>1, <1>2, <1>3 DEF Writer
  <1>6. Counts(d, m, n + 1)
    <2>1. Len(d.pending) = n + 1 BY <1>0, <1>2, <1>5
    <2>2. QED BY <1>0, <1>1, <1>5, <2>1 DEF Counts
  <1>7. WriterOK(d) BY <1>5, <1>6, WriterIntro
  <1>8. QED BY <1>4, <1>5, <1>7 DEF Appended, d, k

(***************************************************************************)
(* LogWriter::append, by whichever of its three paths, adds exactly the    *)
(* record, at the offset it reports, and with Reach::Disk everything up to *)
(* and including it is durable when it returns.                            *)
(***************************************************************************)
THEOREM AppendAddsTheRecord ==
    ASSUME NEW lw, WriterOK(lw), NEW rec \in Record, NEW reach \in Reach
    PROVE  LET after == AppendRecord(lw, rec, reach)
           IN  /\ WriterOK(after)
               /\ Appended(after) = Append(Appended(lw), rec)
               /\ after.offset = lw.offset + 1
               /\ reach # "Buffer" => after.pending = <<>>
               /\ reach = "Disk" => after.durable = after.offset
  <1>4. PICK l : /\ l = IF reach # "Buffer" /\ lw.pending = <<>>
                        THEN AppendDirect(lw, rec) ELSE Buffered(lw, rec)
                 /\ WriterOK(l) /\ Appended(l) = Append(Appended(lw), rec)
                 /\ l.offset = lw.offset + 1
    BY DirectKeeps, BufferedKeeps
  <1>5. AppendRecord(lw, rec, reach) =
           IF reach = "Disk" THEN SyncWriter(l)
           ELSE IF reach = "Kernel" \/ Len(l.pending) >= MaxPending
           THEN Flush(l) ELSE l
    BY <1>4 DEF AppendRecord
  <1>6. CASE reach = "Disk" BY <1>4, <1>5, <1>6, SyncKeeps
  <1>7. CASE reach # "Disk" /\ (reach = "Kernel" \/ Len(l.pending) >= MaxPending)
    BY <1>4, <1>5, <1>7, FlushKeeps
  <1>8. CASE reach # "Disk" /\ reach # "Kernel" /\ ~(Len(l.pending) >= MaxPending)
    BY <1>4, <1>5, <1>8 DEF Reach
  <1>9. QED BY <1>6, <1>7, <1>8

(* The kernel's file and what the disk has of it only grow.                *)
LEMMA FlushGrows ==
    ASSUME NEW lw, WriterOK(lw)
    PROVE  /\ Len(lw.file) <= Len(Flush(lw).file) /\ Flush(lw).durable = lw.durable
           /\ Len(SyncWriter(lw).file) = lw.offset /\ SyncWriter(lw).file = Appended(lw)
           /\ Len(lw.file) <= Len(SyncWriter(lw).file)
           /\ lw.durable <= SyncWriter(lw).durable
  <1>1. PICK m, n : lw \in Writer /\ Counts(lw, m, n) /\ Len(Appended(lw)) = lw.offset
    BY WriterFields
  <1>2. Flush(lw).file = Appended(lw) /\ Flush(lw).durable = lw.durable
    BY <1>1, FlushKeeps DEF Flush, Writer
  <1>3. SyncWriter(lw).file = Flush(lw).file /\ SyncWriter(lw).durable = Len(Flush(lw).file)
    BY <1>1, FlushKeeps DEF SyncWriter, SyncData, WriterOK, Writer
  <1>4. QED BY <1>1, <1>2, <1>3 DEF Counts

LEMMA AppendGrows ==
    ASSUME NEW lw, WriterOK(lw), NEW rec \in Record, NEW reach \in Reach
    PROVE  LET after == AppendRecord(lw, rec, reach)
           IN  Len(lw.file) <= Len(after.file) /\ lw.durable <= after.durable
  <1>1. PICK m, n : lw \in Writer /\ Records(lw) /\ Counts(lw, m, n) BY WriterFields
  <1> DEFINE l == IF reach # "Buffer" /\ lw.pending = <<>>
                  THEN AppendDirect(lw, rec) ELSE Buffered(lw, rec)
  <1>2. Len(Append(lw.file, rec)) = Len(lw.file) + 1 BY <1>1, AppendProperties DEF Records
  <1>3. l.durable = lw.durable /\ (l.file = lw.file \/ l.file = Append(lw.file, rec))
    BY <1>1 DEF AppendDirect, Buffered, Writer
  <1>4. WriterOK(l)
    <2>1. CASE reach # "Buffer" /\ lw.pending = <<>> BY <2>1, DirectKeeps
    <2>2. CASE ~(reach # "Buffer" /\ lw.pending = <<>>) BY <2>2, BufferedKeeps
    <2>3. QED BY <2>1, <2>2
  <1>5. AppendRecord(lw, rec, reach) =
           IF reach = "Disk" THEN SyncWriter(l)
           ELSE IF reach = "Kernel" \/ Len(l.pending) >= MaxPending
           THEN Flush(l) ELSE l
    BY DEF AppendRecord
  <1> HIDE DEF l
  <1>6. /\ Len(l.file) <= Len(Flush(l).file) /\ Flush(l).durable = l.durable
        /\ Len(l.file) <= Len(SyncWriter(l).file)
        /\ l.durable <= SyncWriter(l).durable
    BY <1>4, FlushGrows
  <1>7. /\ Len(lw.file) \in Nat /\ lw.durable \in Nat /\ Len(l.file) \in Nat
        /\ Len(lw.file) <= Len(l.file) /\ lw.durable <= l.durable
    BY <1>1, <1>2, <1>3 DEF Counts
  <1>8. WriterOK(Flush(l)) /\ WriterOK(SyncWriter(l)) BY <1>4, FlushKeeps, SyncKeeps
  <1>9. \A x : WriterOK(x) => Len(x.file) \in Nat /\ x.durable \in Nat BY WriterFields DEF Counts
  <1>10. QED BY <1>4, <1>5, <1>6, <1>7, <1>8, <1>9

(***************************************************************************)
(* Store::get finds a record at its offset whether LogWriter::buffered has *)
(* it or the file does: both are one place in what was appended, so a      *)
(* record is readable from the moment it is appended and never moves.      *)
(***************************************************************************)
THEOREM EveryRecordIsReadable ==
    ASSUME NEW lw, WriterOK(lw), NEW off \in 0 .. lw.offset - 1
    PROVE  ReadAt(lw, off) = Appended(lw)[off + 1]
  <1>0. PICK m, n : /\ Counts(lw, m, n) /\ Records(lw) BY WriterFields
  <1>1. off \in Nat /\ off + 1 \in 1 .. m + n BY <1>0 DEF Counts
  <1>2. Appended(lw)[off + 1] = IF off + 1 <= m THEN lw.file[off + 1]
                                ELSE lw.pending[(off + 1) - m]
    <2> DEFINE all == lw.file \o lw.pending
               i   == off + 1
    <2>1. \A j \in 1 .. Len(lw.file) + Len(lw.pending) :
             all[j] = IF j <= Len(lw.file) THEN lw.file[j]
                      ELSE lw.pending[j - Len(lw.file)]
      BY <1>0, ConcatProperties DEF Records
    <2>2. m = Len(lw.file) /\ n = Len(lw.pending) BY <1>0 DEF Counts
    <2>3. i \in 1 .. m + n BY <1>1
    <2> HIDE DEF all, i
    <2>4. all[i] = IF i <= m THEN lw.file[i] ELSE lw.pending[i - m] BY <2>1, <2>2, <2>3
    <2>5. QED BY <2>4 DEF Appended, all, i
  <1>3. CASE off + 1 <= m
    <2>1. m \in Nat /\ lw.written = m BY <1>0 DEF Counts
    <2>2. ~(off >= m) BY <1>1, <1>3, <2>1
    <2>3. ~InBuffer(lw, off) BY <2>1, <2>2 DEF InBuffer
    <2>4. QED BY <1>2, <1>3, <2>3, Zenon DEF ReadAt
  <1>4. CASE ~(off + 1 <= m)
    <2>1. InBuffer(lw, off) BY <1>0, <1>1, <1>4 DEF InBuffer, Counts
    <2>2. off - lw.written + 1 = (off + 1) - m BY <1>0, <1>1 DEF Counts
    <2>3. QED BY <1>2, <1>4, <2>1, <2>2, Zenon DEF ReadAt, BufferedAt
  <1>5. QED BY <1>3, <1>4

-----------------------------------------------------------------------------
(* The files and the index.                                                *)

(* What a file holds with what is buffered for it, and what the file a     *)
(* merge writes will hold.                                                 *)
Held(id) == IF id = w.id THEN data[id] \o w.pending ELSE data[id]
Out == IF merge.kind = "compact" THEN data[merge.id] \o merge.part ELSE merge.part

(* compact has begun to unlink, the file still called active included.     *)
Replacing == merge.kind = "compact" /\ merge.stage = "unlink"
(* Files of the directory that Store::readers does not have (any more).    *)
Unread == {x \in {merge.id} : \/ merge.kind = "compact" \/ merge.stage = "placed"
                              \/ merge.kind = "restore" /\ merge.stage = "unlink"}
          \cup ({merge.cur} \ {0})

(* The disk has no more of a file d than the kernel, and its hint h lists  *)
(* records at its start that the disk has.                                 *)
FileOK(d, n, h) ==
    /\ n <= Len(d) /\ Len(h) <= n
    /\ \A i \in 1..Len(h) : h[i] = EntryOf(d[i])

(* What has been written stays where it is.                                *)
Grows(d, e) == Len(d) <= Len(e) /\ \A i \in 1..Len(d) : e[i] = d[i]

(* A file not in the directory is empty, and every file is sound.          *)
FilesInv ==
    \A id \in Id : /\ id \notin dir => data[id] = <<>>
                   /\ FileOK(data[id], durable[id], hints[id])

(* A stopped store has no merge, and a tear only in its newest file.       *)
StoppedInv ==
    ~up => merge = NoMerge /\ (excused = {} => ~Refused)

(* The active file is the newest that is read, its writer is sound, and    *)
(* active_hints lists what it holds with what is buffered.                 *)
ActiveInv ==
    /\ w.id \in readers /\ readers \subseteq 1..w.id
    /\ WriterOK(Active)
    /\ activeHints = EntriesOf(data[w.id] \o w.pending)

(* An open store reads every file but a merge's, and all files but the     *)
(* active one are on the disk, except while compact holds the store.       *)
OpenInv ==
    up => /\ torn = {} /\ dir = readers \cup Unread
          /\ merge.kind # "compact" =>
                 \A id \in dir \ {w.id} : durable[id] = Len(data[id])
          /\ ~Replacing => ActiveInv

(* Where a merge's file stands among the others, and which it replaces.    *)
MergeInv ==
    /\ merge.kind = "none" => merge = NoMerge
    /\ merge.kind # "none" =>
          /\ merge.stage \in (IF merge.kind = "compact" THEN {"copy", "unlink"}
                              ELSE {"copy", "placed", "unlink"})
          /\ merge.id \in Id /\ \A id \in merge.old \cup {merge.cur} : id < merge.id
          /\ merge.cur # 0 => /\ merge.stage = "unlink" /\ merge.cur \notin readers
                              /\ hints[merge.cur] = <<>>
          /\ IF merge.kind = "compact"
             THEN /\ merge.old = readers
                  /\ merge.stage = "copy" => w.pending = <<>>
                  /\ merge.stage = "unlink" => merge.part = <<>>
             ELSE /\ merge.id < w.id
                  /\ merge.stage = "copy" => merge.id \notin readers
                  /\ merge.stage # "copy" => merge.id \in dir
                  /\ merge.kind = "restore" /\ merge.stage # "copy" => data[merge.id] = merge.part
                  /\ merge.kind = "background" /\ merge.stage = "placed" => data[merge.id] = merge.part
                  /\ merge.old \subseteq readers

(* A get through loc reads v.                                              *)
Finds(loc, v) ==
    IF loc = NoLoc THEN v = Absent
    ELSE /\ loc.id \in readers /\ loc.off < Len(Held(loc.id))
         /\ Held(loc.id)[loc.off + 1].val = v

(* The index points at what the clients last wrote.                        *)
IndexInv ==
    up /\ ~(merge.kind \in {"compact", "restore"} /\ merge.stage = "unlink") =>
        \A k \in Keys : Finds(keydir[k], Last(history)[k])

(* Every copy is of the record its key had when the merge began, which is  *)
(* still the newest unless the key has moved on to a newer file.           *)
CopyInv ==
    merge.kind # "none" => \A k \in Keys :
        /\ merge.moved[k] # NoLoc => /\ merge.moved[k].id = merge.id
                                     /\ merge.moved[k].off < Len(Out)
                                     /\ merge.kind # "restore" => merge.view[k] # NoLoc
        /\ merge.stage # "copy" /\ merge.view[k] # NoLoc => merge.moved[k] # NoLoc
        /\ merge.kind = "compact" =>
              /\ merge.stage = "copy" => merge.view[k] = keydir[k]
              /\ merge.view[k] = NoLoc => Last(history)[k] = Absent
              /\ merge.moved[k] # NoLoc =>
                    Out[merge.moved[k].off + 1].val = Last(history)[k]
        /\ merge.kind = "background" /\ merge.stage # "unlink" =>
              /\ merge.view[k] # NoLoc => /\ merge.view[k].id \in merge.old
                                          /\ merge.view[k].off < Len(data[merge.view[k].id])
              /\ keydir[k].id \in merge.old => keydir[k] = merge.view[k]
              /\ merge.moved[k] # NoLoc =>
                    Out[merge.moved[k].off + 1].val =
                        data[merge.view[k].id][merge.view[k].off + 1].val
        /\ merge.kind = "background" /\ merge.stage = "unlink" =>
              keydir[k].id \notin merge.old

(* finish_compaction never takes more from disk_bytes than is there.       *)
BytesInv == merge.kind = "background" => merge.oldBytes <= disk_bytes

Inv == /\ TypeOK /\ FilesInv /\ StoppedInv /\ OpenInv /\ MergeInv
       /\ IndexInv /\ CopyInv /\ BytesInv

-----------------------------------------------------------------------------
(* Sequences of records and their entries.                                 *)

LEMMA EntriesFacts ==
    ASSUME NEW s \in Seq(Record)
    PROVE  /\ EntriesOf(s) \in Seq(Entry) /\ Len(EntriesOf(s)) = Len(s)
           /\ \A i \in 1..Len(s) : EntriesOf(s)[i] = EntryOf(s[i])
  <1>1. \A i \in 1..Len(s) : EntryOf(s[i]) \in Entry
    <2> TAKE i \in 1..Len(s)
    <2>1. s[i] \in Record BY ElementOfSeq
    <2>2. QED BY <2>1 DEF EntryOf, Entry, Record
  <1>2. Len(s) \in Nat BY LenProperties
  <1>3. QED BY <1>1, <1>2, IsASeq DEF EntriesOf

LEMMA EntriesOfAppend ==
    ASSUME NEW s \in Seq(Record), NEW rec \in Record
    PROVE  EntriesOf(Append(s, rec)) = Append(EntriesOf(s), EntryOf(rec))
  <1> DEFINE t == Append(s, rec)
             a == EntriesOf(s)
             e == EntryOf(rec)
  <1>1. /\ t \in Seq(Record) /\ Len(t) = Len(s) + 1
        /\ \A i \in 1..Len(s) : t[i] = s[i]
        /\ t[Len(s) + 1] = rec
    BY AppendProperties
  <1>2. a \in Seq(Entry) /\ Len(a) = Len(s) /\ \A i \in 1..Len(s) : a[i] = EntryOf(s[i])
    BY EntriesFacts
  <1>3. EntriesOf(t) \in Seq(Entry) /\ Len(EntriesOf(t)) = Len(s) + 1
        /\ \A i \in 1..(Len(s) + 1) : EntriesOf(t)[i] = EntryOf(t[i])
    BY <1>1, EntriesFacts
  <1>4. e \in Entry BY DEF EntryOf, Entry, Record
  <1>5. /\ Append(a, e) \in Seq(Entry) /\ Len(Append(a, e)) = Len(a) + 1
        /\ \A i \in 1..Len(a) : Append(a, e)[i] = a[i]
        /\ Append(a, e)[Len(a) + 1] = e
    BY <1>2, <1>4, AppendProperties
  <1>6. Len(s) \in Nat BY LenProperties
  <1> HIDE DEF t, a, e
  <1>7. \A i \in 1..(Len(s) + 1) : EntriesOf(t)[i] = Append(a, e)[i]
    <2> TAKE i \in 1..(Len(s) + 1)
    <2>1. CASE i \in 1..Len(s)
      <3>1. EntriesOf(t)[i] = EntryOf(t[i]) BY <1>3
      <3>2. t[i] = s[i] /\ a[i] = EntryOf(s[i]) BY <1>1, <1>2, <2>1
      <3>3. Append(a, e)[i] = a[i] BY <1>2, <1>5, <2>1
      <3>4. QED BY <3>1, <3>2, <3>3, Zenon
    <2>2. CASE i = Len(s) + 1
      <3>1. EntriesOf(t)[i] = EntryOf(t[i]) /\ t[i] = rec /\ Append(a, e)[i] = e
        BY <1>1, <1>2, <1>3, <1>5, <2>2
      <3>2. QED BY <3>1 DEF e
    <2>3. i \in 1..Len(s) \/ i = Len(s) + 1 BY <1>6
    <2>4. QED BY <2>1, <2>2, <2>3, Zenon
  <1>8. EntriesOf(t) = Append(a, e) BY <1>2, <1>3, <1>5, <1>6, <1>7, SeqEqual
  <1>9. QED BY <1>8 DEF t, a, e

LEMMA GrowsFacts ==
    /\ \A S : \A a \in Seq(S), b \in Seq(S) : Grows(a, a \o b)
    /\ \A S : \A a \in Seq(S), e \in S : Grows(a, Append(a, e))
    /\ \A S : \A a \in Seq(S) : Grows(a, a)
    /\ \A a, b : a = b /\ Len(a) \in Nat => Grows(a, b)
  <1>1. ASSUME NEW S, NEW a \in Seq(S), NEW b \in Seq(S) PROVE Grows(a, a \o b)
    <2>1. Len(a) \in Nat /\ Len(b) \in Nat BY LenProperties
    <2>2. /\ Len(a \o b) = Len(a) + Len(b)
          /\ \A i \in 1..Len(a) + Len(b) :
                (a \o b)[i] = IF i <= Len(a) THEN a[i] ELSE b[i - Len(a)]
      BY ConcatProperties
    <2>3. QED BY <2>1, <2>2 DEF Grows
  <1>2. ASSUME NEW S, NEW a \in Seq(S), NEW e \in S PROVE Grows(a, Append(a, e))
    <2>1. Len(a) \in Nat BY LenProperties
    <2>2. QED BY <2>1, AppendProperties DEF Grows
  <1>3. ASSUME NEW S, NEW a \in Seq(S) PROVE Len(a) \in Nat BY LenProperties
  <1>4. QED BY <1>1, <1>2, <1>3 DEF Grows

LEMMA FileGrows ==
    ASSUME NEW d \in Seq(Record), NEW e \in Seq(Record), NEW h \in Seq(Entry),
           NEW n \in Nat, NEW m \in Nat,
           FileOK(d, n, h), Grows(d, e), n <= m, m <= Len(e)
    PROVE  FileOK(e, m, h)
  <1>1. Len(d) \in Nat /\ Len(e) \in Nat /\ Len(h) \in Nat BY LenProperties
  <1>2. QED BY <1>1 DEF FileOK, Grows

(* A hint and a scan of the rest give the entries of the whole file.       *)
LEMMA HintAndScan ==
    ASSUME NEW d \in Seq(Record), NEW h \in Seq(Entry), Len(h) <= Len(d),
           \A i \in 1..Len(h) : h[i] = EntryOf(d[i])
    PROVE  h \o EntriesOf(SubSeq(d, Len(h) + 1, Len(d))) = EntriesOf(d)
  <1> DEFINE n == Len(h)
             rest == SubSeq(d, n + 1, Len(d))
             e == EntriesOf(rest)
  <1>1. n \in Nat /\ Len(d) \in Nat BY LenProperties
  <1>2. \A i \in (n + 1)..Len(d) : d[i] \in Record
    <2> TAKE i \in (n + 1)..Len(d)
    <2>1. i \in 1..Len(d) BY <1>1
    <2>2. QED BY <2>1, ElementOfSeq
  <1>3. /\ rest \in Seq(Record) /\ Len(rest) = Len(d) - n
        /\ \A i \in 1..(Len(d) - n) : rest[i] = d[n + i]
    <2>1. n + 1 \in Int /\ Len(d) \in Int BY <1>1
    <2>2. /\ rest \in Seq(Record)
          /\ Len(rest) = IF n + 1 <= Len(d) THEN Len(d) - (n + 1) + 1 ELSE 0
          /\ \A i \in 1..(Len(d) - (n + 1) + 1) : rest[i] = d[(n + 1) + i - 1]
      BY <1>2, <2>1, SubSeqProperties
    <2>3. \A i \in 1..(Len(d) - n) : i \in 1..(Len(d) - (n + 1) + 1) /\ (n + 1) + i - 1 = n + i
      BY <1>1
    <2> HIDE DEF rest
    <2>4. Len(rest) = Len(d) - n BY <1>1, <2>2
    <2>5. QED BY <2>2, <2>3, <2>4
  <1> HIDE DEF rest
  <1>4. /\ e \in Seq(Entry) /\ Len(e) = Len(d) - n
        /\ \A i \in 1..(Len(d) - n) : e[i] = EntryOf(d[n + i])
    <2>1. e \in Seq(Entry) /\ Len(e) = Len(rest) /\ \A i \in 1..Len(rest) : e[i] = EntryOf(rest[i])
      BY <1>3, EntriesFacts
    <2>2. QED BY <1>3, <2>1
  <1> HIDE DEF e, n
  <1>5. /\ h \o e \in Seq(Entry) /\ Len(h \o e) = n + Len(e)
        /\ \A i \in 1..(n + Len(e)) : (h \o e)[i] = IF i <= n THEN h[i] ELSE e[i - n]
    BY <1>4, ConcatProperties DEF n
  <1>6. EntriesOf(d) \in Seq(Entry) /\ Len(EntriesOf(d)) = Len(d)
        /\ \A i \in 1..Len(d) : EntriesOf(d)[i] = EntryOf(d[i])
    BY EntriesFacts
  <1>7. n + Len(e) = Len(d) BY <1>1, <1>4
  <1>8. \A i \in 1..Len(d) : (h \o e)[i] = EntriesOf(d)[i]
    <2> TAKE i \in 1..Len(d)
    <2>1. (h \o e)[i] = IF i <= n THEN h[i] ELSE e[i - n] BY <1>5, <1>7
    <2>2. EntriesOf(d)[i] = EntryOf(d[i]) BY <1>6
    <2>3. CASE i <= n
      <3>1. i \in 1..n BY <1>1, <2>3
      <3>2. h[i] = EntryOf(d[i]) BY <3>1 DEF n
      <3>3. QED BY <2>1, <2>2, <2>3, <3>2, Zenon
    <2>4. CASE ~(i <= n)
      <3>1. i - n \in 1..(Len(d) - n) /\ n + (i - n) = i BY <1>1, <2>4
      <3>2. e[i - n] = EntryOf(d[i]) BY <1>4, <3>1
      <3>3. QED BY <2>1, <2>2, <2>4, <3>2, Zenon
    <2>5. QED BY <2>3, <2>4
  <1>9. h \o e = EntriesOf(d) BY <1>5, <1>6, <1>7, <1>8, SeqEqual
  <1>10. QED BY <1>9 DEF e, rest, n

(* hint::load and the scan: whatever the hint covers, open_with takes the  *)
(* entries of the whole file, and believes none that the disk may lose.    *)
LEMMA LoadedIs ==
    ASSUME TypeOK, FilesInv, NEW id \in Id, NEW verify
    PROVE  /\ Loaded(id, verify) = EntriesOf(data[id])
           /\ Len(Believed(id, verify)) <= durable[id]
           /\ Len(Believed(id, verify)) \in Nat
  <1> DEFINE h == Believed(id, verify)
             d == data[id]
  <1>1. d \in Seq(Record) /\ hints[id] \in Seq(Entry) /\ durable[id] \in Nat BY DEF TypeOK
  <1>2. FileOK(d, durable[id], hints[id]) BY DEF FilesInv
  <1>3. <<>> \in Seq(Entry) /\ Len(<<>>) = 0 BY EmptySeq
  <1>4. Len(hints[id]) \in Nat /\ Len(d) \in Nat BY <1>1, LenProperties
  <1>5. /\ h \in Seq(Entry) /\ Len(h) <= durable[id] /\ Len(h) <= Len(d) /\ Len(h) \in Nat
        /\ \A i \in 1..Len(h) : h[i] = EntryOf(d[i])
    <2>1. CASE h = hints[id] BY <1>1, <1>2, <1>4, <2>1 DEF FileOK
    <2>2. CASE h = <<>>
      <3>1. Len(h) = 0 /\ h \in Seq(Entry) BY <1>3, <2>2
      <3>2. QED BY <1>1, <1>4, <3>1
    <2>3. QED BY <2>1, <2>2 DEF Believed
  <1> HIDE DEF h, d
  <1>6. h \o EntriesOf(SubSeq(d, Len(h) + 1, Len(d))) = EntriesOf(d)
    BY <1>1, <1>5, HintAndScan DEF d
  <1>7. QED BY <1>5, <1>6 DEF Loaded, h, d

(* Some place is the last to be replayed.                                  *)
LEMMA LatestPlace ==
    ASSUME NEW P, P # {}, NEW n \in [Id -> Nat],
           \A p \in P : p[1] \in Id /\ p[2] \in Nat /\ p[2] <= n[p[1]]
    PROVE  \E p \in P : \A q \in P : Later(p, q)
  <1> DEFINE A == {p[1] : p \in P}
             m == Max(A)
             B == {p[2] : p \in {q \in P : q[1] = m}}
             t == Max(B)
  <1>0. MaxId \in Nat /\ Id \subseteq Nat /\ \A x \in Id : x <= MaxId BY BoundsAssumption DEF Id
  <1>1. A \in SUBSET Nat /\ A # {} /\ \A x \in A : x <= MaxId BY <1>0
  <1>2. m \in A /\ \A x \in A : x <= m BY <1>0, <1>1, MaxFacts
  <1> HIDE DEF m
  <1>3. m \in Id /\ n[m] \in Nat BY <1>2
  <1>4. B \in SUBSET Nat /\ B # {} /\ \A x \in B : x <= n[m] BY <1>2
  <1>5. t \in B /\ \A x \in B : x <= t BY <1>3, <1>4, MaxFacts
  <1> HIDE DEF t
  <1>6. PICK p \in P : p[1] = m /\ p[2] = t BY <1>5
  <1>7. \A q \in P : Later(p, q)
    <2> TAKE q \in P
    <2>1. q[1] <= m /\ q[1] \in Nat /\ m \in Nat BY <1>0, <1>2
    <2>2. q[1] = m => q[2] <= t BY <1>5
    <2>3. t \in Nat /\ q[2] \in Nat BY <1>4, <1>5
    <2>4. QED BY <1>6, <2>1, <2>2, <2>3 DEF Later
  <1>8. QED BY <1>7

-----------------------------------------------------------------------------
(* What a directory of files holds.                                        *)

(* A record of k is in file a, at i; one place comes no later than another.*)
Place(F, k, a, i) == a \in Id /\ i \in 1..Len(F[a]) /\ F[a][i].key = k
Before(a, i, b, j) == a < b \/ (a = b /\ i <= j)

(* The last record of k is that one, and it is not a tombstone; every      *)
(* record of k that is not a tombstone has one after it.                   *)
Ends(F, k, a, i) ==
    /\ Place(F, k, a, i) /\ F[a][i].val # Absent
    /\ \A b, j : Place(F, k, b, j) => Before(b, j, a, i)
Erased(F, k) ==
    \A a, i : Place(F, k, a, i) /\ F[a][i].val # Absent =>
        \E b, j : Place(F, k, b, j) /\ F[b][j].val = Absent /\ Before(a, i, b, j)

(* Replaying the files gives the index idx, and the contents c.            *)
Points(F, k, loc) ==
    \/ loc = NoLoc /\ Erased(F, k)
    \/ loc # NoLoc /\ Ends(F, k, loc.id, loc.off + 1)
Reads(F, k, v) ==
    \/ v = Absent /\ Erased(F, k)
    \/ \E a, i : Ends(F, k, a, i) /\ F[a][i].val = v
Holds(F, c) == \A k \in Keys : Reads(F, k, c[k])

(* Some of the files: those before or from s on, and all with a cut to n.  *)
Under(F, s) == [id \in Id |-> IF id < s THEN F[id] ELSE <<>>]
From(F, s)  == [id \in Id |-> IF id < s THEN <<>> ELSE F[id]]
Cut(F, a, n) == [id \in Id |-> IF id = a THEN SubSeq(F[id], 1, n) ELSE F[id]]

(* What replaying a directory gives.                                       *)

LEMMA PlaceIsBounded ==
    ASSUME NEW F \in [Id -> Seq(Record)], NEW k, NEW a, NEW i, Place(F, k, a, i)
    PROVE  /\ a \in Id /\ a \in Nat /\ i \in Nat /\ i >= 1 /\ i <= Len(F[a])
           /\ F[a] \in Seq(Record) /\ Len(F[a]) \in Nat /\ F[a][i] \in Record
  <1>1. a \in Id /\ i \in 1..Len(F[a]) /\ F[a] \in Seq(Record) BY DEF Place
  <1>2. Len(F[a]) \in Nat /\ F[a][i] \in Record BY <1>1, LenProperties, ElementOfSeq
  <1>3. a \in Nat BY <1>1, BoundsAssumption DEF Id
  <1>4. QED BY <1>1, <1>2, <1>3

(* Two last records are one.                                               *)
LEMMA OneEnd ==
    ASSUME NEW F \in [Id -> Seq(Record)], NEW k,
           NEW a, NEW i, Ends(F, k, a, i), NEW b, NEW j, Ends(F, k, b, j)
    PROVE  a = b /\ i = j
  <1>1. Place(F, k, a, i) /\ Place(F, k, b, j) BY DEF Ends
  <1>2. a \in Nat /\ i \in Nat /\ b \in Nat /\ j \in Nat BY <1>1, PlaceIsBounded
  <1>3. Before(a, i, b, j) /\ Before(b, j, a, i) BY <1>1 DEF Ends
  <1>4. QED BY <1>2, <1>3 DEF Before

LEMMA EndIsNotErased ==
    ASSUME NEW F \in [Id -> Seq(Record)], NEW k, NEW a, NEW i, Ends(F, k, a, i),
           Erased(F, k)
    PROVE  FALSE
  <1>1. Place(F, k, a, i) /\ F[a][i].val # Absent BY DEF Ends
  <1>2. PICK b, j : Place(F, k, b, j) /\ F[b][j].val = Absent /\ Before(a, i, b, j)
    BY <1>1 DEF Erased
  <1>3. a \in Nat /\ i \in Nat /\ b \in Nat /\ j \in Nat BY <1>1, <1>2, PlaceIsBounded
  <1>4. Before(b, j, a, i) BY <1>2 DEF Ends
  <1>5. a = b /\ i = j BY <1>2, <1>3, <1>4 DEF Before
  <1>6. QED BY <1>1, <1>2, <1>5

(* The files hold one contents.                                            *)
LEMMA OneReading ==
    ASSUME NEW F \in [Id -> Seq(Record)], NEW k, NEW u, Reads(F, k, u), NEW v, Reads(F, k, v)
    PROVE  u = v
  <1>1. CASE \E a, i : Ends(F, k, a, i) /\ F[a][i].val = u
    <2>1. PICK a, i : Ends(F, k, a, i) /\ F[a][i].val = u BY <1>1
    <2>2. ~Erased(F, k) BY <2>1, EndIsNotErased
    <2>3. PICK b, j : Ends(F, k, b, j) /\ F[b][j].val = v BY <2>2 DEF Reads
    <2>4. a = b /\ i = j BY <2>1, <2>3, OneEnd
    <2>5. QED BY <2>1, <2>3, <2>4
  <1>2. CASE ~\E a, i : Ends(F, k, a, i) /\ F[a][i].val = u
    <2>1. u = Absent /\ Erased(F, k) BY <1>2 DEF Reads
    <2>2. v = Absent BY <2>1, EndIsNotErased DEF Reads
    <2>3. QED BY <2>1, <2>2
  <1>3. QED BY <1>1, <1>2

LEMMA OneHolding ==
    ASSUME NEW F \in [Id -> Seq(Record)], NEW c \in Contents, Holds(F, c),
           NEW d \in Contents, Holds(F, d)
    PROVE  c = d
  <1>1. \A k \in Keys : c[k] = d[k]
    <2> TAKE k \in Keys
    <2>1. Reads(F, k, c[k]) /\ Reads(F, k, d[k]) BY DEF Holds
    <2>2. QED BY <2>1, OneReading
  <1>2. QED BY <1>1 DEF Contents

(* Files with the same records hold the same.                              *)
LEMMA SameFiles ==
    ASSUME NEW F \in [Id -> Seq(Record)], NEW G \in [Id -> Seq(Record)],
           \A id \in Id : F[id] = G[id]
    PROVE  F = G
  OBVIOUS

(* The index a replay makes is that of the last records.                   *)
LEMMA ReplayIs ==
    ASSUME NEW F \in [Id -> Seq(Record)], NEW D \in SUBSET Id,
           \A id \in Id \ D : F[id] = <<>>,
           NEW loaded, loaded = [id \in D |-> EntriesOf(F[id])]
    PROVE  /\ Replay(loaded) \in Index
           /\ \A k \in Keys : Points(F, k, Replay(loaded)[k])
  <1> DEFINE places(k) == Places(k, loaded)
             last(k) == CHOOSE p \in places(k) : \A q \in places(k) : Later(p, q)
             at(k) == IF places(k) = {} \/ loaded[last(k)[1]][last(k)[2]].tomb THEN NoLoc
                      ELSE [id |-> last(k)[1], off |-> last(k)[2] - 1]
             n == [id \in Id |-> Len(F[id])]
  <1>0. \A id \in Id : F[id] \in Seq(Record) /\ Len(F[id]) \in Nat BY LenProperties
  <1>1. \A id \in D : /\ DOMAIN loaded[id] = 1..Len(F[id]) /\ id \in Id
                      /\ \A i \in 1..Len(F[id]) : /\ loaded[id][i].key = F[id][i].key
                                                  /\ loaded[id][i].tomb <=> F[id][i].val = Absent
    BY DEF EntriesOf, EntryOf
  <1>2. DOMAIN loaded = D OBVIOUS
  <1>3. \A k : \A p \in places(k) : /\ p = <<p[1], p[2]>> /\ p[1] \in D
                                    /\ Place(F, k, p[1], p[2])
    <2> TAKE k
    <2> TAKE p \in places(k)
    <2>1. PICK id \in D :
             p \in {<<id, i>> : i \in {j \in DOMAIN loaded[id] : loaded[id][j].key = k}}
      BY <1>2 DEF Places
    <2>2. PICK i \in DOMAIN loaded[id] : p = <<id, i>> /\ loaded[id][i].key = k BY <2>1
    <2>3. i \in 1..Len(F[id]) /\ F[id][i].key = k BY <1>1, <2>2
    <2>4. QED BY <1>1, <2>2, <2>3 DEF Place
  <1>4. ASSUME NEW k, NEW a, NEW i, Place(F, k, a, i) PROVE <<a, i>> \in places(k) /\ a \in D
    <2>1. a \in Id /\ i \in 1..Len(F[a]) /\ F[a][i].key = k BY <1>4 DEF Place
    <2>2. a \in D
      <3>1. Len(<<>>) = 0 OBVIOUS
      <3>2. QED BY <2>1, <3>1
    <2>3. i \in DOMAIN loaded[a] /\ loaded[a][i].key = k BY <1>1, <2>1, <2>2
    <2>4. <<a, i>> \in {<<a, m>> : m \in {j \in DOMAIN loaded[a] : loaded[a][j].key = k}} BY <2>3
    <2>5. QED BY <1>2, <2>2, <2>4 DEF Places
  <1>5. Replay(loaded) = [k \in Keys |-> at(k)] BY DEF Replay
  <1> HIDE DEF places
  <1>6. ASSUME NEW k \in Keys PROVE at(k) \in Location \cup {NoLoc} /\ Points(F, k, at(k))
    <2>1. CASE places(k) = {}
      <3>1. at(k) = NoLoc BY <2>1
      <3>2. Erased(F, k) BY <1>4, <2>1 DEF Erased
      <3>3. QED BY <3>1, <3>2 DEF Points
    <2>2. CASE places(k) # {}
      <3>1. n \in [Id -> Nat] BY <1>0
      <3>2. \A p \in places(k) : p[1] \in Id /\ p[2] \in Nat /\ p[2] <= n[p[1]]
        BY <1>0, <1>3, PlaceIsBounded
      <3>3. \E p \in places(k) : \A q \in places(k) : Later(p, q)
        <4> HIDE DEF n
        <4>1. QED BY <2>2, <3>1, <3>2, LatestPlace
      <3>4. last(k) \in places(k) /\ \A q \in places(k) : Later(last(k), q) BY <3>3
      <3> DEFINE a == last(k)[1]
                 i == last(k)[2]
      <3>5. a \in D /\ Place(F, k, a, i) BY <1>3, <3>4
      <3>6. at(k) = IF loaded[a][i].tomb THEN NoLoc ELSE [id |-> a, off |-> i - 1] BY <2>2
      <3>7. ASSUME NEW b, NEW j, Place(F, k, b, j) PROVE Before(b, j, a, i)
        <4>1. <<b, j>> \in places(k) BY <1>4, <3>7
        <4>2. Later(last(k), <<b, j>>) BY <3>4, <4>1
        <4> HIDE DEF last
        <4>3. a > b \/ (a = b /\ i >= j) BY <4>2 DEF Later
        <4>4. a \in Nat /\ i \in Nat /\ b \in Nat /\ j \in Nat BY <3>5, <3>7, PlaceIsBounded
        <4> HIDE DEF a, i
        <4>5. QED BY <4>3, <4>4 DEF Before
      <3> HIDE DEF a, i, at, last
      <3>8. /\ a \in Id /\ a \in Nat /\ i \in Nat /\ i >= 1 /\ i \in 1..Len(F[a])
        BY <3>5, PlaceIsBounded DEF Place
      <3>9. loaded[a][i].tomb <=> F[a][i].val = Absent BY <1>1, <3>5, <3>8
      <3>10. CASE F[a][i].val = Absent
        <4>1. at(k) = NoLoc BY <3>6, <3>9, <3>10
        <4>2. Erased(F, k) BY <3>5, <3>7, <3>10 DEF Erased
        <4>3. QED BY <4>1, <4>2 DEF Points
      <3>11. CASE F[a][i].val # Absent
        <4>1. at(k) = [id |-> a, off |-> i - 1] BY <3>6, <3>9, <3>11
        <4>2. i - 1 \in Nat /\ (i - 1) + 1 = i BY <3>8
        <4>3. at(k) \in Location /\ at(k).id = a /\ at(k).off + 1 = i
          BY <3>8, <4>1, <4>2 DEF Location
        <4>4. at(k) # NoLoc
          <5>1. a # 0 BY <3>8, BoundsAssumption DEF Id
          <5>2. QED BY <4>3, <5>1 DEF NoLoc
        <4>5. Ends(F, k, a, i) BY <3>5, <3>7, <3>11 DEF Ends
        <4>6. QED BY <4>3, <4>4, <4>5 DEF Points
      <3>12. QED BY <3>10, <3>11
    <2>3. QED BY <2>1, <2>2
  <1> HIDE DEF at
  <1>7. \A k \in Keys : Replay(loaded)[k] = at(k) BY <1>5
  <1>8. QED BY <1>5, <1>6, <1>7, Zenon DEF Index

(* What a get through that index reads is what the files hold.             *)
LEMMA ReplayHolds ==
    ASSUME data \in [Id -> Seq(Record)], NEW F \in [Id -> Seq(Record)],
           \A id \in Id : Grows(F[id], data[id]),
           NEW idx \in Index, \A k \in Keys : Points(F, k, idx[k])
    PROVE  /\ Holds(F, ReadBack(idx)) /\ ReadBack(idx) \in Contents
           /\ \A k \in Keys : idx[k] # NoLoc =>
                 /\ idx[k].id \in Id /\ idx[k].off \in Nat /\ idx[k].off < Len(F[idx[k].id])
                 /\ Len(F[idx[k].id]) <= Len(data[idx[k].id])
  <1> DEFINE loc(k) == idx[k]
  <1>1. ASSUME NEW k \in Keys, idx[k] # NoLoc
        PROVE  /\ idx[k].id \in Id /\ idx[k].off \in Nat /\ idx[k].off < Len(F[idx[k].id])
               /\ Len(F[idx[k].id]) <= Len(data[idx[k].id])
               /\ F[idx[k].id][idx[k].off + 1] = data[idx[k].id][idx[k].off + 1]
               /\ data[idx[k].id][idx[k].off + 1] \in Record
               /\ Ends(F, k, idx[k].id, idx[k].off + 1)
    <2> DEFINE a == idx[k].id
               o == idx[k].off
    <2>1. o \in Nat /\ Ends(F, k, a, o + 1) BY <1>1 DEF Points, Index, Location
    <2>2. Place(F, k, a, o + 1) BY <2>1 DEF Ends
    <2> HIDE DEF a, o
    <2>3. /\ a \in Id /\ o + 1 <= Len(F[a]) /\ Len(F[a]) \in Nat /\ o + 1 >= 1
          /\ F[a][o + 1] \in Record
      BY <2>2, PlaceIsBounded
    <2>4. Grows(F[a], data[a]) /\ o < Len(F[a]) /\ o + 1 \in 1..Len(F[a]) BY <2>1, <2>3
    <2>5. F[a][o + 1] = data[a][o + 1] /\ Len(F[a]) <= Len(data[a]) BY <2>4 DEF Grows
    <2>6. QED BY <2>1, <2>3, <2>4, <2>5 DEF a, o
  <1>2. \A k \in Keys : ReadBack(idx)[k] = IF idx[k] = NoLoc THEN Absent
                                           ELSE data[idx[k].id][idx[k].off + 1].val
    BY DEF ReadBack
  <1>3. ASSUME NEW k \in Keys PROVE Reads(F, k, ReadBack(idx)[k])
    <2>1. CASE idx[k] = NoLoc BY <1>2, <2>1 DEF Points, Reads
    <2>2. CASE idx[k] # NoLoc BY <1>1, <1>2, <2>2 DEF Reads
    <2>3. QED BY <2>1, <2>2
  <1>4. ReadBack(idx) \in Contents
    <2>1. \A k \in Keys : ReadBack(idx)[k] \in Values \cup {Absent}
      <3> TAKE k \in Keys
      <3>1. idx[k] # NoLoc => data[idx[k].id][idx[k].off + 1].val \in Values \cup {Absent}
        BY <1>1 DEF Record
      <3>2. QED BY <1>2, <3>1
    <2>2. QED BY <2>1 DEF ReadBack, Contents
  <1>5. QED BY <1>1, <1>3, <1>4 DEF Holds

LEMMA PrefixIs ==
    ASSUME NEW S, NEW d \in Seq(S), NEW n \in 0..Len(d)
    PROVE  /\ SubSeq(d, 1, n) \in Seq(S) /\ Len(SubSeq(d, 1, n)) = n /\ n \in Nat
           /\ \A i \in 1..n : SubSeq(d, 1, n)[i] = d[i]
  <1> DEFINE s == SubSeq(d, 1, n)
  <1>1. Len(d) \in Nat BY LenProperties
  <1>2. n \in Nat /\ n <= Len(d) BY <1>1
  <1>3. \A i \in 1..n : d[i] \in S
    <2> TAKE i \in 1..n
    <2>1. i \in 1..Len(d) BY <1>1, <1>2
    <2>2. QED BY <2>1, ElementOfSeq
  <1>4. /\ s \in Seq(S)
        /\ Len(s) = IF 1 <= n THEN n - 1 + 1 ELSE 0
        /\ \A i \in 1..(n - 1 + 1) : s[i] = d[1 + i - 1]
    BY <1>2, <1>3, SubSeqProperties
  <1> HIDE DEF s
  <1>5. Len(s) = n BY <1>2, <1>4
  <1>6. ASSUME NEW i \in 1..n PROVE s[i] = d[i]
    <2>1. i \in 1..(n - 1 + 1) /\ 1 + i - 1 = i BY <1>2
    <2>2. QED BY <1>4, <2>1
  <1>7. QED BY <1>2, <1>4, <1>5, <1>6 DEF s

(* The entries of a file cut short are the first of its entries.           *)
LEMMA EntriesOfCut ==
    ASSUME NEW d \in Seq(Record), NEW n \in 0..Len(d)
    PROVE  SubSeq(EntriesOf(d), 1, n) = EntriesOf(SubSeq(d, 1, n))
  <1> DEFINE e == EntriesOf(d)
             s == SubSeq(d, 1, n)
             x == SubSeq(e, 1, n)
             y == EntriesOf(s)
  <1>1. Len(d) \in Nat /\ n \in Nat /\ n <= Len(d)
    <2>1. Len(d) \in Nat BY LenProperties
    <2>2. QED BY <2>1
  <1>2. e \in Seq(Entry) /\ Len(e) = Len(d) /\ \A i \in 1..Len(d) : e[i] = EntryOf(d[i])
    BY EntriesFacts
  <1>3. s \in Seq(Record) /\ Len(s) = n /\ \A i \in 1..n : s[i] = d[i] BY PrefixIs
  <1> HIDE DEF s
  <1>4. y \in Seq(Entry) /\ Len(y) = n /\ \A i \in 1..n : y[i] = EntryOf(s[i]) BY <1>3, EntriesFacts
  <1> HIDE DEF e, y
  <1>5. x \in Seq(Entry) /\ Len(x) = n /\ \A i \in 1..n : x[i] = e[i] BY <1>2, PrefixIs
  <1> HIDE DEF x
  <1>6. ASSUME NEW i \in 1..n PROVE x[i] = y[i]
    <2>1. i \in 1..Len(d) BY <1>1
    <2>2. x[i] = EntryOf(d[i]) /\ y[i] = EntryOf(s[i]) /\ s[i] = d[i]
      BY <1>2, <1>3, <1>4, <1>5, <2>1
    <2>3. QED BY <2>2, Zenon
  <1>7. x = y BY <1>4, <1>5, <1>6, SeqEqual
  <1>8. QED BY <1>7 DEF x, y, e, s

LEMMA CutIs ==
    ASSUME NEW F \in [Id -> Seq(Record)], NEW a \in Id, NEW n \in 0..Len(F[a])
    PROVE  /\ Cut(F, a, n) \in [Id -> Seq(Record)]
           /\ Cut(F, a, n)[a] = SubSeq(F[a], 1, n) /\ Len(Cut(F, a, n)[a]) = n /\ n \in Nat
           /\ \A i \in 1..n : Cut(F, a, n)[a][i] = F[a][i]
           /\ \A id \in Id \ {a} : Cut(F, a, n)[id] = F[id]
           /\ \A id \in Id : Grows(Cut(F, a, n)[id], F[id])
           /\ n = Len(F[a]) => Cut(F, a, n) = F
  <1> DEFINE d == F[a]
             s == SubSeq(d, 1, n)
             G == Cut(F, a, n)
  <1>1. d \in Seq(Record) /\ Len(d) \in Nat /\ n \in 0..Len(d) BY LenProperties
  <1>2. n \in Nat /\ n <= Len(d) BY <1>1
  <1>3. s \in Seq(Record) /\ Len(s) = n /\ \A i \in 1..n : s[i] = d[i] BY <1>1, PrefixIs
  <1>4. G[a] = s /\ \A id \in Id \ {a} : G[id] = F[id] BY DEF Cut
  <1> HIDE DEF s
  <1>5. G \in [Id -> Seq(Record)]
    <2>1. G = [id \in Id |-> G[id]] BY DEF Cut
    <2> HIDE DEF G
    <2>2. QED BY <1>3, <1>4, <2>1
  <1> HIDE DEF G
  <1>6. ASSUME NEW id \in Id PROVE Grows(G[id], F[id])
    <2>1. CASE id = a BY <1>1, <1>2, <1>3, <1>4, <2>1 DEF Grows
    <2>2. CASE id # a
      <3>1. Grows(F[id], F[id]) BY GrowsFacts
      <3>2. QED BY <1>4, <2>2, <3>1
    <2>3. QED BY <2>1, <2>2
  <1>7. ASSUME n = Len(F[a]) PROVE G = F
    <2>1. s = d
      <3> HIDE DEF d
      <3>1. n = Len(d) BY <1>7 DEF d
      <3>2. QED BY <1>1, <1>3, <3>1, SeqEqual
    <2>2. \A id \in Id : G[id] = F[id] BY <1>4, <2>1
    <2>3. QED BY <1>5, <2>2
  <1>8. QED BY <1>1, <1>3, <1>4, <1>5, <1>6, <1>7 DEF G, s

(* Files that start with the same records, cut to them.                    *)
LEMMA SameCut ==
    ASSUME NEW F \in [Id -> Seq(Record)], NEW G \in [Id -> Seq(Record)], NEW a \in Id,
           NEW n \in 0..Len(F[a]), n \in 0..Len(G[a]),
           \A i \in 1..n : G[a][i] = F[a][i], \A id \in Id \ {a} : G[id] = F[id]
    PROVE  Cut(G, a, n) = Cut(F, a, n)
  <1> DEFINE X == Cut(G, a, n)
             Y == Cut(F, a, n)
  <1>1. /\ X \in [Id -> Seq(Record)] /\ Len(X[a]) = n /\ \A i \in 1..n : X[a][i] = G[a][i]
        /\ \A id \in Id \ {a} : X[id] = G[id]
    BY CutIs
  <1>2. /\ Y \in [Id -> Seq(Record)] /\ Len(Y[a]) = n /\ \A i \in 1..n : Y[a][i] = F[a][i]
        /\ \A id \in Id \ {a} : Y[id] = F[id]
    BY CutIs
  <1> HIDE DEF X, Y
  <1>3. \A i \in 1..n : X[a][i] = Y[a][i] BY <1>1, <1>2
  <1>4. X[a] = Y[a]
    <2>1. X[a] \in Seq(Record) /\ Y[a] \in Seq(Record) BY <1>1, <1>2
    <2>2. QED BY <1>1, <1>2, <1>3, <2>1, SeqEqual
  <1>5. \A id \in Id : X[id] = Y[id] BY <1>1, <1>2, <1>4
  <1>6. X = Y BY <1>1, <1>2, <1>5, SameFiles
  <1>7. QED BY <1>6 DEF X, Y

LEMMA CutTwice ==
    ASSUME NEW F \in [Id -> Seq(Record)], NEW a \in Id, NEW n \in 0..Len(F[a]), NEW m \in 0..n
    PROVE  Cut(Cut(F, a, n), a, m) = Cut(F, a, m)
  <1> DEFINE G == Cut(F, a, n)
  <1>1. F[a] \in Seq(Record) /\ Len(F[a]) \in Nat BY LenProperties
  <1>2. m \in 0..Len(F[a]) /\ \A i \in 1..m : i \in 1..n BY <1>1
  <1>3. /\ G \in [Id -> Seq(Record)] /\ Len(G[a]) = n /\ \A i \in 1..n : G[a][i] = F[a][i]
        /\ \A id \in Id \ {a} : G[id] = F[id]
    BY CutIs
  <1> HIDE DEF G
  <1>4. Cut(G, a, m) = Cut(F, a, m) BY <1>2, <1>3, SameCut
  <1>5. QED BY <1>4 DEF G

(* What open finds, and would have found in a shorter newest file.         *)
Tip == IF dir = {} THEN 1 ELSE Newest

LEMMA TipIs ==
    ASSUME dir \subseteq Id
    PROVE  /\ Tip \in Id /\ Tip \in Nat /\ \A x \in dir : x <= Tip
           /\ dir # {} => Tip = Newest /\ Tip \in dir
  <1>1. CASE dir = {} BY <1>1, BoundsAssumption DEF Id, Tip
  <1>2. CASE dir # {}
    <2>1. MaxId \in Nat /\ dir \in SUBSET Nat /\ \A x \in dir : x <= MaxId
      BY BoundsAssumption DEF Id
    <2>2. Max(dir) \in dir /\ \A x \in dir : x <= Max(dir) BY <1>2, <2>1, MaxFacts
    <2>3. Tip = Max(dir) BY <1>2 DEF Newest, Tip
    <2>4. Tip \in Id /\ Tip \in Nat /\ Tip \in dir BY <2>1, <2>2, <2>3
    <2>5. QED BY <1>2, <2>2, <2>3, <2>4 DEF Newest
  <1>3. QED BY <1>1, <1>2

LEMMA FoundIs ==
    ASSUME TypeOK, FilesInv, NEW verify, NEW n \in 0..Len(data[Tip])
    PROVE  /\ FoundUpTo(n, verify) \in Contents
           /\ Holds(Cut(data, Tip, n), FoundUpTo(n, verify))
           /\ n = Len(data[Tip]) => FoundUpTo(n, verify) = Recovered(verify)
  <1> DEFINE G == Cut(data, Tip, n)
             loaded == [id \in dir |-> IF id = Newest THEN SubSeq(Loaded(id, verify), 1, n)
                                       ELSE Loaded(id, verify)]
             idx == Replay(loaded)
  <1>1. data \in [Id -> Seq(Record)] /\ dir \subseteq Id /\ \A id \in Id \ dir : data[id] = <<>>
    BY DEF TypeOK, FilesInv
  <1>2. Tip \in Id /\ (dir # {} => Tip = Newest /\ Tip \in dir) BY <1>1, TipIs
  <1>3. /\ G \in [Id -> Seq(Record)] /\ G[Tip] = SubSeq(data[Tip], 1, n)
        /\ \A id \in Id \ {Tip} : G[id] = data[id]
        /\ \A id \in Id : Grows(G[id], data[id])
        /\ n = Len(data[Tip]) => G = data
    BY <1>1, <1>2, CutIs
  <1>4. \A id \in Id : Loaded(id, verify) = EntriesOf(data[id]) BY LoadedIs
  <1>5. SubSeq(EntriesOf(data[Tip]), 1, n) = EntriesOf(SubSeq(data[Tip], 1, n))
    <2>1. data[Tip] \in Seq(Record) BY <1>1, <1>2
    <2>2. QED BY <2>1, EntriesOfCut
  <1> HIDE DEF G
  <1>6. \A id \in dir : loaded[id] = EntriesOf(G[id])
    <2> TAKE id \in dir
    <2>1. Tip = Newest /\ id \in Id BY <1>1, <1>2
    <2>2. CASE id = Tip
      <3>1. loaded[id] = SubSeq(Loaded(id, verify), 1, n) BY <2>1, <2>2
      <3>2. QED BY <1>3, <1>4, <1>5, <2>1, <2>2, <3>1
    <2>3. CASE id # Tip
      <3>1. loaded[id] = Loaded(id, verify) BY <2>1, <2>3
      <3>2. G[id] = data[id] BY <1>3, <2>1, <2>3
      <3>3. QED BY <1>4, <2>1, <3>1, <3>2
    <2>4. QED BY <2>2, <2>3
  <1>7. loaded = [id \in dir |-> EntriesOf(G[id])] BY <1>6
  <1> HIDE DEF loaded
  <1>8. \A id \in Id \ dir : G[id] = <<>>
    <2> TAKE id \in Id \ dir
    <2>1. Grows(G[id], data[id]) /\ data[id] = <<>> /\ G[id] \in Seq(Record) BY <1>1, <1>3
    <2>2. Len(G[id]) <= 0 /\ Len(G[id]) \in Nat BY <2>1, LenProperties DEF Grows
    <2>3. QED BY <2>1, <2>2, EmptySeq
  <1>9. idx \in Index /\ \A k \in Keys : Points(G, k, idx[k]) BY <1>1, <1>3, <1>7, <1>8, ReplayIs
  <1> HIDE DEF idx
  <1>10. Holds(G, ReadBack(idx)) /\ ReadBack(idx) \in Contents BY <1>1, <1>3, <1>9, ReplayHolds
  <1>11. FoundUpTo(n, verify) = ReadBack(idx) BY DEF FoundUpTo, idx, loaded
  <1>12. ASSUME n = Len(data[Tip]) PROVE Replayed(verify) = idx
    <2>1. [id \in dir |-> Loaded(id, verify)] = loaded
      <3>1. \A id \in dir : Loaded(id, verify) = EntriesOf(G[id]) BY <1>1, <1>3, <1>4, <1>12
      <3>2. QED BY <1>7, <3>1
    <2>2. QED BY <2>1 DEF Replayed, idx
  <1>13. QED BY <1>10, <1>11, <1>12 DEF Recovered, G

(* Replaying the files gives places that exist.                            *)
LEMMA ReplayedFacts ==
    ASSUME TypeOK, FilesInv, NEW verify
    PROVE  /\ Replayed(verify) \in Index
           /\ \A k \in Keys : Points(data, k, Replayed(verify)[k])
           /\ \A k \in Keys : Replayed(verify)[k] # NoLoc =>
                 /\ Replayed(verify)[k].id \in dir
                 /\ Replayed(verify)[k].off < Len(data[Replayed(verify)[k].id])
           /\ Holds(data, Recovered(verify)) /\ Recovered(verify) \in Contents
  <1> DEFINE loaded == [id \in dir |-> Loaded(id, verify)]
             idx == Replayed(verify)
  <1>1. data \in [Id -> Seq(Record)] /\ dir \subseteq Id /\ \A id \in Id \ dir : data[id] = <<>>
    BY DEF TypeOK, FilesInv
  <1>2. loaded = [id \in dir |-> EntriesOf(data[id])]
    <2>1. \A id \in dir : Loaded(id, verify) = EntriesOf(data[id]) BY <1>1, LoadedIs
    <2>2. QED BY <2>1
  <1>3. idx = Replay(loaded) BY DEF Replayed
  <1> HIDE DEF loaded, idx
  <1>4. idx \in Index /\ \A k \in Keys : Points(data, k, idx[k]) BY <1>1, <1>2, <1>3, ReplayIs
  <1>5. \A id \in Id : Grows(data[id], data[id]) BY <1>1, GrowsFacts
  <1>6. /\ Holds(data, ReadBack(idx)) /\ ReadBack(idx) \in Contents
        /\ \A k \in Keys : idx[k] # NoLoc =>
                 idx[k].id \in Id /\ idx[k].off \in Nat /\ idx[k].off < Len(data[idx[k].id])
    BY <1>1, <1>4, <1>5, ReplayHolds
  <1>7. ASSUME NEW k \in Keys, idx[k] # NoLoc PROVE idx[k].id \in dir
    <2> DEFINE a == idx[k].id
    <2>1. a \in Id /\ idx[k].off \in Nat /\ idx[k].off < Len(data[a]) BY <1>6, <1>7
    <2>2. a \notin dir => Len(data[a]) = 0 BY <1>1, <2>1, EmptySeq
    <2>3. QED BY <2>1, <2>2
  <1>8. QED BY <1>4, <1>6, <1>7 DEF idx, Recovered

-----------------------------------------------------------------------------
(* The active file's writer.                                               *)

(* Attach puts a writer back where Active finds it.                        *)
LEMMA ActiveIs ==
    ASSUME NEW lw \in Writer, NEW id,
           w' = Attach(id, lw), data'[id] = lw.file, durable'[id] = lw.durable
    PROVE  /\ Active' = lw /\ w'.id = id
           /\ w'.offset = lw.offset /\ w'.pending = lw.pending
           /\ w'.offset \in Nat /\ w'.written \in Nat /\ w'.synced \in Nat
           /\ w'.pending \in Seq(Record)
           /\ data'[id] \in Seq(Record) /\ durable'[id] \in Nat
           /\ id \in Id => w' \in [id : Id, offset : Nat, written : Nat, synced : Nat,
                                   pending : Seq(Record)]
  <1>1. /\ lw.file \in Seq(Record) /\ lw.durable \in Nat /\ lw.offset \in Nat
        /\ lw.written \in Nat /\ lw.synced \in Nat /\ lw.pending \in Seq(Record)
    BY DEF Writer
  <1>2. w' = [id |-> id, offset |-> lw.offset, written |-> lw.written,
              synced |-> lw.synced, pending |-> lw.pending]
    BY DEF Attach
  <1>3. /\ w'.id = id /\ w'.offset = lw.offset /\ w'.written = lw.written
        /\ w'.synced = lw.synced /\ w'.pending = lw.pending
    BY <1>2
  <1>4. Active' = [file |-> lw.file, durable |-> lw.durable, offset |-> lw.offset,
                   written |-> lw.written, synced |-> lw.synced, pending |-> lw.pending]
    BY <1>3 DEF Active
  <1>5. Active' = lw BY <1>4 DEF Writer
  <1>6. QED BY <1>1, <1>2, <1>3, <1>5

(* A fresh writer, on an empty file or on one that has been read.          *)
LEMMA OpenWriterIs ==
    ASSUME NEW f \in Seq(Record), NEW n \in Nat, n <= Len(f)
    PROVE  /\ WriterOK(OpenWriter(f, n)) /\ Appended(OpenWriter(f, n)) = f
           /\ OpenWriter(f, n).file = f /\ OpenWriter(f, n).durable = n
           /\ OpenWriter(f, n).pending = <<>> /\ OpenWriter(f, n).offset = Len(f)
  <1>1. Len(f) \in Nat /\ <<>> \in Seq(Record) /\ Len(<<>>) = 0 /\ f \o <<>> = f
    BY LenProperties, EmptySeq, ConcatEmptySeq
  <1>2. OpenWriter(f, n) \in Writer BY <1>1 DEF OpenWriter, Writer
  <1>3. /\ OpenWriter(f, n).file = f /\ OpenWriter(f, n).durable = n
        /\ OpenWriter(f, n).pending = <<>> /\ OpenWriter(f, n).offset = Len(f)
        /\ OpenWriter(f, n).written = Len(f) /\ OpenWriter(f, n).synced = Len(f)
    BY DEF OpenWriter
  <1>4. QED BY <1>1, <1>2, <1>3 DEF WriterOK, Appended

LEMMA EmptyWriter ==
    /\ WriterOK(OpenWriter(<<>>, 0)) /\ Appended(OpenWriter(<<>>, 0)) = <<>>
    /\ OpenWriter(<<>>, 0).file = <<>> /\ OpenWriter(<<>>, 0).durable = 0
    /\ OpenWriter(<<>>, 0).pending = <<>> /\ OpenWriter(<<>>, 0).offset = 0
  <1> DEFINE e == <<>>
  <1>1. e \in Seq(Record) /\ Len(e) = 0 /\ 0 \in Nat /\ 0 <= Len(e) BY EmptySeq
  <1> HIDE DEF e
  <1>2. /\ WriterOK(OpenWriter(e, 0)) /\ Appended(OpenWriter(e, 0)) = e
        /\ OpenWriter(e, 0).file = e /\ OpenWriter(e, 0).durable = 0
        /\ OpenWriter(e, 0).pending = <<>> /\ OpenWriter(e, 0).offset = Len(e)
    BY <1>1, OpenWriterIs
  <1>3. QED BY <1>1, <1>2 DEF e

(* If what was appended is kept, and no less of it is in the file, the     *)
(* file has grown.                                                         *)
LEMMA WriterGrows ==
    ASSUME NEW a, WriterOK(a), NEW b, WriterOK(b),
           Grows(Appended(a), Appended(b)), Len(a.file) <= Len(b.file)
    PROVE  Grows(a.file, b.file)
  <1>1. \A x : WriterOK(x) => /\ x.file \in Seq(Record) /\ x.pending \in Seq(Record)
                              /\ Len(x.file) \in Nat
    BY WriterFields DEF Counts, Records
  <1>2. \A x : WriterOK(x) => Grows(x.file, Appended(x)) BY <1>1, GrowsFacts DEF Appended
  <1>3. QED BY <1>1, <1>2 DEF Grows

(* What Active is, in an open store whose active file is in use.           *)
LEMMA ActiveFacts ==
    ASSUME TypeOK, WriterOK(Active)
    PROVE  /\ Active.file = data[w.id] /\ Active.durable = durable[w.id]
           /\ Active.offset = w.offset /\ Active.written = w.written
           /\ Active.pending = w.pending
           /\ Appended(Active) = data[w.id] \o w.pending
           /\ Appended(Active) = Held(w.id) /\ Held(w.id) \in Seq(Record)
           /\ Len(Held(w.id)) = w.offset /\ Len(data[w.id]) = w.written
           /\ w.id \in Id /\ w.offset \in Nat /\ w.written \in Nat
           /\ Grows(data[w.id], Held(w.id))
  <1>1. /\ Active.file = data[w.id] /\ Active.durable = durable[w.id]
        /\ Active.offset = w.offset /\ Active.written = w.written
        /\ Active.pending = w.pending
    BY DEF Active
  <1>2. Appended(Active) = data[w.id] \o w.pending BY <1>1 DEF Appended
  <1>3. Held(w.id) = data[w.id] \o w.pending BY DEF Held
  <1>4. w.id \in Id /\ w.offset \in Nat /\ w.written \in Nat BY DEF TypeOK
  <1>5. Records(Active) /\ Len(Appended(Active)) = Active.offset BY WriterFields
  <1>6. Len(data[w.id]) = w.written BY <1>1 DEF WriterOK
  <1>7. data[w.id] \in Seq(Record) /\ w.pending \in Seq(Record) BY <1>1, <1>5 DEF Records
  <1>8. Grows(data[w.id], data[w.id] \o w.pending) BY <1>7, GrowsFacts
  <1>9. QED BY <1>1, <1>2, <1>3, <1>4, <1>5, <1>6, <1>8 DEF Records

(* The active file, or the one after it, goes on from what was written,    *)
(* with everything before it on the disk.                                  *)
Advances ==
    /\ w'.id \in Id /\ w'.id >= w.id
    /\ readers' = readers \cup {w'.id}
    /\ data' \in [Id -> Seq(Record)] /\ durable' \in [Id -> Nat]
    /\ hints' \in [Id -> Seq(Entry)] /\ activeHints' \in Seq(Entry)
    /\ w' \in [id : Id, offset : Nat, written : Nat, synced : Nat, pending : Seq(Record)]
    /\ FilesInv' /\ ActiveInv'
    /\ \A id \in Id \ {w.id, w'.id} : data'[id] = data[id] /\ durable'[id] = durable[id]
    /\ w'.id # w.id => durable'[w.id] = Len(data'[w.id])
    /\ \A id \in Id : Grows(data[id], data'[id])
    /\ \A id \in readers : Grows(Held(id), Held(id)')

(* What roll_if_needed and LogWriter::append do together.                  *)
Appends(rec) ==
    /\ Advances /\ dir' = dir \cup {w'.id}
    /\ w'.offset - 1 \in Nat /\ w'.offset - 1 < Len(Held(w.id)')
    /\ Held(w.id)'[w'.offset] = rec

LEMMA InPlace ==
    ASSUME TypeOK, FilesInv, ActiveInv, readers \subseteq dir, dir \subseteq dir',
           NEW lw, WriterOK(lw), Grows(Held(w.id), Appended(lw)),
           Len(data[w.id]) <= Len(lw.file), durable[w.id] <= lw.durable,
           w' = Attach(w.id, lw),
           data' = [data EXCEPT ![w.id] = lw.file],
           durable' = [durable EXCEPT ![w.id] = lw.durable],
           activeHints' = EntriesOf(Appended(lw)),
           hints' = hints, readers' = readers
    PROVE  /\ Advances /\ w'.id = w.id /\ w'.offset = lw.offset /\ w'.pending = lw.pending
           /\ \A id : id = w.id => Held(id)' = Appended(lw)
  <1> DEFINE id0 == w.id
             held == Held(id0)
  <1>1. /\ Active.file = data[id0] /\ Appended(Active) = held
        /\ id0 \in Id /\ WriterOK(Active)
    BY ActiveFacts DEF ActiveInv
  <1>2. /\ lw \in Writer /\ lw.file \in Seq(Record) /\ lw.durable \in Nat
        /\ lw.durable <= Len(lw.file) /\ Len(lw.file) \in Nat /\ Appended(lw) \in Seq(Record)
    BY WriterFields DEF Counts, Records
  <1>3. Grows(held, Appended(lw)) /\ Len(data[id0]) <= Len(lw.file) /\ durable[id0] <= lw.durable
    OBVIOUS
  <1> HIDE DEF id0, held
  <1>4. /\ data \in [Id -> Seq(Record)] /\ durable \in [Id -> Nat] /\ hints \in [Id -> Seq(Entry)]
        /\ readers \subseteq Id
    BY DEF TypeOK
  <1>5. data' = [data EXCEPT ![id0] = lw.file] /\ durable' = [durable EXCEPT ![id0] = lw.durable]
    BY DEF id0
  <1>6. /\ data'[id0] = lw.file /\ durable'[id0] = lw.durable
        /\ \A id \in Id \ {id0} : data'[id] = data[id] /\ durable'[id] = durable[id]
    BY <1>1, <1>4, <1>5
  <1>7. w' = Attach(id0, lw) BY DEF id0
  <1>8. /\ Active' = lw /\ w'.id = id0
        /\ w'.offset = lw.offset /\ w'.pending = lw.pending
        /\ w' \in [id : Id, offset : Nat, written : Nat, synced : Nat, pending : Seq(Record)]
    BY <1>1, <1>2, <1>6, <1>7, ActiveIs
  <1>9. data'[id0] \o w'.pending = Appended(lw) BY <1>6, <1>8 DEF Appended
  <1>10. \A id : id = id0 => Held(id)' = Appended(lw) BY <1>8, <1>9 DEF Held
  <1>11. /\ data' \in [Id -> Seq(Record)] /\ durable' \in [Id -> Nat] BY <1>2, <1>4, <1>5
  <1>12. activeHints' \in Seq(Entry) BY <1>2, EntriesFacts
  <1>13. ActiveInv'
    <2>1. w'.id \in readers' /\ readers' \subseteq 1..w'.id BY <1>8 DEF ActiveInv, id0
    <2>2. activeHints' = EntriesOf(data'[w'.id] \o w'.pending) BY <1>8, <1>9
    <2>3. QED BY <1>8, <2>1, <2>2 DEF ActiveInv
  <1>14. Grows(data[id0], data'[id0])
    <2>1. Grows(Active.file, lw.file) BY <1>1, <1>3, WriterGrows
    <2>2. QED BY <1>1, <1>6, <2>1
  <1>15. FilesInv'
    <2> SUFFICES ASSUME NEW id \in Id
                 PROVE  /\ id \notin dir' => data'[id] = <<>>
                        /\ FileOK(data'[id], durable'[id], hints'[id])
      BY DEF FilesInv
    <2>2. (id \notin dir => data[id] = <<>>) /\ FileOK(data[id], durable[id], hints[id])
      BY DEF FilesInv
    <2>3. CASE id # id0 BY <1>6, <2>2, <2>3
    <2>4. CASE id = id0
      <3>1. id0 \in dir BY DEF ActiveInv, id0
      <3>2. FileOK(data'[id0], durable'[id0], hints[id0])
        <4>1. /\ data[id0] \in Seq(Record) /\ data'[id0] \in Seq(Record)
              /\ hints[id0] \in Seq(Entry) /\ durable[id0] \in Nat /\ durable'[id0] \in Nat
          BY <1>1, <1>4, <1>11
        <4>2. durable'[id0] <= Len(data'[id0]) /\ durable[id0] <= durable'[id0] BY <1>2, <1>3, <1>6
        <4>3. QED BY <1>14, <2>2, <2>4, <4>1, <4>2, FileGrows
      <3>3. QED BY <2>4, <3>1, <3>2
    <2>5. QED BY <2>3, <2>4
  <1>16. \A id \in Id : Grows(data[id], data'[id])
    <2> TAKE id \in Id
    <2>1. Grows(data[id], data[id]) BY <1>4, GrowsFacts
    <2>2. QED BY <1>6, <1>14, <2>1
  <1>17. \A id \in readers : Grows(Held(id), Held(id)')
    <2> TAKE id \in readers
    <2>1. CASE id = id0
      <3>1. Held(id)' = Appended(lw) BY <1>10, <2>1
      <3>2. Held(id) = held BY <2>1 DEF held
      <3>3. QED BY <1>3, <3>1, <3>2, Zenon
    <2>2. CASE id # id0
      <3>1. Held(id) = data[id] /\ Held(id)' = data'[id] BY <1>8, <2>2 DEF Held, id0
      <3>2. Grows(data[id], data'[id]) BY <1>4, <1>16
      <3>3. QED BY <3>1, <3>2, Zenon
    <2>3. QED BY <2>1, <2>2
  <1>18. w'.id \in Id /\ w'.id >= w.id /\ w'.id = w.id /\ readers' = readers \cup {w'.id}
    BY <1>1, <1>8, BoundsAssumption DEF ActiveInv, id0, Id
  <1>19. \A id \in Id \ {w.id, w'.id} : data'[id] = data[id] /\ durable'[id] = durable[id]
    BY <1>6 DEF id0
  <1>20. Advances BY <1>4, <1>8, <1>11, <1>12, <1>13, <1>15, <1>16, <1>17, <1>18, <1>19 DEF Advances
  <1>21. QED BY <1>8, <1>10, <1>20 DEF id0

LEMMA AppendInPlace ==
    ASSUME TypeOK, FilesInv, ActiveInv, readers \subseteq dir,
           NEW rec \in Record, NEW reach \in Reach,
           w' = Attach(w.id, AppendRecord(Active, rec, reach)),
           data' = [data EXCEPT ![w.id] = AppendRecord(Active, rec, reach).file],
           durable' = [durable EXCEPT ![w.id] = AppendRecord(Active, rec, reach).durable],
           activeHints' = Append(activeHints, EntryOf(rec)),
           UNCHANGED <<dir, hints, readers>>
    PROVE  Appends(rec)
  <1> DEFINE lw == AppendRecord(Active, rec, reach)
             held == Held(w.id)
  <1>1. /\ Active.file = data[w.id] /\ Active.durable = durable[w.id]
        /\ Active.offset = w.offset /\ Appended(Active) = held /\ held \in Seq(Record)
        /\ Appended(Active) = data[w.id] \o w.pending
        /\ Len(held) = w.offset /\ w.offset \in Nat /\ WriterOK(Active)
    BY ActiveFacts DEF ActiveInv
  <1>2. /\ WriterOK(lw) /\ Appended(lw) = Append(held, rec) /\ lw.offset = w.offset + 1
        /\ Len(data[w.id]) <= Len(lw.file) /\ durable[w.id] <= lw.durable
    BY <1>1, AppendAddsTheRecord, AppendGrows
  <1>3. activeHints = EntriesOf(held) BY <1>1 DEF ActiveInv
  <1>4. w' = Attach(w.id, lw) /\ data' = [data EXCEPT ![w.id] = lw.file]
        /\ durable' = [durable EXCEPT ![w.id] = lw.durable]
    OBVIOUS
  <1> HIDE DEF lw, held
  <1>5. activeHints' = EntriesOf(Appended(lw)) BY <1>1, <1>2, <1>3, EntriesOfAppend
  <1>6. Grows(held, Appended(lw)) BY <1>1, <1>2, GrowsFacts
  <1>7. /\ Advances /\ w'.id = w.id /\ w'.offset = lw.offset
        /\ \A id : id = w.id => Held(id)' = Appended(lw)
    <2>1. Grows(Held(w.id), Appended(lw)) BY <1>6 DEF held
    <2>2. QED BY <1>2, <1>4, <1>5, <2>1, InPlace
  <1>8. Held(w.id)' = Append(held, rec)
    <2>1. \A id : id = w'.id => Held(id)' = data'[id] \o w'.pending BY DEF Held
    <2>2. Held(w.id)' = data'[w'.id] \o w'.pending BY DEF Held
    <2>3. QED BY <1>2, <1>7, <2>1, <2>2
  <1>9. Len(Append(held, rec)) = Len(held) + 1 /\ Append(held, rec)[Len(held) + 1] = rec
    <2>1. held \in Seq(Record) /\ rec \in Record BY <1>1
    <2>2. QED BY <2>1, AppendProperties
  <1>10. /\ w'.offset - 1 \in Nat /\ w'.offset - 1 < Len(Append(held, rec))
         /\ Append(held, rec)[w'.offset] = rec
    <2>1. w'.offset = Len(held) + 1 /\ Len(held) \in Nat BY <1>1, <1>2, <1>7
    <2>2. QED BY <1>9, <2>1
  <1>11. dir' = dir \cup {w'.id} BY <1>7 DEF ActiveInv
  <1>12. QED BY <1>7, <1>8, <1>10, <1>11 DEF Appends

(* Sealing the active file: all of it is on the disk, and its hint, if it  *)
(* could be written, lists all of it.                                      *)
LEMMA SealIs ==
    ASSUME TypeOK, FilesInv, ActiveInv
    PROVE  /\ WriterOK(Sealed) /\ Sealed \in Writer /\ Sealed.file = Held(w.id)
           /\ Sealed.durable = Len(Held(w.id)) /\ Sealed.pending = <<>>
           /\ Sealed.offset = w.offset /\ Appended(Sealed) = Held(w.id)
           /\ Grows(data[w.id], Held(w.id)) /\ Held(w.id) \in Seq(Record)
           /\ durable[w.id] <= Len(Held(w.id))
           /\ \A hinted \in BOOLEAN :
                 /\ SealHint(hinted) \in Seq(Entry)
                 /\ FileOK(Held(w.id), Len(Held(w.id)), SealHint(hinted))
           /\ FileOK(Held(w.id), Len(Held(w.id)), hints[w.id])
  <1> DEFINE id0 == w.id
             held == Held(id0)
  <1>1. /\ Active.file = data[id0] /\ Active.durable = durable[id0]
        /\ Active.offset = w.offset /\ Appended(Active) = held /\ held \in Seq(Record)
        /\ held = data[id0] \o w.pending
        /\ Len(held) = w.offset /\ id0 \in Id /\ w.offset \in Nat
        /\ Grows(data[id0], held)
    BY ActiveFacts DEF ActiveInv
  <1>2. /\ WriterOK(Sealed) /\ Sealed.offset = w.offset /\ Sealed.durable = w.offset
        /\ Sealed.pending = <<>> /\ Appended(Sealed) = held
    BY <1>1, SyncKeeps DEF ActiveInv, Sealed
  <1>3. Sealed.file = held /\ durable[id0] <= Sealed.durable
    BY <1>1, FlushGrows DEF ActiveInv, Sealed
  <1>4. Sealed \in Writer BY <1>2 DEF WriterOK
  <1> HIDE DEF id0, held
  <1>5. data[id0] \in Seq(Record) /\ hints[id0] \in Seq(Entry) /\ durable[id0] \in Nat
    BY <1>1 DEF TypeOK
  <1>6. FileOK(held, Len(held), hints[id0])
    <2>1. FileOK(data[id0], durable[id0], hints[id0]) BY <1>1 DEF FilesInv
    <2>2. Len(held) \in Nat /\ durable[id0] <= Len(held) /\ Len(held) <= Len(held)
      BY <1>1, <1>2, <1>3
    <2>3. QED BY <1>1, <1>5, <2>1, <2>2, FileGrows
  <1>7. activeHints \in Seq(Entry) /\ FileOK(held, Len(held), activeHints)
    <2>1. activeHints = EntriesOf(held) BY <1>1 DEF ActiveInv, id0
    <2>2. /\ EntriesOf(held) \in Seq(Entry) /\ Len(EntriesOf(held)) = Len(held)
          /\ \A i \in 1..Len(held) : EntriesOf(held)[i] = EntryOf(held[i])
      BY <1>1, EntriesFacts
    <2>3. Len(held) \in Nat BY <1>1
    <2> HIDE DEF EntriesOf
    <2>4. QED BY <2>1, <2>2, <2>3 DEF FileOK
  <1>8. \A hinted \in BOOLEAN : SealHint(hinted) = activeHints \/ SealHint(hinted) = hints[id0]
    BY DEF SealHint, id0
  <1>9. \A hinted \in BOOLEAN :
                 /\ SealHint(hinted) \in Seq(Entry)
                 /\ FileOK(held, Len(held), SealHint(hinted))
    BY <1>5, <1>6, <1>7, <1>8
  <1>10. QED BY <1>1, <1>2, <1>3, <1>4, <1>6, <1>9 DEF id0, held

LEMMA SealAndGoOn ==
    ASSUME TypeOK, FilesInv, ActiveInv, readers \subseteq dir, dir \subseteq 1..w.id,
           NEW n \in Id, n > w.id, NEW lw, WriterOK(lw), NEW hinted \in BOOLEAN,
           w' = Attach(n, lw),
           data' = [data EXCEPT ![w.id] = Sealed.file, ![n] = lw.file],
           durable' = [durable EXCEPT ![w.id] = Sealed.durable, ![n] = lw.durable],
           hints' = [hints EXCEPT ![w.id] = SealHint(hinted)],
           dir' = dir \cup {n}, readers' = readers \cup {n},
           activeHints' = EntriesOf(Appended(lw))
    PROVE  /\ Advances /\ w'.id = n /\ w'.offset = lw.offset
           /\ \A id : id = n => Held(id)' = Appended(lw)
           /\ \A id \in readers : Held(id)' = Held(id)
           /\ data'[w.id] = Held(w.id)
  <1> DEFINE id0 == w.id
             held == Held(id0)
             h == SealHint(hinted)
  <1>1. /\ Sealed.file = held /\ Sealed.durable = Len(held) /\ held \in Seq(Record)
        /\ Grows(data[id0], held) /\ h \in Seq(Entry)
        /\ FileOK(held, Len(held), h)
    BY SealIs
  <1>2. /\ data \in [Id -> Seq(Record)] /\ durable \in [Id -> Nat] /\ hints \in [Id -> Seq(Entry)]
        /\ id0 \in Id /\ readers \subseteq Id /\ Len(held) \in Nat
    BY <1>1, LenProperties DEF TypeOK
  <1>3. /\ lw \in Writer /\ lw.file \in Seq(Record) /\ lw.durable \in Nat
        /\ lw.durable <= Len(lw.file) /\ Len(lw.file) \in Nat /\ Appended(lw) \in Seq(Record)
    BY WriterFields DEF Counts, Records
  <1>4. n # id0 /\ id0 \in Nat /\ n \in Nat /\ n \notin dir BY <1>2, BoundsAssumption DEF Id
  <1>5. data[n] = <<>> /\ FileOK(data[n], durable[n], hints[n]) BY <1>4 DEF FilesInv
  <1> HIDE DEF id0, held, h
  <1>6. /\ data' = [data EXCEPT ![id0] = held, ![n] = lw.file]
        /\ durable' = [durable EXCEPT ![id0] = Len(held), ![n] = lw.durable]
        /\ hints' = [hints EXCEPT ![id0] = h] /\ w' = Attach(n, lw)
    BY <1>1 DEF id0, h
  <1>7. /\ data'[id0] = held /\ data'[n] = lw.file
        /\ durable'[id0] = Len(held) /\ durable'[n] = lw.durable
        /\ hints'[id0] = h /\ hints'[n] = hints[n]
        /\ \A id \in Id \ {id0, n} : /\ data'[id] = data[id] /\ durable'[id] = durable[id]
                                     /\ hints'[id] = hints[id]
    BY <1>2, <1>4, <1>6
  <1>8. /\ data' \in [Id -> Seq(Record)] /\ durable' \in [Id -> Nat] /\ hints' \in [Id -> Seq(Entry)]
    <2>1. data' \in [Id -> Seq(Record)] BY <1>1, <1>2, <1>3, <1>6
    <2>2. durable' \in [Id -> Nat] BY <1>2, <1>3, <1>6
    <2>3. hints' \in [Id -> Seq(Entry)] BY <1>1, <1>2, <1>6, Zenon
    <2>4. QED BY <2>1, <2>2, <2>3
  <1>9. /\ Active' = lw /\ w'.id = n
        /\ w'.offset = lw.offset /\ w'.pending = lw.pending
        /\ w' \in [id : Id, offset : Nat, written : Nat, synced : Nat, pending : Seq(Record)]
    BY <1>3, <1>6, <1>7, ActiveIs, Zenon
  <1>10. data'[n] \o w'.pending = Appended(lw) BY <1>7, <1>9 DEF Appended
  <1>11. ActiveInv'
    <2>1. w'.id \in readers' /\ readers' \subseteq 1..w'.id
      <3>1. readers \subseteq 1..id0 BY DEF ActiveInv, id0
      <3>2. \A x \in 1..id0 : x \in 1..n BY <1>4 DEF id0
      <3>3. n \in 1..n BY BoundsAssumption DEF Id
      <3>4. QED BY <1>9, <3>1, <3>2, <3>3
    <2>2. activeHints' = EntriesOf(data'[w'.id] \o w'.pending) BY <1>9, <1>10
    <2>3. QED BY <1>9, <2>1, <2>2 DEF ActiveInv
  <1>12. ASSUME NEW id \in Id
         PROVE  /\ id \notin dir' => data'[id] = <<>>
                /\ FileOK(data'[id], durable'[id], hints'[id])
                /\ Grows(data[id], data'[id])
    <2>1. (id \notin dir => data[id] = <<>>) /\ FileOK(data[id], durable[id], hints[id])
      BY DEF FilesInv
    <2>2. CASE id = id0
      <3>1. id0 \in dir' BY DEF ActiveInv, id0
      <3>2. QED BY <1>1, <1>7, <2>2, <3>1
    <2>3. CASE id = n
      <3>1. Len(hints[n]) \in Nat /\ durable[n] \in Nat /\ Len(<<>>) = 0 /\ <<>> \in Seq(Record)
        BY <1>2, LenProperties, EmptySeq
      <3>2. durable[n] = 0 BY <1>5, <3>1 DEF FileOK
      <3>3. Grows(data[n], lw.file) BY <1>3, <1>5, <3>1 DEF Grows
      <3>4. FileOK(lw.file, lw.durable, hints[n])
        BY <1>2, <1>3, <1>5, <3>2, <3>3, FileGrows, SMTT(30)
      <3>5. QED BY <1>7, <2>3, <3>3, <3>4
    <2>4. CASE id \notin {id0, n}
      <3>1. Grows(data[id], data[id]) BY <1>2, GrowsFacts
      <3>2. QED BY <1>7, <2>1, <2>4, <3>1
    <2>5. QED BY <2>2, <2>3, <2>4
  <1>13. \A id : id = n => Held(id)' = Appended(lw) BY <1>9, <1>10 DEF Held
  <1>14. \A id \in readers : Held(id)' = Held(id) /\ Held(id) \in Seq(Record)
    <2> TAKE id \in readers
    <2>1. id # n /\ id \in Id BY <1>2, <1>4
    <2>2. Held(id)' = data'[id] BY <1>9, <2>1 DEF Held
    <2>3. CASE id = id0
      <3>1. Held(id) = held BY <2>3 DEF held
      <3>2. QED BY <1>1, <1>7, <2>2, <2>3, <3>1
    <2>4. CASE id # id0
      <3>1. Held(id) = data[id] BY <2>4 DEF Held, id0
      <3>2. QED BY <1>2, <1>7, <2>1, <2>2, <2>4, <3>1
    <2>5. QED BY <2>3, <2>4
  <1>15. \A id \in readers : Grows(Held(id), Held(id)')
    <2> TAKE id \in readers
    <2>1. Held(id)' = Held(id) /\ Grows(Held(id), Held(id)) BY <1>14, GrowsFacts
    <2>2. QED BY <2>1, Zenon
  <1>16. FilesInv' BY <1>12 DEF FilesInv
  <1>17. w'.id >= w.id /\ w'.id # w.id BY <1>4, <1>9 DEF id0
  <1>18. activeHints' \in Seq(Entry) BY <1>3, EntriesFacts
  <1>19. Advances
    <2>1. \A id \in Id \ {w.id, w'.id} : data'[id] = data[id] /\ durable'[id] = durable[id]
      BY <1>7, <1>9 DEF id0
    <2>2. durable'[w.id] = Len(data'[w.id]) BY <1>7 DEF id0
    <2>3. readers' = readers \cup {w'.id} /\ w'.id \in Id BY <1>9
    <2>4. \A id \in Id : Grows(data[id], data'[id]) BY <1>12
    <2>5. QED BY <1>8, <1>9, <1>11, <1>15, <1>16, <1>17, <1>18, <2>1, <2>2, <2>3, <2>4 DEF Advances
  <1>20. QED BY <1>7, <1>9, <1>13, <1>14, <1>19 DEF id0, held

LEMMA AppendStep ==
    ASSUME TypeOK, FilesInv, ActiveInv, readers \subseteq dir, dir \subseteq 1..w.id,
           NEW rec \in Record, NEW reach \in Reach, AppendToLog(rec, reach)
    PROVE  Appends(rec)
  <1>1. CASE ~MustRoll BY <1>1, AppendInPlace DEF AppendToLog
  <1>2. CASE MustRoll
    <2> DEFINE n == w.id + 1
               new == OpenWriter(<<>>, 0)
               lw == AppendRecord(new, rec, reach)
    <2>1. PICK hinted \in BOOLEAN :
             /\ n <= MaxId /\ w' = Attach(n, lw)
             /\ data' = [data EXCEPT ![w.id] = Sealed.file, ![n] = lw.file]
             /\ durable' = [durable EXCEPT ![w.id] = Sealed.durable, ![n] = lw.durable]
             /\ hints' = [hints EXCEPT ![w.id] = SealHint(hinted)]
             /\ dir' = dir \cup {n} /\ readers' = readers \cup {n}
             /\ activeHints' = <<EntryOf(rec)>>
      BY <1>2 DEF AppendToLog
    <2>2. n \in Id /\ n > w.id
      <3>1. w.id \in Id BY DEF TypeOK
      <3>2. QED BY <2>1, <3>1, BoundsAssumption DEF Id
    <2>3. <<>> \in Seq(Record) /\ Len(<<>>) = 0 BY EmptySeq
    <2>4. WriterOK(new) /\ Appended(new) = <<>> /\ new.offset = 0 BY EmptyWriter
    <2> HIDE DEF new
    <2>5. WriterOK(lw) /\ Appended(lw) = Append(<<>>, rec) /\ lw.offset = 1
      <3>1. /\ WriterOK(lw) /\ Appended(lw) = Append(Appended(new), rec)
            /\ lw.offset = new.offset + 1
        BY <2>4, AppendAddsTheRecord
      <3> HIDE DEF lw
      <3>2. QED BY <2>4, <3>1
    <2> HIDE DEF lw, n
    <2>6. activeHints' = EntriesOf(Appended(lw))
      <3>1. EntriesOf(Append(<<>>, rec)) = Append(EntriesOf(<<>>), EntryOf(rec))
        BY <2>3, EntriesOfAppend
      <3>2. EntriesOf(<<>>) = <<>> BY <2>3, EntriesFacts, EmptySeq
      <3>3. QED BY <2>1, <2>5, <3>1, <3>2
    <2>7. /\ Advances /\ w'.id = n /\ w'.offset = lw.offset
          /\ \A id : id = n => Held(id)' = Appended(lw)
      BY <2>1, <2>2, <2>5, <2>6, SealAndGoOn
    <2>8. Held(w.id)' = Append(<<>>, rec)
      <3>1. Held(w.id)' = data'[w'.id] \o w'.pending BY DEF Held
      <3>2. \A id : id = w'.id => Held(id)' = data'[id] \o w'.pending BY DEF Held
      <3>3. QED BY <2>5, <2>7, <3>1, <3>2
    <2>9. Append(<<>>, rec)[1] = rec /\ Len(Append(<<>>, rec)) = 1 OBVIOUS
    <2>10. QED BY <2>1, <2>5, <2>7, <2>8, <2>9 DEF Appends
  <1>3. QED BY <1>1, <1>2

(* What a get finds stays where it is while files grow.                    *)
LEMMA FindsKept ==
    ASSUME readers \subseteq readers',
           \A id \in readers : Len(Held(id)) \in Nat /\ Len(Held(id)') \in Nat
                               /\ Grows(Held(id), Held(id)'),
           NEW loc \in Location \cup {NoLoc}, NEW v, Finds(loc, v)
    PROVE  Finds(loc, v)'
  <1>1. CASE loc = NoLoc BY <1>1 DEF Finds
  <1>2. CASE loc # NoLoc
    <2> DEFINE a == Held(loc.id)
               b == Held(loc.id)'
               i == loc.off + 1
    <2>1. loc.id \in readers /\ loc.off < Len(a) /\ a[i].val = v /\ loc.off \in Nat
      BY <1>2 DEF Finds, Location
    <2>2. Len(a) \in Nat /\ Len(b) \in Nat /\ Grows(a, b) BY <2>1
    <2> HIDE DEF a, b
    <2>3. i \in 1..Len(a) /\ loc.off < Len(b) /\ b[i] = a[i] BY <2>1, <2>2 DEF Grows
    <2> HIDE DEF i
    <2>4. loc.id \in readers' /\ loc.off < Len(b) /\ b[i].val = v BY <2>1, <2>3
    <2>5. QED BY <1>2, <2>4 DEF Finds, a, b, i
  <1>3. QED BY <1>1, <1>2

-----------------------------------------------------------------------------
(* Facts that hold in every open store.                                    *)

LEMMA MergeFields ==
    ASSUME TypeOK
    PROVE  /\ merge.kind \in {"none", "compact", "background", "restore"}
           /\ merge.stage \in {"idle", "copy", "placed", "unlink"}
           /\ merge.id \in 0..MaxId /\ merge.old \subseteq Id /\ merge.cur \in 0..MaxId
           /\ merge.gone \subseteq Id /\ merge.oldBytes \in Nat
           /\ merge.view \in Index /\ merge.moved \in Index /\ merge.part \in Seq(Record)
           /\ Id \subseteq Nat /\ 0 \notin Id /\ MaxId \in Nat
           /\ \A k \in Keys : /\ keydir[k] \in Location \cup {NoLoc}
                              /\ merge.view[k] \in Location \cup {NoLoc}
                              /\ merge.moved[k] \in Location \cup {NoLoc}
  <1>1. merge \in Merge /\ keydir \in Index BY DEF TypeOK
  <1>2. /\ merge.kind \in {"none", "compact", "background", "restore"}
        /\ merge.stage \in {"idle", "copy", "placed", "unlink"}
        /\ merge.id \in 0..MaxId /\ merge.old \subseteq Id /\ merge.cur \in 0..MaxId
        /\ merge.gone \subseteq Id /\ merge.oldBytes \in Nat
        /\ merge.view \in Index /\ merge.moved \in Index /\ merge.part \in Seq(Record)
    BY <1>1 DEF Merge
  <1>3. Id \subseteq Nat /\ 0 \notin Id /\ MaxId \in Nat BY BoundsAssumption DEF Id
  <1>4. QED BY <1>1, <1>2, <1>3 DEF Index

LEMMA HeldType ==
    ASSUME TypeOK, NEW id \in Id PROVE Held(id) \in Seq(Record) /\ Len(Held(id)) \in Nat
  <1>1. data[id] \in Seq(Record) /\ w.pending \in Seq(Record) BY DEF TypeOK
  <1>2. data[id] \o w.pending \in Seq(Record) BY <1>1, ConcatProperties
  <1>3. Held(id) \in Seq(Record) BY <1>1, <1>2 DEF Held
  <1>4. QED BY <1>3, LenProperties

LEMMA AdvanceFinds ==
    ASSUME TypeOK, Advances
    PROVE  \A loc \in Location \cup {NoLoc} : \A v : Finds(loc, v) => Finds(loc, v)'
  <1>1. \A id \in readers : Len(Held(id)) \in Nat /\ Len(Held(id)') \in Nat
    <2> TAKE id \in readers
    <2>1. Len(Held(id)) \in Nat BY HeldType DEF TypeOK
    <2>2. data'[id] \in Seq(Record) /\ w'.pending \in Seq(Record) BY DEF TypeOK, Advances
    <2>3. data'[id] \o w'.pending \in Seq(Record) BY <2>2, ConcatProperties
    <2>4. Held(id)' \in Seq(Record) BY <2>2, <2>3 DEF Held
    <2>5. Len(Held(id)') \in Nat BY <2>4, LenProperties
    <2>6. QED BY <2>1, <2>5
  <1>2. readers \subseteq readers' /\ \A id \in readers : Grows(Held(id), Held(id)') BY DEF Advances
  <1>3. QED BY <1>1, <1>2, FindsKept

LEMMA OpenFacts ==
    ASSUME Inv, up, merge.kind # "compact"
    PROVE  /\ TypeOK /\ FilesInv /\ ActiveInv /\ readers \subseteq dir
           /\ dir \subseteq 1..w.id /\ w.id \in Id
  <1>1. TypeOK /\ FilesInv /\ OpenInv /\ MergeInv BY DEF Inv
  <1>2. ActiveInv /\ dir = readers \cup Unread BY <1>1 DEF OpenInv, Replacing
  <1>3. w.id \in Id /\ w.id \in Nat BY <1>1, BoundsAssumption, SMTT(30) DEF TypeOK, Id
  <1>4. \A x \in Unread : x \in 1..w.id
    <2> TAKE x \in Unread
    <2>1. merge.kind # "none"
      <3>1. merge.kind = "none" => merge = NoMerge BY <1>1 DEF MergeInv
      <3>2. merge = NoMerge => Unread = {} BY DEF NoMerge, Unread
      <3>3. QED BY <3>1, <3>2
    <2>2. merge.id < w.id /\ merge.id \in Id /\ merge.cur < merge.id /\ merge.cur \in 0..MaxId
      BY <1>1, <2>1, MergeFields DEF MergeInv
    <2>3. x = merge.id \/ (x = merge.cur /\ x # 0) BY DEF Unread
    <2>4. QED BY <1>3, <2>2, <2>3, BoundsAssumption DEF Id
  <1>5. QED BY <1>1, <1>2, <1>3, <1>4 DEF ActiveInv

(* A merge that lets the store go on.                                      *)
LEMMA ReadyFacts ==
    ASSUME Inv, Ready
    PROVE  /\ up /\ merge.kind # "compact" /\ merge.stage # "unlink"
           /\ merge.kind # "none" =>
                 /\ merge.stage \in {"copy", "placed"} /\ merge.cur = 0
                 /\ merge.id \in Id /\ merge.id < w.id
                 /\ merge.old \subseteq readers /\ \A id \in merge.old : id < merge.id
                 /\ merge.stage = "placed" => data[merge.id] = merge.part /\ merge.id \in dir
                 /\ merge.stage = "copy" => merge.id \notin readers
           /\ merge.kind = "none" => merge = NoMerge
  <1>1. up /\ merge.kind # "compact" /\ merge.stage # "unlink" BY DEF Ready, Exclusive
  <1>2. MergeInv /\ TypeOK BY DEF Inv
  <1>3. QED BY <1>1, <1>2, MergeFields DEF MergeInv

LEMMA AdvanceKeeps ==
    ASSUME Inv, Ready, Advances, dir' = dir \cup {w'.id},
           UNCHANGED <<merge, up, torn>>
    PROVE  /\ StoppedInv' /\ OpenInv' /\ MergeInv'
           /\ \A loc \in Location \cup {NoLoc} : \A v : Finds(loc, v) => Finds(loc, v)'
           /\ (\A k \in Keys : keydir'[k] = keydir[k] \/ keydir'[k].id = 0 \/ keydir'[k].id = w'.id)
                 => CopyInv'
  <1>1. /\ TypeOK /\ OpenInv /\ CopyInv /\ MergeInv /\ ActiveInv /\ w.id \in Id /\ readers \subseteq Id
        /\ data \in [Id -> Seq(Record)] /\ dir \subseteq Id
    BY ReadyFacts, OpenFacts DEF Inv, TypeOK
  <1>2. /\ w'.id \in Id /\ w'.id >= w.id /\ readers' = readers \cup {w'.id}
        /\ ActiveInv'
        /\ \A id \in Id \ {w.id, w'.id} : data'[id] = data[id] /\ durable'[id] = durable[id]
        /\ w'.id # w.id => durable'[w.id] = Len(data'[w.id])
        /\ \A id \in readers : Grows(Held(id), Held(id)')
    BY DEF Advances
  <1>3. /\ up /\ merge.kind # "compact" /\ merge.stage # "unlink"
        /\ merge.kind # "none" =>
                 /\ merge.stage \in {"copy", "placed"} /\ merge.cur = 0
                 /\ merge.id \in Id /\ merge.id < w.id
                 /\ merge.old \subseteq readers /\ \A id \in merge.old : id < merge.id
                 /\ merge.stage = "placed" => data[merge.id] = merge.part /\ merge.id \in dir
                 /\ merge.stage = "copy" => merge.id \notin readers
        /\ merge.kind = "none" => merge = NoMerge
    BY ReadyFacts
  <1>4. /\ w.id \in Nat /\ w'.id \in Nat /\ Id \subseteq Nat /\ 0 \notin Id
    BY <1>1, <1>2, BoundsAssumption DEF Id
  <1>5. merge.kind # "none" => \A id \in Id : id <= merge.id => id < w.id /\ id < w'.id
    <2> SUFFICES ASSUME merge.kind # "none", NEW id \in Id, id <= merge.id
                 PROVE  id < w.id /\ id < w'.id
      OBVIOUS
    <2>1. id \in Nat /\ merge.id \in Nat /\ merge.id < w.id /\ w'.id >= w.id BY <1>2, <1>3, <1>4
    <2>2. \A a, b, c, d \in Nat : a <= b /\ b < c /\ d >= c => a < c /\ a < d OBVIOUS
    <2>3. QED BY <1>4, <2>1, <2>2
  <1>6. StoppedInv' BY <1>3 DEF StoppedInv
  <1>7. OpenInv'
    <2>1. torn' = {} BY <1>1, <1>3 DEF OpenInv
    <2>2. dir' = (readers \cup Unread)' /\ Unread' = Unread BY <1>1, <1>2, <1>3 DEF OpenInv, Unread
    <2>3. \A id \in dir' \ {w'.id} : durable'[id] = Len(data'[id])
      <3> TAKE id \in dir' \ {w'.id}
      <3>1. id \in dir OBVIOUS
      <3>2. CASE id = w.id BY <1>2, <3>2
      <3>3. CASE id # w.id
        <4>1. durable[id] = Len(data[id]) BY <1>1, <1>3, <3>1, <3>3 DEF OpenInv
        <4>2. QED BY <1>1, <1>2, <3>1, <3>3, <4>1
      <3>4. QED BY <3>2, <3>3
    <2>4. QED BY <1>2, <2>1, <2>2, <2>3 DEF OpenInv
  <1>8. merge.kind # "none" => merge.id \notin {w.id, w'.id} /\ data'[merge.id] = data[merge.id]
    <2>1. merge.kind # "none" => merge.id \notin {w.id, w'.id} BY <1>3, <1>4, <1>5
    <2>2. QED BY <1>2, <1>3, <2>1
  <1>9. MergeInv'
    <2>1. CASE merge.kind = "none" BY <1>3, <2>1 DEF MergeInv, NoMerge
    <2>2. CASE merge.kind # "none"
      <3>1. merge.id < w'.id
        <4>1. merge.id \in Id /\ merge.id \in Nat BY <1>3, <1>4, <2>2
        <4>2. merge.id <= merge.id BY <4>1
        <4>3. QED BY <1>5, <2>2, <4>1, <4>2
      <3>2. merge.stage = "copy" => merge.id \notin readers' BY <1>2, <1>3, <1>8, <2>2
      <3>3. merge.stage # "copy" => merge.id \in dir' /\ data'[merge.id] = merge.part
        BY <1>3, <1>8, <2>2
      <3>4. merge.old \subseteq readers' BY <1>2, <1>3, <2>2
      <3>5. QED BY <1>1, <1>3, <2>2, <3>1, <3>2, <3>3, <3>4 DEF MergeInv
    <2>3. QED BY <2>1, <2>2
  <1>10. \A loc \in Location \cup {NoLoc} : \A v : Finds(loc, v) => Finds(loc, v)'
    BY <1>1, AdvanceFinds
  <1>11. ASSUME \A k \in Keys : keydir'[k] = keydir[k] \/ keydir'[k].id = 0 \/ keydir'[k].id = w'.id,
                merge.kind # "none", NEW k \in Keys
         PROVE  /\ merge.moved[k] # NoLoc => /\ merge.moved[k].id = merge.id
                                             /\ merge.moved[k].off < Len(Out)'
                                             /\ merge.kind # "restore" => merge.view[k] # NoLoc
                /\ merge.stage # "copy" /\ merge.view[k] # NoLoc => merge.moved[k] # NoLoc
                /\ merge.kind = "background" /\ merge.stage # "unlink" =>
                     /\ merge.view[k] # NoLoc => /\ merge.view[k].id \in merge.old
                                                 /\ merge.view[k].off < Len(data'[merge.view[k].id])
                     /\ keydir'[k].id \in merge.old => keydir'[k] = merge.view[k]
                     /\ merge.moved[k] # NoLoc =>
                           Out'[merge.moved[k].off + 1].val =
                               data'[merge.view[k].id][merge.view[k].off + 1].val
    <2>1. Out' = Out BY <1>3 DEF Out
    <2>2. \A id \in merge.old : data'[id] = data[id] /\ id # 0 /\ id # w'.id
      <3> TAKE id \in merge.old
      <3>1. id \in Id /\ id < merge.id /\ merge.id \in Id BY <1>1, <1>3, <1>11
      <3>2. id <= merge.id
        <4>1. id \in Nat /\ merge.id \in Nat BY <1>4, <3>1
        <4>2. QED BY <3>1, <4>1
      <3>3. id < w.id /\ id < w'.id /\ id # 0 BY <1>4, <1>5, <1>11, <3>1, <3>2
      <3>4. QED BY <1>2, <1>4, <3>1, <3>3
    <2>3. keydir'[k].id \in merge.old => keydir'[k] = keydir[k] BY <1>11, <2>2
    <2>4. /\ merge.moved[k] # NoLoc => /\ merge.moved[k].id = merge.id
                                       /\ merge.moved[k].off < Len(Out)
                                       /\ merge.kind # "restore" => merge.view[k] # NoLoc
          /\ merge.stage # "copy" /\ merge.view[k] # NoLoc => merge.moved[k] # NoLoc
          /\ merge.kind = "background" /\ merge.stage # "unlink" =>
                     /\ merge.view[k] # NoLoc => /\ merge.view[k].id \in merge.old
                                                 /\ merge.view[k].off < Len(data[merge.view[k].id])
                     /\ keydir[k].id \in merge.old => keydir[k] = merge.view[k]
                     /\ merge.moved[k] # NoLoc =>
                           Out[merge.moved[k].off + 1].val =
                               data[merge.view[k].id][merge.view[k].off + 1].val
      BY <1>1, <1>11 DEF CopyInv
    <2>5. Len(Out)' = Len(Out) BY <2>1
    <2> HIDE DEF Out
    <2>6. QED BY <2>1, <2>2, <2>3, <2>4, <2>5, Zenon
  <1>12. (\A k \in Keys : keydir'[k] = keydir[k] \/ keydir'[k].id = 0 \/ keydir'[k].id = w'.id)
            => CopyInv'
    BY <1>3, <1>11, Zenon DEF CopyInv
  <1>13. QED BY <1>6, <1>7, <1>9, <1>10, <1>12

-----------------------------------------------------------------------------
(* Store::put, Store::delete and Store::sync.                              *)

LEMMA RememberFacts ==
    ASSUME history \in Seq(Contents), history # <<>>, kern \in 1..Len(history),
           NEW c \in Contents, NEW reach, Remember(c, reach)
    PROVE  /\ history' \in Seq(Contents) /\ history' # <<>>
           /\ kern' \in 1..Len(history') /\ Last(history') = c
  <1>1. Len(history) \in Nat BY LenProperties
  <1>2. CASE reach = "Disk"
    <2>1. history' = <<c>> /\ kern' = Len(history') BY <1>2 DEF Remember
    <2>2. <<c>> \in Seq(Contents) /\ Len(<<c>>) = 1 /\ <<c>>[1] = c /\ <<c>> # <<>> OBVIOUS
    <2>3. QED BY <2>1, <2>2 DEF Last
  <1>3. CASE reach # "Disk"
    <2> DEFINE h == Append(history, c)
    <2>1. /\ h \in Seq(Contents) /\ Len(h) = Len(history) + 1 /\ h[Len(history) + 1] = c
          /\ h # <<>>
      BY AppendProperties
    <2>2. history' = h /\ (kern' = kern \/ kern' = Len(h)) BY <1>3 DEF Remember
    <2> HIDE DEF h
    <2>3. QED BY <1>1, <2>1, <2>2 DEF Last
  <1>4. QED BY <1>2, <1>3

LEMMA WriteKeeps ==
    ASSUME Inv, Ready, NEW k \in Keys, NEW v \in Values \cup {Absent}, NEW reach \in Reach,
           AppendToLog([key |-> k, val |-> v], reach),
           Remember([Last(history) EXCEPT ![k] = v], reach),
           NEW loc, keydir' = [keydir EXCEPT ![k] = loc],
           loc = (IF v = Absent THEN NoLoc ELSE Landed),
           live_bytes' \in Int, disk_bytes' = disk_bytes + 1,
           writes < MaxWrites, writes' = writes + 1,
           UNCHANGED <<torn, up, merge, crashes, merges>>
    PROVE  Inv'
  <1> DEFINE rec == [key |-> k, val |-> v]
             old == Last(history)
             c == [old EXCEPT ![k] = v]
  <1>1. TypeOK /\ FilesInv /\ ActiveInv /\ readers \subseteq dir /\ dir \subseteq 1..w.id /\ w.id \in Id
    BY ReadyFacts, OpenFacts
  <1>2. rec \in Record BY DEF Record
  <1>3. Appends(rec) BY <1>1, <1>2, AppendStep
  <1>4. Advances /\ dir' = dir \cup {w'.id} /\ w'.id \in Id BY <1>3 DEF Appends, Advances
  <1>5. old \in Contents
    <2>1. history \in Seq(Contents) /\ history # <<>> BY <1>1 DEF TypeOK
    <2>2. Len(history) \in Nat /\ Len(history) # 0 BY <2>1, EmptySeq, LenProperties
    <2>3. Len(history) \in 1..Len(history) BY <2>2
    <2>4. QED BY <2>1, <2>3, ElementOfSeq DEF Last
  <1>6. c \in Contents /\ c[k] = v /\ \A j \in Keys \ {k} : c[j] = old[j] BY <1>5 DEF Contents
  <1> HIDE DEF rec, c, old
  <1>7. /\ history' \in Seq(Contents) /\ history' # <<>>
        /\ kern' \in 1..Len(history') /\ Last(history') = c
        /\ crash' = crash /\ excused' = excused
    <2>1. history \in Seq(Contents) /\ history # <<>> /\ kern \in 1..Len(history) BY <1>1 DEF TypeOK
    <2>2. Remember(c, reach) BY DEF c, old
    <2>3. crash' = crash /\ excused' = excused BY <2>2 DEF Remember
    <2>4. QED BY <1>6, <2>1, <2>2, <2>3, RememberFacts
  <1>8. /\ keydir \in Index /\ keydir'[k] = loc
        /\ \A j \in Keys \ {k} : keydir'[j] = keydir[j]
    BY <1>1 DEF TypeOK, Index
  <1>9. /\ loc \in Location \cup {NoLoc} /\ (loc.id = 0 \/ loc.id = w'.id)
        /\ Finds(loc, v)'
    <2>1. CASE v = Absent
      <3>1. loc = NoLoc BY <2>1
      <3>2. loc.id = 0 BY <3>1 DEF NoLoc
      <3>3. QED BY <2>1, <3>1, <3>2 DEF Finds
    <2>2. CASE v # Absent
      <3>1. loc = [id |-> w'.id, off |-> w'.offset - 1] BY <2>2 DEF Landed
      <3>2. loc.id = w'.id /\ loc.off = w'.offset - 1 BY <3>1
      <3>3. /\ w'.offset - 1 \in Nat /\ w'.offset - 1 < Len(Held(w.id)')
            /\ Held(w.id)'[w'.offset] = rec /\ w'.id \in readers' /\ w'.offset \in Nat
        BY <1>3 DEF Appends, Advances
      <3>4. loc \in Location /\ loc # NoLoc
        <4>1. w'.id # 0 BY <1>4, BoundsAssumption DEF Id
        <4>2. QED BY <1>4, <3>1, <3>3, <4>1 DEF Location, NoLoc
      <3>5. \A id : id = w'.id => Held(id)' = data'[id] \o w'.pending BY DEF Held
      <3>6. Held(w.id)' = data'[w'.id] \o w'.pending BY DEF Held
      <3>7. Held(loc.id)' = Held(w.id)'
        <4>1. \A id : id = w'.id => (Held(id)' = Held(w.id)') BY <3>5, <3>6
        <4>2. PICK n : n = w'.id OBVIOUS
        <4>3. loc = [id |-> n, off |-> w'.offset - 1] /\ loc.id = n BY <3>1, <4>2
        <4>4. QED BY <4>1, <4>2, <4>3
      <3>8. rec.val = v BY DEF rec
      <3>9. loc.off + 1 = w'.offset BY <3>2, <3>3
      <3>10. QED BY <3>2, <3>3, <3>4, <3>7, <3>8, <3>9 DEF Finds
    <2>3. QED BY <2>1, <2>2
  <1>10. TypeOK'
    <2>1. keydir' \in Index BY <1>8, <1>9 DEF Index
    <2>2. /\ dir' \subseteq Id /\ torn' \subseteq dir' /\ readers' \subseteq Id
          /\ up' \in BOOLEAN /\ excused' \subseteq {"unlink", "restore", "sealed"}
          /\ merge' \in Merge /\ crash' \in {"close", "kill", "power"}
          /\ crashes' \in 0..MaxCrashes /\ merges' \in 0..MaxMerges
      BY <1>1, <1>4, <1>7 DEF TypeOK, Advances
    <2>3. writes' \in 0..MaxWrites
      <3>1. writes \in 0..MaxWrites /\ MaxWrites \in Nat BY <1>1, BoundsAssumption DEF TypeOK
      <3>2. QED BY <3>1
    <2>4. /\ data' \in [Id -> Seq(Record)] /\ durable' \in [Id -> Nat]
          /\ hints' \in [Id -> Seq(Entry)] /\ activeHints' \in Seq(Entry)
          /\ w' \in [id : Id, offset : Nat, written : Nat, synced : Nat, pending : Seq(Record)]
      BY <1>4 DEF Advances
    <2>5. disk_bytes' \in Nat BY <1>1 DEF TypeOK
    <2>6. QED BY <1>7, <2>1, <2>2, <2>3, <2>4, <2>5 DEF TypeOK
  <1>11. \A j \in Keys : keydir'[j] = keydir[j] \/ keydir'[j].id = 0 \/ keydir'[j].id = w'.id
    BY <1>8, <1>9
  <1>12. /\ StoppedInv' /\ OpenInv' /\ MergeInv' /\ CopyInv'
         /\ \A l \in Location \cup {NoLoc} : \A x : Finds(l, x) => Finds(l, x)'
    BY <1>4, <1>11, AdvanceKeeps
  <1>13. \A j \in Keys : Finds(keydir[j], old[j]) BY ReadyFacts DEF Inv, IndexInv, old
  <1>14. IndexInv'
    <2> SUFFICES ASSUME NEW j \in Keys PROVE Finds(keydir[j], Last(history)[j])' BY DEF IndexInv
    <2>1. CASE j = k
      <3>1. PICK x : x = keydir'[j] /\ x = loc BY <1>8, <2>1
      <3>2. PICK y : y = Last(history)'[j] /\ y = v BY <1>6, <1>7, <2>1
      <3>3. Finds(x, y)' BY <1>9, <3>1, <3>2
      <3>4. QED BY <3>1, <3>2, <3>3
    <2>2. CASE j # k
      <3>1. PICK x \in Location \cup {NoLoc} : x = keydir'[j] /\ x = keydir[j]
        BY <1>8, <2>2 DEF Index
      <3>2. PICK y : y = Last(history)'[j] /\ y = old[j] BY <1>6, <1>7, <2>2
      <3>3. Finds(x, y) BY <1>13, <3>1, <3>2
      <3>4. Finds(x, y)' BY <1>12, <3>3
      <3>5. QED BY <3>1, <3>2, <3>4
    <2>3. QED BY <2>1, <2>2
  <1>15. FilesInv' BY <1>4 DEF Advances
  <1>16. BytesInv'
    <2>1. BytesInv /\ merge.oldBytes \in Nat /\ disk_bytes \in Nat
      BY <1>1, MergeFields DEF Inv, TypeOK
    <2>2. QED BY <2>1 DEF BytesInv
  <1>17. QED BY <1>10, <1>12, <1>14, <1>15, <1>16 DEF Inv

LEMMA PutKeeps ==
    ASSUME Inv, NEW k \in Keys, NEW v \in Values, NEW reach \in Reaches, Put(k, v, reach)
    PROVE  Inv'
  <1>1. /\ Ready /\ AppendToLog([key |-> k, val |-> v], reach)
        /\ keydir' = [keydir EXCEPT ![k] = Landed]
        /\ Remember([Last(history) EXCEPT ![k] = v], reach)
        /\ writes < MaxWrites /\ writes' = writes + 1
        /\ UNCHANGED <<torn, up, merge, crashes, merges>>
    BY DEF Put
  <1>2. live_bytes' \in Int /\ disk_bytes' = disk_bytes + 1
    <2>1. live_bytes \in Int BY DEF Inv, TypeOK
    <2>2. QED BY <2>1 DEF Put
  <1>3. v \in Values \cup {Absent} /\ v # Absent /\ reach \in Reach
    BY AbsentAssumption, PolicyAssumption DEF Reaches, Reach
  <1>4. PICK loc : loc = Landed OBVIOUS
  <1>5. loc = (IF v = Absent THEN NoLoc ELSE Landed) /\ keydir' = [keydir EXCEPT ![k] = loc]
    BY <1>1, <1>3, <1>4
  <1>6. QED BY <1>1, <1>2, <1>3, <1>5, WriteKeeps

LEMMA DeleteKeeps == ASSUME Inv, NEW k \in Keys, NEW reach \in Reaches, Delete(k, reach) PROVE Inv'
  <1>1. /\ Ready /\ AppendToLog([key |-> k, val |-> Absent], reach)
        /\ keydir' = [keydir EXCEPT ![k] = NoLoc]
        /\ Remember([Last(history) EXCEPT ![k] = Absent], reach)
        /\ writes < MaxWrites /\ writes' = writes + 1
        /\ UNCHANGED <<torn, up, merge, crashes, merges>>
    BY DEF Delete
  <1>2. live_bytes' \in Int /\ disk_bytes' = disk_bytes + 1
    <2>1. live_bytes \in Int BY DEF Inv, TypeOK
    <2>2. QED BY <2>1 DEF Delete
  <1>3. reach \in Reach BY PolicyAssumption DEF Reaches, Reach
  <1>4. QED BY <1>1, <1>2, <1>3, WriteKeeps

LEMMA LastFacts ==
    ASSUME TypeOK
    PROVE  /\ Last(history) \in Contents
           /\ <<Last(history)>> \in Seq(Contents) /\ <<Last(history)>> # <<>>
           /\ 1 \in 1..Len(<<Last(history)>>) /\ Last(<<Last(history)>>) = Last(history)
  <1>1. history \in Seq(Contents) /\ history # <<>> BY DEF TypeOK
  <1>2. Len(history) \in Nat /\ Len(history) # 0 BY <1>1, EmptySeq, LenProperties
  <1>3. Len(history) \in 1..Len(history) BY <1>2
  <1>4. Last(history) \in Contents BY <1>1, <1>3, ElementOfSeq DEF Last
  <1>5. \A c \in Contents : /\ <<c>> \in Seq(Contents) /\ <<c>> # <<>>
                            /\ 1 \in 1..Len(<<c>>) /\ Last(<<c>>) = c
    BY DEF Last
  <1>6. QED BY <1>4, <1>5

(* The index and the contents are as they were.                            *)
LEMMA IndexKept ==
    ASSUME TypeOK, \A k \in Keys : Finds(keydir[k], Last(history)[k]),
           \A loc \in Location \cup {NoLoc} : \A v : Finds(loc, v) => Finds(loc, v)',
           keydir' = keydir, Last(history') = Last(history)
    PROVE  \A k \in Keys : Finds(keydir[k], Last(history)[k])'
  <1> TAKE k \in Keys
  <1>1. PICK x \in Location \cup {NoLoc} : x = keydir'[k] /\ x = keydir[k] BY DEF TypeOK, Index
  <1>2. PICK y : y = Last(history)'[k] /\ y = Last(history)[k] OBVIOUS
  <1>3. Finds(x, y)' BY <1>1, <1>2
  <1>4. QED BY <1>1, <1>2, <1>3

LEMMA SyncKeepsInv == ASSUME Inv, Sync PROVE Inv'
  <1>1. /\ TypeOK /\ FilesInv /\ ActiveInv /\ readers \subseteq dir /\ dir \subseteq 1..w.id
        /\ w.id \in Id /\ Ready
    BY ReadyFacts, OpenFacts DEF Sync
  <1>2. /\ WriterOK(Sealed) /\ Sealed.file = Held(w.id) /\ Sealed.durable = Len(Held(w.id))
        /\ Appended(Sealed) = Held(w.id)
        /\ Grows(data[w.id], Held(w.id)) /\ Held(w.id) \in Seq(Record)
        /\ durable[w.id] <= Len(Held(w.id))
    BY <1>1, SealIs
  <1>3. Grows(Held(w.id), Appended(Sealed)) /\ Len(data[w.id]) <= Len(Sealed.file)
    BY <1>2, GrowsFacts DEF Grows
  <1>4. activeHints' = EntriesOf(Appended(Sealed)) BY <1>1, <1>2, ActiveFacts DEF Sync, ActiveInv
  <1>5. Advances /\ w'.id = w.id BY <1>1, <1>2, <1>3, <1>4, InPlace DEF Sync
  <1>6. dir' = dir \cup {w'.id} BY <1>1, <1>5 DEF Sync, ActiveInv
  <1>7. UNCHANGED <<merge, up, torn>> /\ keydir' = keydir BY DEF Sync, index
  <1>8. /\ StoppedInv' /\ OpenInv' /\ MergeInv' /\ CopyInv'
        /\ \A loc \in Location \cup {NoLoc} : \A v : Finds(loc, v) => Finds(loc, v)'
    BY <1>1, <1>5, <1>6, <1>7, AdvanceKeeps
  <1>9. /\ history' = <<Last(history)>> /\ kern' = 1 /\ live_bytes' = live_bytes
        /\ UNCHANGED <<dir, torn, hints, readers, up, disk_bytes, merge, crash, excused, bound>>
    BY DEF Sync, index
  <1>10. TypeOK'
    <2>1. history' \in Seq(Contents) /\ history' # <<>> /\ kern' \in 1..Len(history')
      BY <1>1, <1>9, LastFacts
    <2>2. /\ data' \in [Id -> Seq(Record)] /\ durable' \in [Id -> Nat]
          /\ activeHints' \in Seq(Entry)
          /\ w' \in [id : Id, offset : Nat, written : Nat, synced : Nat, pending : Seq(Record)]
      BY <1>5 DEF Advances
    <2>3. QED BY <1>1, <1>7, <1>9, <2>1, <2>2 DEF TypeOK, bound
  <1>11. IndexInv'
    <2>1. \A k \in Keys : Finds(keydir[k], Last(history)[k]) BY <1>1, ReadyFacts DEF Inv, IndexInv
    <2>2. Last(history') = Last(history) BY <1>1, <1>9, LastFacts
    <2>3. \A k \in Keys : Finds(keydir[k], Last(history)[k])'
      BY <1>1, <1>7, <1>8, <2>1, <2>2, IndexKept
    <2>4. QED BY <2>3 DEF IndexInv
  <1>12. FilesInv' BY <1>5 DEF Advances
  <1>13. BytesInv' BY <1>9 DEF Inv, BytesInv
  <1>14. QED BY <1>8, <1>10, <1>11, <1>12, <1>13 DEF Inv

-----------------------------------------------------------------------------
(* Merging beside the store.                                               *)

(* The store is open, nothing is being merged.                             *)
LEMMA FreeFacts ==
    ASSUME Inv, Ready, ~Compacting, ~Restoring
    PROVE  merge = NoMerge /\ merge.kind = "none" /\ dir = readers
  <1>1. merge.kind = "none"
    <2>1. merge.kind \in {"none", "compact", "background", "restore"} BY MergeFields DEF Inv
    <2>2. QED BY <2>1, ReadyFacts DEF Compacting, Restoring
  <1>2. merge = NoMerge BY <1>1, ReadyFacts
  <1>3. dir = readers \cup Unread BY ReadyFacts DEF Inv, OpenInv
  <1>4. Unread = {} BY <1>2 DEF Unread, NoMerge
  <1>5. QED BY <1>1, <1>2, <1>3, <1>4

LEMMA SealLeavingASlotKeeps ==
    ASSUME Inv, NEW kind \in {"background", "restore"}, SealLeavingASlot(kind) PROVE Inv'
  <1> DEFINE n == w.id + 2
             e == OpenWriter(<<>>, 0)
             view == IF kind = "background" THEN keydir ELSE Nowhere
  <1>1. PICK hinted \in BOOLEAN :
        /\ Ready /\ ~Compacting /\ ~Restoring
        /\ merges < MaxMerges /\ n <= MaxId
        /\ data' = [data EXCEPT ![w.id] = Sealed.file]
        /\ durable' = [durable EXCEPT ![w.id] = Sealed.durable]
        /\ hints' = [hints EXCEPT ![w.id] = SealHint(hinted)]
        /\ activeHints' = <<>>
        /\ w' = Attach(n, e)
        /\ dir' = dir \cup {n}
        /\ readers' = readers \cup {n}
        /\ merge' = [NoMerge EXCEPT !.kind = kind, !.stage = "copy",
                        !.id = w.id + 1, !.old = readers,
                        !.oldBytes = disk_bytes, !.view = view]
        /\ merges' = merges + 1
        /\ UNCHANGED <<torn, up, index, disk_bytes, ghost, writes, crashes>>
    BY DEF SealLeavingASlot, NextActive, Slot
  <1>2. /\ TypeOK /\ FilesInv /\ ActiveInv /\ readers \subseteq dir /\ dir \subseteq 1..w.id
        /\ w.id \in Id /\ Ready /\ up
    BY <1>1, ReadyFacts, OpenFacts
  <1>3. merge = NoMerge /\ merge.kind = "none" /\ dir = readers BY <1>1, FreeFacts
  <1>4. n \in Id /\ n > w.id /\ w.id + 1 \in Id /\ w.id \in Nat /\ w.id + 1 < n
    <2>1. w.id \in Nat /\ w.id >= 1 /\ MaxId \in Nat BY <1>2, BoundsAssumption DEF Id
    <2>2. QED BY <1>1, <2>1 DEF Id
  <1>5. WriterOK(e) /\ Appended(e) = <<>> /\ e.file = <<>> /\ e.durable = 0 BY EmptyWriter
  <1> HIDE DEF n, e
  <1>6. n # w.id /\ n \notin dir
    <2>1. n \in Nat /\ n \notin 1..w.id BY <1>4, BoundsAssumption DEF Id
    <2>2. QED BY <1>2, <1>4, <2>1
  <1>7. data[n] = <<>> /\ durable[n] = 0
    <2>1. data[n] = <<>> /\ FileOK(data[n], durable[n], hints[n]) BY <1>2, <1>4, <1>6 DEF FilesInv
    <2>2. durable[n] \in Nat /\ Len(<<>>) = 0 BY <1>2, <1>4 DEF TypeOK
    <2>3. QED BY <2>1, <2>2 DEF FileOK
  <1>8. /\ data' = [data EXCEPT ![w.id] = Sealed.file, ![n] = e.file]
        /\ durable' = [durable EXCEPT ![w.id] = Sealed.durable, ![n] = e.durable]
    <2>1. data \in [Id -> Seq(Record)] /\ durable \in [Id -> Nat] BY <1>2 DEF TypeOK
    <2>2. QED BY <1>1, <1>2, <1>4, <1>5, <1>6, <1>7, <2>1
  <1>9. activeHints' = EntriesOf(Appended(e)) BY <1>1, <1>5 DEF EntriesOf
  <1>10. /\ Advances /\ w'.id = n
         /\ \A id \in readers : Held(id)' = Held(id)
         /\ data'[w.id] = Held(w.id)
    BY <1>1, <1>2, <1>4, <1>5, <1>8, <1>9, SealAndGoOn
  <1> HIDE DEF view
  <1>11. /\ merge'.kind = kind /\ merge'.stage = "copy" /\ merge'.id = w.id + 1
         /\ merge'.old = readers /\ merge'.cur = 0 /\ merge'.gone = {}
         /\ merge'.oldBytes = disk_bytes /\ merge'.view = view
         /\ merge'.moved = Nowhere /\ merge'.part = <<>>
    BY <1>1 DEF NoMerge
  <1>12. view \in Index /\ Nowhere \in Index BY <1>2 DEF TypeOK, Index, Nowhere, view
  <1>13. TypeOK'
    <2>1. merge' \in Merge
      <3>1. merge' = [kind |-> kind, stage |-> "copy", id |-> w.id + 1, old |-> readers,
                      cur |-> 0, gone |-> {}, oldBytes |-> disk_bytes, view |-> view,
                      moved |-> Nowhere, part |-> <<>>]
        BY <1>1 DEF NoMerge
      <3>2. w.id + 1 \in 0..MaxId /\ 0 \in 0..MaxId BY <1>4, BoundsAssumption DEF Id
      <3>3. readers \in SUBSET Id /\ {} \in SUBSET Id /\ disk_bytes \in Nat /\ <<>> \in Seq(Record)
        BY <1>2 DEF TypeOK
      <3>4. QED BY <1>12, <3>1, <3>2, <3>3 DEF Merge
    <2>2. /\ data' \in [Id -> Seq(Record)] /\ durable' \in [Id -> Nat]
          /\ hints' \in [Id -> Seq(Entry)] /\ activeHints' \in Seq(Entry)
          /\ w' \in [id : Id, offset : Nat, written : Nat, synced : Nat, pending : Seq(Record)]
      BY <1>10 DEF Advances
    <2>3. merges' \in 0..MaxMerges
      <3>1. merges \in 0..MaxMerges /\ MaxMerges \in Nat BY <1>2, BoundsAssumption DEF TypeOK
      <3>2. QED BY <1>1, <3>1
    <2>4. dir' \subseteq Id /\ torn' \subseteq dir' /\ readers' \subseteq Id
      BY <1>1, <1>2, <1>4 DEF TypeOK
    <2>5. QED BY <1>1, <1>2, <2>1, <2>2, <2>3, <2>4 DEF TypeOK, index, ghost
  <1>14. StoppedInv' BY <1>1, <1>2 DEF StoppedInv
  <1>15. OpenInv'
    <2>1. Unread' = {} BY <1>11 DEF Unread
    <2>2. torn' = {} /\ dir' = readers' BY <1>1, <1>2, <1>3 DEF Inv, OpenInv
    <2>3. \A id \in dir' \ {w'.id} : durable'[id] = Len(data'[id])
      <3> TAKE id \in dir' \ {w'.id}
      <3>1. id \in dir /\ id \in Id BY <1>1, <1>2, <1>10 DEF TypeOK
      <3>2. CASE id = w.id BY <1>6, <1>10, <3>2 DEF Advances
      <3>3. CASE id # w.id
        <4>1. durable[id] = Len(data[id]) BY <1>2, <1>3, <3>1, <3>3 DEF Inv, OpenInv
        <4>2. QED BY <1>10, <3>1, <3>3, <4>1 DEF Advances
      <3>4. QED BY <3>2, <3>3
    <2>4. ActiveInv' BY <1>10 DEF Advances
    <2>5. QED BY <2>1, <2>2, <2>3, <2>4 DEF OpenInv
  <1>16. MergeInv'
    <2>1. w.id + 1 \notin readers' /\ \A id \in readers : id < w.id + 1
      <3>1. \A id \in 1..w.id : id < w.id + 1 BY <1>4
      <3>2. w.id + 1 \notin 1..w.id /\ w.id + 1 # n BY <1>4
      <3>3. QED BY <1>1, <1>2, <1>3, <3>1, <3>2
    <2>2. 0 < w.id + 1 BY <1>4
    <2>3. QED BY <1>1, <1>4, <1>10, <1>11, <2>1, <2>2 DEF MergeInv
  <1>17. \A loc \in Location \cup {NoLoc} : \A v : Finds(loc, v) => Finds(loc, v)'
    BY <1>2, <1>10, AdvanceFinds
  <1>18. \A k \in Keys : Finds(keydir[k], Last(history)[k]) BY <1>2, <1>3 DEF Inv, IndexInv
  <1>19. IndexInv'
    <2>1. \A k \in Keys : Finds(keydir[k], Last(history)[k])'
      BY <1>1, <1>2, <1>17, <1>18, IndexKept DEF index, ghost
    <2>2. QED BY <2>1 DEF IndexInv
  <1>20. CopyInv'
    <2> SUFFICES ASSUME NEW k \in Keys
                 PROVE  /\ merge'.moved[k] = NoLoc /\ merge'.kind # "compact"
                        /\ merge'.stage = "copy"
                        /\ merge'.kind = "background" =>
                              /\ merge'.view[k] # NoLoc =>
                                    /\ merge'.view[k].id \in merge'.old
                                    /\ merge'.view[k].off < Len(data'[merge'.view[k].id])
                              /\ keydir'[k].id \in merge'.old => keydir'[k] = merge'.view[k]
      BY DEF CopyInv
    <2>1. merge'.moved[k] = NoLoc BY <1>11 DEF Nowhere
    <2>2. ASSUME kind = "background", keydir[k] # NoLoc
          PROVE  keydir[k].id \in readers /\ keydir[k].off < Len(data'[keydir[k].id])
      <3>1. keydir[k].id \in readers /\ keydir[k].off < Len(Held(keydir[k].id))
        BY <1>18, <2>2 DEF Finds
      <3>2. \A id \in readers : data'[id] = Held(id)
        <4> TAKE id \in readers
        <4>1. CASE id = w.id BY <1>10, <4>1
        <4>2. CASE id # w.id
          <5>1. id \in Id /\ id # n /\ Held(id) = data[id] BY <1>2, <1>6, <4>2 DEF TypeOK, Held
          <5>2. QED BY <1>10, <4>2, <5>1 DEF Advances
        <4>3. QED BY <4>1, <4>2
      <3>3. QED BY <3>1, <3>2
    <2>3. keydir' = keydir BY <1>1 DEF index
    <2>4. kind = "background" => view = keydir BY DEF view
    <2>5. QED BY <1>11, <2>1, <2>2, <2>3, <2>4
  <1>21. FilesInv' BY <1>10 DEF Advances
  <1>22. BytesInv'
    <2>1. disk_bytes \in Nat /\ disk_bytes' = disk_bytes BY <1>1, <1>2 DEF TypeOK
    <2>2. QED BY <1>11, <2>1 DEF BytesInv
  <1>23. QED BY <1>13, <1>14, <1>15, <1>16, <1>19, <1>20, <1>21, <1>22 DEF Inv

(* Only the merge itself goes on.                                          *)
LEMMA OnlyTheMerge ==
    ASSUME Inv, up, merge.kind # "compact", merge'.kind # "compact",
           UNCHANGED <<disk, up, index, readers, w, activeHints, ghost, bound>>,
           disk_bytes' \in Nat, merge' \in Merge, Unread' = Unread,
           MergeInv', CopyInv', BytesInv',
           merge.kind = "restore" /\ merge.stage = "unlink" =>
               merge'.kind = "restore" /\ merge'.stage = "unlink"
    PROVE  Inv'
  <1>1. TypeOK /\ FilesInv /\ ActiveInv /\ OpenInv /\ IndexInv BY OpenFacts DEF Inv
  <1>2. UNCHANGED <<dir, data, durable, torn, hints, keydir, live_bytes, history, kern,
                    crash, excused, writes, crashes, merges>>
    BY DEF disk, index, ghost, bound
  <1>3. TypeOK' BY <1>1, <1>2 DEF TypeOK
  <1>4. FilesInv' BY <1>1, <1>2 DEF FilesInv, FileOK
  <1>5. StoppedInv' BY DEF StoppedInv
  <1>6. ActiveInv' BY <1>1, <1>2 DEF ActiveInv, Active
  <1>7. OpenInv'
    <2>1. torn' = {} /\ dir' = readers' \cup Unread' BY <1>1, <1>2 DEF OpenInv
    <2>2. \A id \in dir' \ {w'.id} : durable'[id] = Len(data'[id]) BY <1>1, <1>2 DEF OpenInv
    <2>3. QED BY <1>6, <2>1, <2>2 DEF OpenInv
  <1>8. IndexInv'
    <2> SUFFICES ASSUME ~(merge'.kind = "restore" /\ merge'.stage = "unlink"), NEW k \in Keys
                 PROVE  Finds(keydir[k], Last(history)[k])'
      BY DEF IndexInv
    <2>1. Finds(keydir[k], Last(history)[k]) BY <1>1 DEF IndexInv
    <2>2. QED BY <1>2, <2>1 DEF Finds, Held
  <1>9. QED BY <1>3, <1>4, <1>5, <1>7, <1>8 DEF Inv

(* One more record in the .log.part of CompactionJob::run or RestoreJob.   *)
LEMMA AddToPartKeeps ==
    ASSUME Inv, up, merge.kind \in {"background", "restore"}, merge.stage = "copy",
           NEW k \in Keys, NEW rec \in Record, AddToPart(k, rec), merge.moved[k] = NoLoc,
           merge.kind = "background" =>
               /\ merge.view[k] # NoLoc
               /\ rec.val = data[merge.view[k].id][merge.view[k].off + 1].val
    PROVE  Inv'
  <1> DEFINE p == merge.part
             q == Append(p, rec)
             loc == [id |-> merge.id, off |-> Len(p)]
             m == [merge.moved EXCEPT ![k] = loc]
  <1>1. TypeOK /\ MergeInv /\ CopyInv /\ BytesInv BY DEF Inv
  <1>2. /\ merge \in Merge /\ p \in Seq(Record) /\ merge.moved \in Index
    BY <1>1, MergeFields DEF TypeOK
  <1>3. Len(p) \in Nat BY <1>2, LenProperties
  <1>4. /\ q \in Seq(Record) /\ Len(q) = Len(p) + 1 /\ q[Len(p) + 1] = rec
        /\ \A i \in 1..Len(p) : q[i] = p[i]
    BY <1>2, AppendProperties
  <1>5. merge.id \in Id /\ merge.id # 0 BY <1>1, MergeFields DEF MergeInv
  <1>6. loc \in Location /\ loc # NoLoc /\ loc.id = merge.id /\ loc.off = Len(p)
    BY <1>3, <1>5 DEF Location, NoLoc
  <1> HIDE DEF loc, p, q
  <1>7. m \in Index /\ m[k] = loc /\ \A j \in Keys \ {k} : m[j] = merge.moved[j]
    BY <1>2, <1>6 DEF Index
  <1>8. merge' = [merge EXCEPT !.part = q, !.moved = m] BY <1>2 DEF AddToPart, loc, p, q, Merge
  <1> HIDE DEF m
  <1>9. /\ merge' \in Merge /\ merge'.part = q /\ merge'.moved = m
        /\ merge'.kind = merge.kind /\ merge'.stage = merge.stage /\ merge'.id = merge.id
        /\ merge'.old = merge.old /\ merge'.cur = merge.cur /\ merge'.view = merge.view
        /\ merge'.oldBytes = merge.oldBytes
    BY <1>2, <1>4, <1>7, <1>8 DEF Merge
  <1>10. UNCHANGED <<dir, data, durable, torn, hints, up, keydir, readers, w, disk_bytes, history>>
    BY DEF AddToPart, disk, index, ghost
  <1>11. MergeInv' BY <1>1, <1>9, <1>10 DEF MergeInv
  <1>12. Unread' = Unread BY <1>9 DEF Unread
  <1>13. Out = p /\ Out' = q BY <1>9 DEF Out, p
  <1>14. ASSUME NEW j \in Keys
         PROVE  /\ m[j] # NoLoc => /\ m[j].id = merge.id /\ m[j].off < Len(q)
                                   /\ merge.kind # "restore" => merge.view[j] # NoLoc
                /\ merge.kind = "background" =>
                     /\ merge.view[j] # NoLoc =>
                           /\ merge.view[j].id \in merge.old
                           /\ merge.view[j].off < Len(data[merge.view[j].id])
                     /\ keydir[j].id \in merge.old => keydir[j] = merge.view[j]
                     /\ m[j] # NoLoc => q[m[j].off + 1].val =
                                          data[merge.view[j].id][merge.view[j].off + 1].val
    <2>1. /\ merge.moved[j] # NoLoc => /\ merge.moved[j].id = merge.id
                                       /\ merge.moved[j].off < Len(p)
                                       /\ merge.kind # "restore" => merge.view[j] # NoLoc
          /\ merge.kind = "background" =>
                /\ merge.view[j] # NoLoc => /\ merge.view[j].id \in merge.old
                                            /\ merge.view[j].off < Len(data[merge.view[j].id])
                /\ keydir[j].id \in merge.old => keydir[j] = merge.view[j]
                /\ merge.moved[j] # NoLoc =>
                      p[merge.moved[j].off + 1].val =
                         data[merge.view[j].id][merge.view[j].off + 1].val
      BY <1>1, <1>13 DEF CopyInv
    <2>2. CASE j = k
      <3>1. m[j].off < Len(q) /\ q[m[j].off + 1] = rec BY <1>3, <1>4, <1>6, <1>7, <2>2
      <3>2. QED BY <1>6, <1>7, <2>1, <2>2, <3>1, Zenon
    <2>3. CASE j # k
      <3>1. m[j] = merge.moved[j] BY <1>7, <2>3
      <3>2. m[j] # NoLoc => m[j].off < Len(q) /\ q[m[j].off + 1] = p[m[j].off + 1]
        <4> SUFFICES ASSUME m[j] # NoLoc
                     PROVE  m[j].off < Len(q) /\ q[m[j].off + 1] = p[m[j].off + 1]
          OBVIOUS
        <4>1. m[j].off \in Nat /\ m[j].off < Len(p) BY <1>1, <2>1, <3>1, MergeFields DEF Location
        <4>2. QED BY <1>3, <1>4, <4>1
      <3>3. QED BY <2>1, <3>1, <3>2, Zenon
    <2>4. QED BY <2>2, <2>3
  <1>15. CopyInv'
    <2> SUFFICES ASSUME NEW j \in Keys
                 PROVE  /\ merge'.moved[j] # NoLoc =>
                              /\ merge'.moved[j].id = merge'.id /\ merge'.moved[j].off < Len(Out)'
                              /\ merge'.kind # "restore" => merge'.view[j] # NoLoc
                        /\ merge'.stage = "copy" /\ merge'.kind # "compact"
                        /\ merge'.kind = "background" =>
                             /\ merge'.view[j] # NoLoc =>
                                   /\ merge'.view[j].id \in merge'.old
                                   /\ merge'.view[j].off < Len(data'[merge'.view[j].id])
                             /\ keydir'[j].id \in merge'.old => keydir'[j] = merge'.view[j]
                             /\ merge'.moved[j] # NoLoc => Out'[merge'.moved[j].off + 1].val =
                                  data'[merge'.view[j].id][merge'.view[j].off + 1].val
      BY Zenon DEF CopyInv
    <2>1. Len(Out)' = Len(q) BY <1>13
    <2>2. QED BY <1>9, <1>10, <1>13, <1>14, <2>1, ZenonT(40)
  <1>16. BytesInv' BY <1>1, <1>9, <1>10 DEF BytesInv
  <1>17. disk_bytes' \in Nat BY <1>1, <1>10 DEF TypeOK
  <1>18. QED BY <1>9, <1>11, <1>12, <1>15, <1>16, <1>17, OnlyTheMerge DEF AddToPart

LEMMA JobCopyKeeps == ASSUME Inv, NEW k \in Keys, JobCopy(k) PROVE Inv'
  <1> DEFINE l == merge.view[k]
             rec == data[l.id][l.off + 1]
  <1>1. /\ up /\ merge.kind = "background" /\ merge.stage = "copy"
        /\ l # NoLoc /\ merge.moved[k] = NoLoc /\ AddToPart(k, rec)
    BY DEF JobCopy, Compacting
  <1>2. l.id \in merge.old /\ l.off < Len(data[l.id]) BY <1>1 DEF Inv, CopyInv
  <1>3. l \in Location /\ merge.old \subseteq Id BY <1>1, MergeFields DEF Inv
  <1>4. data[l.id] \in Seq(Record) /\ Len(data[l.id]) \in Nat
    BY <1>2, <1>3, LenProperties DEF Inv, TypeOK
  <1>5. l.off + 1 \in 1..Len(data[l.id])
    <2>1. l.off \in Nat BY <1>3 DEF Location
    <2>2. QED BY <1>2, <1>4, <2>1
  <1>6. rec \in Record BY <1>4, <1>5, ElementOfSeq
  <1>7. QED BY <1>1, <1>6, AddToPartKeeps

LEMMA RestorePushKeeps == ASSUME Inv, NEW k \in Keys, NEW v \in Values, RestorePush(k, v) PROVE Inv'
  <1>1. /\ up /\ merge.kind = "restore" /\ merge.stage = "copy"
        /\ merge.moved[k] = NoLoc /\ AddToPart(k, [key |-> k, val |-> v])
    BY DEF RestorePush, Restoring
  <1>2. [key |-> k, val |-> v] \in Record BY DEF Record
  <1>3. QED BY <1>1, <1>2, AddToPartKeeps

LEMMA NoMergeFacts ==
    /\ NoMerge \in Merge /\ NoMerge.kind = "none" /\ NoMerge.stage = "idle"
    /\ NoMerge.cur = 0 /\ Nowhere \in Index
  <1>1. Nowhere \in Index BY DEF Nowhere, Index
  <1>2. 0 \in 0..MaxId /\ 0 \in Nat /\ <<>> \in Seq(Record) BY BoundsAssumption
  <1>3. QED BY <1>1, <1>2 DEF NoMerge, Merge

(* A merge beside the store ends.                                          *)
LEMMA MergeEnds ==
    ASSUME merge' = NoMerge
    PROVE  merge' \in Merge /\ merge'.kind = "none" /\ merge'.stage = "idle" /\ Unread' = {}
           /\ MergeInv' /\ CopyInv' /\ BytesInv'
  <1>1. merge' \in Merge /\ merge'.kind = "none" /\ merge'.stage = "idle" /\ merge'.cur = 0
    BY NoMergeFacts
  <1>2. QED BY <1>1 DEF Unread, MergeInv, CopyInv, BytesInv

LEMMA AbandonKeeps == ASSUME Inv, Abandon PROVE Inv'
  <1>1. /\ up /\ merge.kind \in {"background", "restore"} /\ merge.stage = "copy"
        /\ merge' = NoMerge
        /\ UNCHANGED <<disk, up, index, readers, w, activeHints, ghost, bound>>
        /\ disk_bytes' = disk_bytes
    BY DEF Abandon, Compacting, Restoring
  <1>2. merge.cur = 0 BY <1>1 DEF Inv, MergeInv
  <1>3. Unread = {} BY <1>1, <1>2 DEF Unread
  <1>4. disk_bytes' \in Nat BY <1>1 DEF Inv, TypeOK
  <1>5. QED BY <1>1, <1>3, <1>4, MergeEnds, OnlyTheMerge

LEMMA EndCompactionKeeps == ASSUME Inv, EndCompaction PROVE Inv'
  <1>1. /\ up /\ merge.kind = "background" /\ merge.stage = "unlink" /\ merge.cur = 0
        /\ merge' = NoMerge /\ disk_bytes' = disk_bytes - merge.oldBytes + Len(merge.part)
        /\ UNCHANGED <<disk, up, index, readers, w, activeHints, ghost, bound>>
    BY DEF EndCompaction, MergedBytes
  <1>2. Unread = {} BY <1>1 DEF Unread
  <1>3. disk_bytes' \in Nat
    <2>1. disk_bytes \in Nat /\ merge.oldBytes \in Nat /\ merge.part \in Seq(Record)
      BY MergeFields DEF Inv, TypeOK
    <2>2. Len(merge.part) \in Nat BY <2>1, LenProperties
    <2>3. merge.oldBytes <= disk_bytes BY <1>1 DEF Inv, BytesInv
    <2>4. QED BY <1>1, <2>1, <2>2, <2>3
  <1>4. QED BY <1>1, <1>2, <1>3, MergeEnds, OnlyTheMerge

LEMMA FinishRestoreKeeps == ASSUME Inv, FinishRestore PROVE Inv'
  <1>1. /\ up /\ merge.kind = "restore" /\ merge.stage = "placed"
        /\ merge' = [merge EXCEPT !.stage = "unlink"]
        /\ UNCHANGED <<disk, up, index, readers, w, activeHints, ghost, bound>>
        /\ disk_bytes' = disk_bytes
    BY DEF FinishRestore, Restoring
  <1>2. TypeOK /\ MergeInv /\ CopyInv /\ merge \in Merge BY DEF Inv, TypeOK
  <1>3. /\ merge' \in Merge /\ merge'.kind = "restore" /\ merge'.stage = "unlink"
        /\ merge'.id = merge.id /\ merge'.old = merge.old /\ merge'.cur = merge.cur
        /\ merge'.view = merge.view /\ merge'.moved = merge.moved /\ merge'.part = merge.part
    BY <1>1, <1>2 DEF Merge
  <1>4. UNCHANGED <<dir, data, hints, readers, w>> BY <1>1 DEF disk
  <1>5. Unread' = Unread BY <1>1, <1>3 DEF Unread
  <1>6. MergeInv' BY <1>1, <1>2, <1>3, <1>4 DEF MergeInv
  <1>7. Out' = Out BY <1>1, <1>3 DEF Out
  <1>8. CopyInv'
    <2> SUFFICES ASSUME NEW j \in Keys
                 PROVE  /\ merge'.moved[j] # NoLoc =>
                              merge'.moved[j].id = merge'.id /\ merge'.moved[j].off < Len(Out')
                        /\ merge'.view[j] # NoLoc => merge'.moved[j] # NoLoc
      BY <1>3 DEF CopyInv
    <2>1. /\ merge.moved[j] # NoLoc => merge.moved[j].id = merge.id /\ merge.moved[j].off < Len(Out)
          /\ merge.view[j] # NoLoc => merge.moved[j] # NoLoc
      BY <1>1, <1>2 DEF CopyInv
    <2>2. QED BY <1>3, <1>7, <2>1
  <1>9. BytesInv' BY <1>3 DEF BytesInv
  <1>10. disk_bytes' \in Nat BY <1>1, <1>2 DEF TypeOK
  <1>11. QED BY <1>1, <1>3, <1>5, <1>6, <1>8, <1>9, <1>10, OnlyTheMerge

(* A file that is not read changes, appears or goes.                       *)
LEMMA OtherFile ==
    ASSUME TypeOK, FilesInv, NEW m \in Id, m \notin readers,
           NEW f \in Seq(Record), NEW n \in Nat, NEW h \in Seq(Entry), FileOK(f, n, h),
           data' = [data EXCEPT ![m] = f], durable' = [durable EXCEPT ![m] = n],
           hints' = [hints EXCEPT ![m] = h],
           \A id \in dir : id # m => id \in dir', m \notin dir' => f = <<>>,
           UNCHANGED <<w, activeHints, readers>>
    PROVE  /\ data' \in [Id -> Seq(Record)] /\ durable' \in [Id -> Nat]
           /\ hints' \in [Id -> Seq(Entry)]
           /\ data'[m] = f /\ durable'[m] = n /\ hints'[m] = h
           /\ \A id \in Id \ {m} : /\ data'[id] = data[id] /\ durable'[id] = durable[id]
                                   /\ hints'[id] = hints[id]
           /\ FilesInv' /\ (ActiveInv => ActiveInv')
           /\ \A loc \in Location \cup {NoLoc} : \A v : Finds(loc, v) => Finds(loc, v)'
  <1>1. data \in [Id -> Seq(Record)] /\ durable \in [Id -> Nat] /\ hints \in [Id -> Seq(Entry)]
        /\ readers \subseteq Id
    BY DEF TypeOK
  <1>2. /\ data' \in [Id -> Seq(Record)] /\ durable' \in [Id -> Nat]
        /\ hints' \in [Id -> Seq(Entry)]
    BY <1>1
  <1>3. /\ data'[m] = f /\ durable'[m] = n /\ hints'[m] = h
        /\ \A id \in Id \ {m} : /\ data'[id] = data[id] /\ durable'[id] = durable[id]
                                /\ hints'[id] = hints[id]
    BY <1>1
  <1>4. FilesInv'
    <2> SUFFICES ASSUME NEW id \in Id
                 PROVE  /\ id \notin dir' => data'[id] = <<>>
                        /\ FileOK(data'[id], durable'[id], hints'[id])
      BY DEF FilesInv
    <2>1. (id \notin dir => data[id] = <<>>) /\ FileOK(data[id], durable[id], hints[id])
      BY DEF FilesInv
    <2>2. CASE id = m BY <1>3, <2>2
    <2>3. CASE id # m BY <1>3, <2>1, <2>3
    <2>4. QED BY <2>2, <2>3
  <1>5. ActiveInv => ActiveInv'
    <2> SUFFICES ASSUME ActiveInv PROVE ActiveInv' OBVIOUS
    <2>1. w.id \in Id \ {m} BY <1>1 DEF ActiveInv
    <2>2. data'[w.id] = data[w.id] /\ durable'[w.id] = durable[w.id] BY <1>3, <2>1
    <2>3. Active' = Active BY <2>2 DEF Active
    <2>4. QED BY <2>2, <2>3 DEF ActiveInv
  <1>6. \A id \in readers : Held(id)' = Held(id) BY <1>1, <1>3 DEF Held
  <1>7. \A loc \in Location \cup {NoLoc} : \A v : Finds(loc, v) => Finds(loc, v)' BY <1>6 DEF Finds
  <1>8. QED BY <1>2, <1>3, <1>4, <1>5, <1>7

LEMMA NoHint ==
    ASSUME TypeOK, FilesInv, NEW id \in Id, id \notin dir
    PROVE  data[id] = <<>> /\ durable[id] = 0 /\ Len(hints[id]) = 0 /\ hints[id] \in Seq(Entry)
  <1>1. data[id] = <<>> /\ FileOK(data[id], durable[id], hints[id]) BY DEF FilesInv
  <1>2. durable[id] \in Nat /\ hints[id] \in Seq(Entry) /\ Len(<<>>) = 0 BY DEF TypeOK
  <1>3. Len(hints[id]) \in Nat BY <1>2, LenProperties
  <1>4. QED BY <1>1, <1>2, <1>3 DEF FileOK

(* A whole file is written and synced, and its hint is that of all of it,  *)
(* or there is none.                                                       *)
LEMMA WholeFile ==
    ASSUME NEW f \in Seq(Record), NEW h \in Seq(Entry), NEW g,
           FileOK(f, Len(f), h), g = EntriesOf(f) \/ g = h
    PROVE  g \in Seq(Entry) /\ Len(f) \in Nat /\ FileOK(f, Len(f), g)
  <1>1. Len(f) \in Nat BY LenProperties
  <1>2. /\ EntriesOf(f) \in Seq(Entry) /\ Len(EntriesOf(f)) = Len(f)
        /\ \A i \in 1..Len(f) : EntriesOf(f)[i] = EntryOf(f[i])
    BY EntriesFacts
  <1> HIDE DEF EntriesOf
  <1>3. FileOK(f, Len(f), EntriesOf(f)) BY <1>1, <1>2 DEF FileOK
  <1>4. QED BY <1>1, <1>2, <1>3

LEMMA PlacePartKeeps == ASSUME Inv, NEW hinted \in BOOLEAN, PlacePart(hinted) PROVE Inv'
  <1> DEFINE m == merge.id
             p == merge.part
             h == IF hinted THEN EntriesOf(p) ELSE hints[m]
  <1>1. /\ up /\ merge.kind \in {"background", "restore"} /\ merge.stage = "copy"
        /\ \A k \in LiveKeys(merge.view) : merge.moved[k] # NoLoc
        /\ dir' = dir \cup {m}
        /\ data' = [data EXCEPT ![m] = p] /\ durable' = [durable EXCEPT ![m] = Len(p)]
        /\ merge' = [merge EXCEPT !.stage = "placed"]
        /\ UNCHANGED <<torn, up, keydir, live_bytes, readers, w, activeHints, disk_bytes,
                       history, kern, crash, excused, writes, crashes, merges>>
    BY DEF PlacePart, Compacting, Restoring, index, ghost, bound
  <1>2. /\ TypeOK /\ FilesInv /\ ActiveInv /\ readers \subseteq dir /\ dir \subseteq 1..w.id
        /\ w.id \in Id
    BY <1>1, OpenFacts
  <1>3. /\ m \in Id /\ m < w.id /\ m \notin readers /\ merge.cur = 0 /\ p \in Seq(Record)
        /\ merge.old \subseteq readers /\ merge \in Merge
    BY <1>1, <1>2, MergeFields DEF Inv, MergeInv, TypeOK
  <1>4. dir = readers
    <2>1. Unread = {} BY <1>1, <1>3 DEF Unread
    <2>2. QED BY <1>1, <2>1 DEF Inv, OpenInv
  <1>5. Len(hints[m]) = 0 /\ hints[m] \in Seq(Entry) BY <1>2, <1>3, <1>4, NoHint
  <1>6. FileOK(p, Len(p), hints[m])
    <2>1. Len(p) \in Nat BY <1>3, LenProperties
    <2>2. QED BY <1>5, <2>1 DEF FileOK
  <1>7. hints \in [Id -> Seq(Entry)] BY <1>2 DEF TypeOK
  <1>8. hints' = [hints EXCEPT ![m] = h] BY <1>3, <1>7 DEF PlacePart
  <1> HIDE DEF m, p
  <1>9. h \in Seq(Entry) /\ Len(p) \in Nat /\ FileOK(p, Len(p), h) BY <1>3, <1>5, <1>6, WholeFile
  <1> HIDE DEF h
  <1>10. /\ data' \in [Id -> Seq(Record)] /\ durable' \in [Id -> Nat]
         /\ hints' \in [Id -> Seq(Entry)]
         /\ data'[m] = p /\ durable'[m] = Len(p)
         /\ \A id \in Id \ {m} : data'[id] = data[id] /\ durable'[id] = durable[id]
         /\ FilesInv' /\ ActiveInv'
         /\ \A loc \in Location \cup {NoLoc} : \A v : Finds(loc, v) => Finds(loc, v)'
    BY <1>1, <1>2, <1>3, <1>8, <1>9, OtherFile, Zenon
  <1>11. /\ merge' \in Merge /\ merge'.kind = merge.kind /\ merge'.stage = "placed"
         /\ merge'.id = m /\ merge'.old = merge.old /\ merge'.cur = 0
         /\ merge'.view = merge.view /\ merge'.moved = merge.moved /\ merge'.part = p
         /\ merge'.oldBytes = merge.oldBytes
    BY <1>1, <1>3 DEF Merge, m, p
  <1>12. TypeOK' BY <1>1, <1>2, <1>3, <1>10, <1>11, ZenonT(40) DEF TypeOK
  <1>13. StoppedInv' BY <1>1 DEF StoppedInv
  <1>14. OpenInv'
    <2>1. Unread' = {m} BY <1>11 DEF Unread
    <2>2. torn' = {} /\ dir' = readers' \cup Unread' BY <1>1, <1>4, <2>1 DEF Inv, OpenInv
    <2>3. \A id \in dir' \ {w'.id} : durable'[id] = Len(data'[id])
      <3> TAKE id \in dir' \ {w'.id}
      <3>1. CASE id = m BY <1>10, <3>1
      <3>2. CASE id # m
        <4>1. id \in dir /\ id # w.id /\ id \in Id BY <1>1, <1>2, <3>2 DEF TypeOK
        <4>2. durable[id] = Len(data[id]) BY <1>1, <4>1 DEF Inv, OpenInv
        <4>3. QED BY <1>10, <3>2, <4>1, <4>2
      <3>3. QED BY <3>1, <3>2
    <2>4. QED BY <1>10, <2>2, <2>3 DEF OpenInv
  <1>15. MergeInv'
    <2>1. \A id \in merge.old \cup {merge.cur} : id < merge.id BY <1>1 DEF Inv, MergeInv
    <2>2. \A id \in merge'.old \cup {merge'.cur} : id < merge'.id BY <1>3, <1>11, <2>1 DEF m
    <2>3. QED BY <1>1, <1>3, <1>10, <1>11, <2>2 DEF MergeInv
  <1>16. IndexInv'
    <2>1. \A k \in Keys : Finds(keydir[k], Last(history)[k]) BY <1>1 DEF Inv, IndexInv
    <2>2. \A k \in Keys : Finds(keydir[k], Last(history)[k])' BY <1>1, <1>2, <1>10, <2>1, IndexKept
    <2>3. QED BY <2>2 DEF IndexInv
  <1>17. CopyInv'
    <2>1. Out' = Out BY <1>1, <1>11 DEF Out, p
    <2> SUFFICES ASSUME NEW k \in Keys
                 PROVE  /\ merge'.moved[k] # NoLoc =>
                              /\ merge'.moved[k].id = merge'.id /\ merge'.moved[k].off < Len(Out')
                              /\ merge'.kind # "restore" => merge'.view[k] # NoLoc
                        /\ merge'.view[k] # NoLoc => merge'.moved[k] # NoLoc
                        /\ merge'.kind = "background" =>
                             /\ merge'.view[k] # NoLoc =>
                                   /\ merge'.view[k].id \in merge'.old
                                   /\ merge'.view[k].off < Len(data'[merge'.view[k].id])
                             /\ keydir'[k].id \in merge'.old => keydir'[k] = merge'.view[k]
                             /\ merge'.moved[k] # NoLoc => Out'[merge'.moved[k].off + 1].val =
                                  data'[merge'.view[k].id][merge'.view[k].off + 1].val
      BY <1>1, <1>11, Zenon DEF CopyInv
    <2>2. /\ merge.moved[k] # NoLoc => /\ merge.moved[k].id = merge.id
                                       /\ merge.moved[k].off < Len(Out)
                                       /\ merge.kind # "restore" => merge.view[k] # NoLoc
          /\ merge.kind = "background" =>
                /\ merge.view[k] # NoLoc => /\ merge.view[k].id \in merge.old
                                            /\ merge.view[k].off < Len(data[merge.view[k].id])
                /\ keydir[k].id \in merge.old => keydir[k] = merge.view[k]
                /\ merge.moved[k] # NoLoc =>
                      Out[merge.moved[k].off + 1].val =
                         data[merge.view[k].id][merge.view[k].off + 1].val
      BY <1>1 DEF Inv, CopyInv
    <2>3. \A id \in merge.old : data'[id] = data[id] BY <1>2, <1>3, <1>10 DEF TypeOK
    <2>4. merge.view[k] # NoLoc => merge.moved[k] # NoLoc BY <1>1 DEF LiveKeys
    <2>5. m = merge.id /\ keydir' = keydir BY <1>1 DEF m
    <2> HIDE DEF Out
    <2>6. QED BY <1>11, <2>1, <2>2, <2>3, <2>4, <2>5, Zenon
  <1>18. BytesInv' BY <1>1, <1>11 DEF Inv, BytesInv
  <1>19. QED BY <1>10, <1>12, <1>13, <1>14, <1>15, <1>16, <1>17, <1>18 DEF Inv

(* The file of a merge beside the store joins the ones that are read.      *)
LEMMA MergedFileIsRead ==
    ASSUME Inv, up, merge.kind \in {"background", "restore"}, merge.stage # "copy",
           merge.cur = 0, data[merge.id] = merge.part,
           merge.stage = "placed" \/ merge.kind = "restore",
           readers' = readers \cup {merge.id}, merge'.kind # "compact", Unread' = {},
           UNCHANGED <<disk, w, activeHints>>
    PROVE  /\ FilesInv' /\ OpenInv' /\ readers' \subseteq Id /\ merge.id # w.id /\ merge.id \in Id
           /\ \A loc \in Location \cup {NoLoc} : \A v : Finds(loc, v) => Finds(loc, v)'
           /\ \A id \in Id : id # w.id => Held(id)' = data[id]
  <1>1. /\ TypeOK /\ FilesInv /\ ActiveInv /\ w.id \in Id /\ OpenInv BY OpenFacts DEF Inv
  <1>2. merge.id \in Id /\ merge.id < w.id BY <1>1, MergeFields DEF Inv, MergeInv
  <1>3. UNCHANGED <<dir, data, durable, torn, hints>> BY DEF disk
  <1>4. merge.id # w.id /\ merge.id \in 1..w.id /\ readers' \subseteq Id
    <2>1. merge.id \in Nat /\ w.id \in Nat /\ merge.id >= 1 BY <1>1, <1>2, BoundsAssumption DEF Id
    <2>2. merge.id # w.id /\ merge.id \in 1..w.id BY <1>2, <2>1
    <2>3. readers \subseteq Id BY <1>1 DEF TypeOK
    <2>4. QED BY <1>2, <2>2, <2>3
  <1>5. FilesInv' BY <1>1, <1>3 DEF FilesInv, FileOK
  <1>6. ActiveInv'
    <2>1. Active' = Active BY <1>3 DEF Active
    <2>2. QED BY <1>1, <1>3, <1>4, <2>1 DEF ActiveInv
  <1>7. OpenInv'
    <2>0. merge.stage \in {"placed", "unlink"} BY DEF Inv, MergeInv
    <2>1. Unread = {merge.id} BY <2>0 DEF Unread
    <2>2. dir' = readers' \cup Unread' /\ torn' = {} BY <1>1, <1>3, <2>1 DEF OpenInv
    <2>3. \A id \in dir' \ {w'.id} : durable'[id] = Len(data'[id]) BY <1>1, <1>3 DEF OpenInv
    <2>4. QED BY <1>6, <2>2, <2>3 DEF OpenInv
  <1>8. \A loc \in Location \cup {NoLoc} : \A v : Finds(loc, v) => Finds(loc, v)'
    BY <1>3 DEF Finds, Held
  <1>9. \A id \in Id : id # w.id => Held(id)' = data[id] BY <1>3 DEF Held
  <1>10. QED BY <1>2, <1>4, <1>5, <1>7, <1>8, <1>9

LEMMA FinishCompactionKeeps == ASSUME Inv, FinishCompaction PROVE Inv'
  <1> DEFINE m == merge.id
  <1>1. /\ up /\ merge.kind = "background" /\ merge.stage = "placed"
        /\ readers' = readers \cup {m} /\ keydir' = Repointed
        /\ merge' = [merge EXCEPT !.stage = "unlink"]
        /\ UNCHANGED <<disk, up, live_bytes, w, activeHints, disk_bytes,
                       history, kern, crash, excused, writes, crashes, merges>>
    BY DEF FinishCompaction, Compacting, ghost, bound
  <1>2. /\ TypeOK /\ MergeInv /\ CopyInv /\ w.id \in Id BY <1>1, OpenFacts DEF Inv
  <1>3. /\ m \in Id /\ merge.cur = 0 /\ data[m] = merge.part /\ m \in dir /\ m < w.id
        /\ \A id \in merge.old : id < m
        /\ merge.old \subseteq readers /\ merge \in Merge /\ merge.old \subseteq Id
    BY <1>1, <1>2, MergeFields DEF MergeInv, TypeOK
  <1>4. /\ merge' \in Merge /\ merge'.kind = "background" /\ merge'.stage = "unlink"
        /\ merge'.id = m /\ merge'.old = merge.old /\ merge'.cur = 0
        /\ merge'.view = merge.view /\ merge'.moved = merge.moved /\ merge'.part = merge.part
        /\ merge'.oldBytes = merge.oldBytes
    BY <1>1, <1>3 DEF Merge
  <1>5. UNCHANGED <<dir, data, durable, torn, hints>> BY <1>1 DEF disk
  <1>6. Unread' = {} BY <1>4 DEF Unread
  <1>7. /\ FilesInv' /\ OpenInv' /\ readers' \subseteq Id /\ m # w.id
        /\ \A loc \in Location \cup {NoLoc} : \A v : Finds(loc, v) => Finds(loc, v)'
        /\ \A id \in Id : id # w.id => Held(id)' = data[id]
    BY <1>1, <1>3, <1>4, <1>6, MergedFileIsRead
  <1>8. \A id \in merge.old : id \in Id /\ id # m /\ id # w.id /\ id # 0
    <2> TAKE id \in merge.old
    <2>1. id \in Nat /\ m \in Nat /\ w.id \in Nat /\ id < m /\ m < w.id /\ id >= 1
      BY <1>2, <1>3, BoundsAssumption DEF Id
    <2>2. QED BY <1>3, <2>1
  <1>9. Out = merge.part BY <1>1 DEF Out
  <1>10. ASSUME NEW k \in Keys
         PROVE  /\ keydir'[k] \in Location \cup {NoLoc}
                /\ keydir'[k].id \notin merge.old
                /\ Finds(keydir[k], Last(history)[k])'
    <2> DEFINE from == merge.view[k]
               to == merge.moved[k]
               at == keydir[k]
               v == Last(history)[k]
    <2>1. /\ at \in Location \cup {NoLoc} /\ from \in Location \cup {NoLoc}
          /\ to \in Location \cup {NoLoc}
      BY <1>2, MergeFields
    <2>2. /\ to # NoLoc => /\ to.id = m /\ to.off < Len(data[m]) /\ from # NoLoc
                           /\ data[m][to.off + 1].val = data[from.id][from.off + 1].val
          /\ from # NoLoc => to # NoLoc /\ from.id \in merge.old
          /\ at.id \in merge.old => at = from
      BY <1>1, <1>2, <1>3, <1>9 DEF CopyInv
    <2>3. Finds(at, v) BY <1>1 DEF Inv, IndexInv
    <2>4. keydir'[k] = IF to # NoLoc /\ at = from THEN to ELSE at BY <1>1 DEF Repointed
    <2>5. CASE to # NoLoc /\ at = from
      <3>1. keydir'[k] = to BY <2>4, <2>5
      <3>2. from.id \in merge.old /\ at # NoLoc BY <2>2, <2>5
      <3>3. Held(at.id) = data[from.id] BY <1>8, <2>5, <3>2 DEF Held
      <3>4. data[m][to.off + 1].val = v BY <2>2, <2>3, <2>5, <3>2, <3>3 DEF Finds
      <3>5. PICK x \in Location : x = to /\ x = keydir'[k] BY <2>1, <2>5, <3>1
      <3>6. PICK y : y = Last(history)'[k] /\ y = v BY <1>1
      <3>7. PICK z \in Id : z = m /\ z # w.id BY <1>3, <1>7
      <3>8. x.id = z /\ x.off < Len(data[z]) /\ data[z][x.off + 1].val = y
        BY <2>2, <2>5, <3>4, <3>5, <3>6, <3>7
      <3>9. z \in readers' /\ Held(z)' = data[z] BY <1>1, <1>7, <3>7
      <3>10. Finds(x, y)' BY <2>5, <3>5, <3>8, <3>9 DEF Finds
      <3>11. Finds(keydir[k], Last(history)[k])' BY <3>5, <3>6, <3>10
      <3>12. m \notin merge.old BY <1>8
      <3>13. QED BY <2>1, <2>2, <2>5, <3>1, <3>11, <3>12
    <2>6. CASE ~(to # NoLoc /\ at = from)
      <3>1. keydir'[k] = at BY <2>4, <2>6
      <3>2. at.id \notin merge.old
        <4> SUFFICES ASSUME at.id \in merge.old PROVE FALSE OBVIOUS
        <4>1. at # NoLoc BY <1>8 DEF NoLoc
        <4>2. QED BY <2>2, <2>6, <4>1
      <3>3. PICK x \in Location \cup {NoLoc} : x = at /\ x = keydir'[k] BY <2>1, <3>1
      <3>4. PICK y : y = Last(history)'[k] /\ y = v BY <1>1
      <3>5. Finds(x, y)' BY <1>7, <2>3, <3>3, <3>4
      <3>6. Finds(keydir[k], Last(history)[k])' BY <3>3, <3>4, <3>5
      <3>7. QED BY <2>1, <3>1, <3>2, <3>6
    <2>7. QED BY <2>5, <2>6
  <1>11. TypeOK'
    <2>1. keydir' \in Index
      <3>1. keydir' = [k \in Keys |-> keydir'[k]] BY <1>1 DEF Repointed
      <3>2. QED BY <1>10, <3>1 DEF Index
    <2>2. QED BY <1>1, <1>2, <1>4, <1>5, <1>7, <2>1 DEF TypeOK
  <1>12. StoppedInv' BY <1>1 DEF StoppedInv
  <1>13. MergeInv'
    <2>1. \A id \in merge'.old \cup {merge'.cur} : id < merge'.id
      <3>1. 0 < m BY <1>3, BoundsAssumption DEF Id
      <3>2. QED BY <1>3, <1>4, <3>1
    <2>2. QED BY <1>1, <1>3, <1>4, <1>5, <2>1 DEF MergeInv
  <1>14. IndexInv' BY <1>10 DEF IndexInv
  <1>15. CopyInv'
    <2> SUFFICES ASSUME NEW k \in Keys
                 PROVE  /\ merge'.moved[k] # NoLoc =>
                              /\ merge'.moved[k].id = merge'.id /\ merge'.moved[k].off < Len(Out')
                              /\ merge'.view[k] # NoLoc
                        /\ merge'.view[k] # NoLoc => merge'.moved[k] # NoLoc
                        /\ keydir'[k].id \notin merge'.old
      BY <1>4 DEF CopyInv
    <2>1. Out' = Out BY <1>1, <1>4, <1>9 DEF Out
    <2>2. /\ merge.moved[k] # NoLoc => /\ merge.moved[k].id = merge.id
                                       /\ merge.moved[k].off < Len(Out)
                                       /\ merge.view[k] # NoLoc
          /\ merge.view[k] # NoLoc => merge.moved[k] # NoLoc
      BY <1>1, <1>2 DEF CopyInv
    <2>3. QED BY <1>4, <1>10, <2>1, <2>2
  <1>16. BytesInv' BY <1>1, <1>4 DEF Inv, BytesInv
  <1>17. QED BY <1>7, <1>11, <1>12, <1>13, <1>14, <1>15, <1>16 DEF Inv

(* What an index reads back is contents, if its places exist.              *)
LEMMA ReadBackIs ==
    ASSUME data \in [Id -> Seq(Record)], NEW idx \in Index,
           \A k \in Keys : idx[k] # NoLoc => idx[k].off < Len(data[idx[k].id])
    PROVE  /\ ReadBack(idx) \in Contents
           /\ \A k \in Keys : ReadBack(idx)[k] = IF idx[k] = NoLoc THEN Absent
                                                 ELSE data[idx[k].id][idx[k].off + 1].val
  <1>1. ASSUME NEW k \in Keys, idx[k] # NoLoc
        PROVE  data[idx[k].id][idx[k].off + 1].val \in Values \cup {Absent}
    <2> DEFINE l == idx[k]
               d == data[l.id]
    <2>1. l.id \in Id /\ l.off \in Nat /\ l.off < Len(d) BY <1>1 DEF Index, Location
    <2>2. d \in Seq(Record) /\ Len(d) \in Nat BY <2>1, LenProperties
    <2> HIDE DEF d, l
    <2>3. l.off + 1 \in 1..Len(d) BY <2>1, <2>2
    <2>4. d[l.off + 1] \in Record BY <2>2, <2>3, ElementOfSeq
    <2>5. d[l.off + 1].val \in Values \cup {Absent} BY <2>4 DEF Record
    <2>6. QED BY <2>5 DEF l, d
  <1>2. QED BY <1>1 DEF ReadBack, Contents

LEMMA OneContents ==
    ASSUME NEW c \in Contents
    PROVE  /\ <<c>> \in Seq(Contents) /\ <<c>> # <<>>
           /\ 1 \in 1..Len(<<c>>) /\ Last(<<c>>) = c
  BY DEF Last

LEMMA EndRestoreKeeps == ASSUME Inv, EndRestore PROVE Inv'
  <1> DEFINE m == merge.id
             idx == merge.moved
             c == ReadBack(idx)
  <1>1. /\ up /\ merge.kind = "restore" /\ merge.stage = "unlink" /\ merge.cur = 0
        /\ readers' = readers \cup {m} /\ keydir' = idx
        /\ live_bytes' = Len(merge.part) /\ disk_bytes' = Len(merge.part) + w.offset
        /\ history' = <<c>> /\ kern' = 1 /\ merge' = NoMerge
        /\ UNCHANGED <<disk, up, w, activeHints, crash, excused, writes, crashes, merges>>
    BY DEF EndRestore, bound
  <1>2. /\ TypeOK /\ MergeInv /\ CopyInv /\ w.id \in Id BY <1>1, OpenFacts DEF Inv
  <1>3. m \in Id /\ data[m] = merge.part /\ idx \in Index /\ merge.part \in Seq(Record)
    BY <1>1, <1>2, MergeFields DEF MergeInv
  <1>4. UNCHANGED <<dir, data, durable, torn, hints>> BY <1>1 DEF disk
  <1>5. merge' \in Merge /\ merge'.kind = "none" /\ Unread' = {} /\ MergeInv' /\ CopyInv' /\ BytesInv'
    BY <1>1, MergeEnds
  <1>6. /\ FilesInv' /\ OpenInv' /\ readers' \subseteq Id /\ m # w.id
        /\ \A id \in Id : id # w.id => Held(id)' = data[id]
    BY <1>1, <1>3, <1>5, MergedFileIsRead
  <1>7. \A k \in Keys : idx[k] # NoLoc => idx[k].id = m /\ idx[k].off < Len(data[m])
    <2>1. Out = merge.part BY <1>1 DEF Out
    <2>2. QED BY <1>1, <1>2, <1>3, <2>1 DEF CopyInv
  <1>8. /\ c \in Contents
        /\ \A k \in Keys : c[k] = IF idx[k] = NoLoc THEN Absent
                                  ELSE data[idx[k].id][idx[k].off + 1].val
    <2>1. data \in [Id -> Seq(Record)] BY <1>2 DEF TypeOK
    <2>2. \A k \in Keys : idx[k] # NoLoc => idx[k].off < Len(data[idx[k].id]) BY <1>7
    <2>3. QED BY <1>3, <2>1, <2>2, ReadBackIs
  <1> HIDE DEF c
  <1>9. history' \in Seq(Contents) /\ history' # <<>> /\ kern' \in 1..Len(history') /\ Last(history') = c
    BY <1>1, <1>8, OneContents
  <1>10. TypeOK'
    <2>1. live_bytes' \in Int /\ disk_bytes' \in Nat
      <3>1. Len(merge.part) \in Nat /\ w.offset \in Nat BY <1>2, <1>3, LenProperties DEF TypeOK
      <3>2. QED BY <1>1, <3>1
    <2>2. QED BY <1>1, <1>2, <1>3, <1>4, <1>5, <1>6, <1>9, <2>1 DEF TypeOK
  <1>11. StoppedInv' BY <1>1 DEF StoppedInv
  <1>12. IndexInv'
    <2> SUFFICES ASSUME NEW k \in Keys PROVE Finds(keydir[k], Last(history)[k])' BY DEF IndexInv
    <2>1. PICK x \in Location \cup {NoLoc} : x = idx[k] /\ x = keydir'[k] BY <1>1, <1>3 DEF Index
    <2>2. PICK y : y = Last(history)'[k] /\ y = c[k] BY <1>9
    <2>3. Finds(x, y)'
      <3>1. CASE x = NoLoc BY <1>8, <2>1, <2>2, <3>1 DEF Finds
      <3>2. CASE x # NoLoc
        <4>1. PICK z \in Id : z = m /\ z # w.id BY <1>3, <1>6
        <4>2. x.id = z /\ x.off < Len(data[z]) /\ data[z][x.off + 1].val = y
          BY <1>7, <1>8, <2>1, <2>2, <3>2, <4>1
        <4>3. z \in readers' /\ Held(z)' = data[z] BY <1>1, <1>6, <4>1
        <4>4. QED BY <3>2, <4>2, <4>3 DEF Finds
      <3>3. QED BY <3>1, <3>2
    <2>4. QED BY <2>1, <2>2, <2>3
  <1>13. QED BY <1>5, <1>6, <1>10, <1>11, <1>12 DEF Inv

-----------------------------------------------------------------------------
(* Store::compact.                                                         *)

LEMMA BeginCompactKeeps == ASSUME Inv, BeginCompact PROVE Inv'
  <1> DEFINE lw == Flush(Active)
             m == Max(readers) + 1
  <1>1. /\ Ready /\ ~Compacting /\ ~Restoring
        /\ merges < MaxMerges /\ m <= MaxId
        /\ w' = Attach(w.id, lw) /\ data' = [data EXCEPT ![w.id] = lw.file]
        /\ dir' = dir \cup {m}
        /\ merge' = [NoMerge EXCEPT !.kind = "compact", !.stage = "copy",
                        !.id = m, !.old = readers, !.view = keydir]
        /\ merges' = merges + 1
        /\ UNCHANGED <<durable, torn, hints, up, keydir, live_bytes, readers, activeHints,
                       disk_bytes, history, kern, crash, excused, writes, crashes>>
    BY DEF BeginCompact, index, ghost
  <1>2. /\ TypeOK /\ FilesInv /\ ActiveInv /\ readers \subseteq dir /\ dir \subseteq 1..w.id
        /\ w.id \in Id /\ up
    BY <1>1, ReadyFacts, OpenFacts
  <1>3. merge = NoMerge /\ merge.kind = "none" /\ dir = readers BY <1>1, FreeFacts
  <1>4. m = w.id + 1 /\ m \in Id /\ w.id \in Nat
    <2>1. w.id \in Nat /\ w.id >= 1 /\ MaxId \in Nat BY <1>2, BoundsAssumption DEF Id
    <2>2. readers \in SUBSET Nat /\ readers # {} /\ \A x \in readers : x <= w.id
      <3>1. \A x \in 1..w.id : x \in Nat /\ x <= w.id BY <2>1
      <3>2. QED BY <1>2, <3>1 DEF ActiveInv
    <2>3. Max(readers) \in readers /\ \A x \in readers : x <= Max(readers) BY <2>1, <2>2, MaxFacts
    <2>4. Max(readers) = w.id
      <3>1. Max(readers) \in Nat /\ Max(readers) <= w.id BY <2>2, <2>3
      <3>2. w.id <= Max(readers) BY <1>2, <2>3 DEF ActiveInv
      <3>3. QED BY <2>1, <3>1, <3>2
    <2>5. QED BY <1>1, <2>1, <2>4 DEF Id
  <1> HIDE DEF m
  <1>5. /\ WriterOK(lw) /\ lw.file = Held(w.id) /\ lw.durable = durable[w.id]
        /\ lw.pending = <<>> /\ Appended(lw) = Held(w.id) /\ Held(w.id) \in Seq(Record)
        /\ Len(data[w.id]) <= Len(lw.file)
        /\ Held(w.id) = data[w.id] \o w.pending
    BY <1>2, ActiveFacts, FlushKeeps, FlushGrows DEF ActiveInv
  <1> HIDE DEF lw
  <1>6. durable \in [Id -> Nat] /\ durable[w.id] \in Nat BY <1>2 DEF TypeOK
  <1>7. durable' = [durable EXCEPT ![w.id] = lw.durable] /\ durable[w.id] <= lw.durable
    BY <1>1, <1>2, <1>5, <1>6
  <1>8. activeHints' = EntriesOf(Appended(lw)) BY <1>1, <1>2, <1>5 DEF ActiveInv
  <1>9. Grows(Held(w.id), Appended(lw)) BY <1>5, GrowsFacts
  <1>10. Advances /\ w'.id = w.id /\ w'.pending = <<>>
    BY <1>1, <1>2, <1>5, <1>7, <1>8, <1>9, InPlace
  <1>11. /\ merge'.kind = "compact" /\ merge'.stage = "copy" /\ merge'.id = m
         /\ merge'.old = readers /\ merge'.cur = 0 /\ merge'.gone = {}
         /\ merge'.oldBytes = 0 /\ merge'.view = keydir
         /\ merge'.moved = Nowhere /\ merge'.part = <<>>
    BY <1>1 DEF NoMerge
  <1>12. TypeOK'
    <2>1. merge' \in Merge
      <3>1. merge' = [kind |-> "compact", stage |-> "copy", id |-> m, old |-> readers,
                      cur |-> 0, gone |-> {}, oldBytes |-> 0, view |-> keydir,
                      moved |-> Nowhere, part |-> <<>>]
        BY <1>1 DEF NoMerge
      <3>2. m \in 0..MaxId /\ 0 \in 0..MaxId BY <1>4, BoundsAssumption DEF Id
      <3>3. readers \in SUBSET Id /\ {} \in SUBSET Id /\ keydir \in Index /\ <<>> \in Seq(Record)
        BY <1>2 DEF TypeOK
      <3>4. QED BY <3>1, <3>2, <3>3, NoMergeFacts DEF Merge
    <2>2. data' \in [Id -> Seq(Record)]
          /\ w' \in [id : Id, offset : Nat, written : Nat, synced : Nat, pending : Seq(Record)]
      BY <1>10 DEF Advances
    <2>3. merges' \in 0..MaxMerges
      <3>1. merges \in 0..MaxMerges /\ MaxMerges \in Nat BY <1>2, BoundsAssumption DEF TypeOK
      <3>2. QED BY <1>1, <3>1
    <2>4. dir' \subseteq Id /\ torn' \subseteq dir' BY <1>1, <1>2, <1>4 DEF TypeOK
    <2>5. QED BY <1>1, <1>2, <2>1, <2>2, <2>3, <2>4 DEF TypeOK
  <1>13. StoppedInv' BY <1>1, <1>2 DEF StoppedInv
  <1>14. OpenInv'
    <2>1. Unread' = {m} BY <1>11 DEF Unread
    <2>2. torn' = {} /\ dir' = readers' \cup Unread' BY <1>1, <1>2, <1>3, <2>1 DEF Inv, OpenInv
    <2>3. ActiveInv' BY <1>10 DEF Advances
    <2>4. QED BY <1>11, <2>2, <2>3 DEF OpenInv
  <1>15. MergeInv'
    <2>1. \A id \in readers \cup {0} : id < m
      <3>1. \A id \in (1..w.id) \cup {0} : id < w.id + 1 BY <1>4
      <3>2. QED BY <1>2, <1>4, <3>1 DEF ActiveInv
    <2>2. QED BY <1>1, <1>4, <1>10, <1>11, <2>1 DEF MergeInv
  <1>16. \A loc \in Location \cup {NoLoc} : \A v : Finds(loc, v) => Finds(loc, v)'
    BY <1>2, <1>10, AdvanceFinds
  <1>17. \A k \in Keys : Finds(keydir[k], Last(history)[k]) BY <1>2, <1>3 DEF Inv, IndexInv
  <1>18. IndexInv'
    <2>1. \A k \in Keys : Finds(keydir[k], Last(history)[k])' BY <1>1, <1>2, <1>16, <1>17, IndexKept
    <2>2. QED BY <2>1 DEF IndexInv
  <1>19. CopyInv'
    <2> SUFFICES ASSUME NEW k \in Keys
                 PROVE  /\ merge'.moved[k] = NoLoc /\ merge'.kind = "compact"
                        /\ merge'.stage = "copy" /\ merge'.view[k] = keydir'[k]
                        /\ merge'.view[k] = NoLoc => Last(history')[k] = Absent
      BY DEF CopyInv
    <2>1. merge'.moved[k] = NoLoc BY <1>11 DEF Nowhere
    <2>2. keydir[k] = NoLoc => Last(history)[k] = Absent BY <1>17 DEF Finds
    <2>3. QED BY <1>1, <1>11, <2>1, <2>2
  <1>20. FilesInv' BY <1>10 DEF Advances
  <1>21. BytesInv' BY <1>11 DEF BytesInv
  <1>22. QED BY <1>12, <1>13, <1>14, <1>15, <1>18, <1>19, <1>20, <1>21 DEF Inv

(* While compact copies, its file is after all that are read, and all that *)
(* is read is in the kernel.                                               *)
LEMMA CopyingFacts ==
    ASSUME Inv, up, merge.kind = "compact"
    PROVE  /\ TypeOK /\ FilesInv /\ merge.id \in Id /\ merge.id \notin readers /\ merge.id \in dir
           /\ merge.old = readers /\ merge \in Merge /\ torn = {} /\ merge.part \in Seq(Record)
           /\ data[merge.id] \in Seq(Record) /\ Out = data[merge.id] \o merge.part
           /\ Out \in Seq(Record) /\ Len(Out) = Len(data[merge.id]) + Len(merge.part)
           /\ \A id \in merge.old \cup {merge.cur} : id < merge.id
           /\ dir = readers \cup Unread
           /\ merge.stage \in {"copy", "unlink"} /\ (merge.stage = "copy" => merge.cur = 0)
           /\ merge.stage = "unlink" => Out = data[merge.id] /\ merge.part = <<>>
           /\ merge.stage = "copy" => /\ w.pending = <<>> /\ ActiveInv
                                      /\ \A id \in readers : Held(id) = data[id]
  <1>1. TypeOK /\ FilesInv /\ OpenInv /\ MergeInv BY DEF Inv
  <1>2. /\ merge.id \in Id /\ merge.old = readers /\ merge.stage \in {"copy", "unlink"}
        /\ \A id \in merge.old \cup {merge.cur} : id < merge.id
        /\ merge.stage = "copy" => w.pending = <<>> /\ merge.cur = 0
        /\ merge.stage = "unlink" => merge.part = <<>>
    BY <1>1 DEF MergeInv
  <1>3. merge.id \notin readers
    <2>1. merge.id \in Nat /\ ~(merge.id < merge.id) BY <1>2, BoundsAssumption DEF Id
    <2>2. QED BY <1>2, <2>1
  <1>4. torn = {} /\ dir = readers \cup Unread /\ (merge.stage = "copy" => ActiveInv)
    BY <1>1 DEF OpenInv, Replacing
  <1>5. merge.id \in dir BY <1>4 DEF Unread
  <1>6. /\ data[merge.id] \in Seq(Record) /\ merge.part \in Seq(Record) /\ merge \in Merge
        /\ readers \subseteq Id
    BY <1>1, <1>2, MergeFields DEF TypeOK
  <1>7. Out = data[merge.id] \o merge.part BY DEF Out
  <1>8. Out \in Seq(Record) /\ Len(Out) = Len(data[merge.id]) + Len(merge.part)
    BY <1>6, <1>7, ConcatProperties
  <1>9. \A id \in Id : data[id] \o <<>> = data[id]
    <2> TAKE id \in Id
    <2>1. data[id] \in Seq(Record) BY <1>1 DEF TypeOK
    <2>2. QED BY <2>1, ConcatEmptySeq
  <1>10. merge.stage = "unlink" => Out = data[merge.id] BY <1>2, <1>7, <1>9
  <1>11. merge.stage = "copy" => \A id \in readers : Held(id) = data[id]
    BY <1>2, <1>6, <1>9 DEF Held
  <1>12. QED BY <1>1, <1>2, <1>3, <1>4, <1>5, <1>6, <1>7, <1>8, <1>10, <1>11

(* Appending to what is buffered appends to the whole.                     *)
LEMMA AppendToTail ==
    ASSUME NEW d \in Seq(Record), NEW p \in Seq(Record), NEW rec \in Record
    PROVE  /\ d \o Append(p, rec) = Append(d \o p, rec)
           /\ d \o Append(p, rec) \in Seq(Record)
           /\ (d \o Append(p, rec)) \o <<>> = d \o Append(p, rec)
           /\ Grows(d, d \o Append(p, rec))
  <1> DEFINE q == Append(p, rec)
             a == d \o p
             b == d \o q
             c == Append(a, rec)
  <1>1. Len(d) \in Nat /\ Len(p) \in Nat BY LenProperties
  <1>2. /\ q \in Seq(Record) /\ Len(q) = Len(p) + 1 /\ q[Len(p) + 1] = rec
        /\ \A i \in 1..Len(p) : q[i] = p[i]
    BY AppendProperties
  <1> HIDE DEF q
  <1>3. /\ b \in Seq(Record) /\ Len(b) = Len(d) + Len(q)
        /\ \A i \in 1..(Len(d) + Len(q)) : b[i] = IF i <= Len(d) THEN d[i] ELSE q[i - Len(d)]
    BY <1>2, ConcatProperties
  <1>4. /\ a \in Seq(Record) /\ Len(a) = Len(d) + Len(p)
        /\ \A i \in 1..(Len(d) + Len(p)) : a[i] = IF i <= Len(d) THEN d[i] ELSE p[i - Len(d)]
    BY ConcatProperties
  <1> HIDE DEF a, b
  <1>5. /\ c \in Seq(Record) /\ Len(c) = Len(a) + 1 /\ c[Len(a) + 1] = rec
        /\ \A i \in 1..Len(a) : c[i] = a[i]
    BY <1>4, AppendProperties
  <1> HIDE DEF c
  <1>6. Len(b) = Len(c) /\ Len(b) = Len(d) + Len(p) + 1 BY <1>1, <1>2, <1>3, <1>4, <1>5
  <1>7. \A i \in 1..Len(b) : b[i] = c[i]
    <2> TAKE i \in 1..Len(b)
    <2>1. CASE i \in 1..(Len(d) + Len(p))
      <3>1. c[i] = IF i <= Len(d) THEN d[i] ELSE p[i - Len(d)] BY <1>4, <1>5, <2>1
      <3>2. b[i] = IF i <= Len(d) THEN d[i] ELSE q[i - Len(d)] BY <1>1, <1>2, <1>3, <1>6
      <3>3. ~(i <= Len(d)) => q[i - Len(d)] = p[i - Len(d)]
        <4> SUFFICES ASSUME ~(i <= Len(d)) PROVE q[i - Len(d)] = p[i - Len(d)] OBVIOUS
        <4>1. i - Len(d) \in 1..Len(p) BY <1>1, <2>1
        <4>2. QED BY <1>2, <4>1
      <3>4. CASE i <= Len(d) BY <3>1, <3>2, <3>4, Zenon
      <3>5. CASE ~(i <= Len(d))
        <4>1. c[i] = p[i - Len(d)] BY <3>1, <3>5, Zenon
        <4>2. b[i] = q[i - Len(d)] BY <3>2, <3>5, Zenon
        <4>3. q[i - Len(d)] = p[i - Len(d)] BY <3>3, <3>5
        <4>4. QED BY <4>1, <4>2, <4>3, Zenon
      <3>6. QED BY <3>4, <3>5, Zenon
    <2>2. CASE i = Len(d) + Len(p) + 1
      <3>1. ~(i <= Len(d)) /\ i - Len(d) = Len(p) + 1 /\ i \in 1..(Len(d) + Len(q))
        BY <1>1, <1>2, <2>2
      <3>2. b[i] = q[i - Len(d)] BY <1>3, <3>1
      <3>3. c[i] = rec BY <1>4, <1>5, <2>2
      <3>4. q[Len(p) + 1] = rec /\ i - Len(d) = Len(p) + 1 BY <1>2, <3>1
      <3>5. QED BY <3>2, <3>3, <3>4, Zenon
    <2>3. i \in 1..(Len(d) + Len(p)) \/ i = Len(d) + Len(p) + 1 BY <1>1, <1>6
    <2>4. QED BY <2>1, <2>2, <2>3, Zenon
  <1>8. b = c BY <1>3, <1>5, <1>6, <1>7, SeqEqual
  <1>9. b \o <<>> = b BY <1>3, ConcatEmptySeq
  <1>10. Grows(d, d \o q) BY <1>2, GrowsFacts
  <1>11. QED BY <1>3, <1>8, <1>9, <1>10 DEF a, b, c, q

LEMMA CopyRecordKeeps == ASSUME Inv, NEW k \in Keys, CopyRecord(k) PROVE Inv'
  <1> DEFINE m == merge.id
             d == data[m]
             p == merge.part
             l == merge.view[k]
             rec == data[l.id][l.off + 1]
             full == Len(p) + 1 >= MaxPending
             f == IF full THEN d \o Append(p, rec) ELSE d
             q == IF full THEN <<>> ELSE Append(p, rec)
             loc == [id |-> m, off |-> Len(d) + Len(p)]
             mv == [merge.moved EXCEPT ![k] = loc]
             v == Last(history)[k]
  <1>1. /\ up /\ merge.kind = "compact" /\ merge.stage = "copy"
        /\ l # NoLoc /\ merge.moved[k] = NoLoc
        /\ UNCHANGED <<dir, durable, torn, hints, up, keydir, live_bytes, readers, w,
                       activeHints, disk_bytes, history, kern, crash, excused,
                       writes, crashes, merges>>
    BY DEF CopyRecord, LiveKeys, index, ghost, bound
  <1>2. /\ TypeOK /\ FilesInv /\ m \in Id /\ m \notin readers /\ m \in dir
        /\ merge.old = readers /\ merge \in Merge /\ p \in Seq(Record) /\ d \in Seq(Record)
        /\ Out = d \o p /\ Out \in Seq(Record) /\ Len(Out) = Len(d) + Len(p)
        /\ merge.cur = 0 /\ w.pending = <<>> /\ ActiveInv /\ torn = {}
        /\ \A id \in readers : Held(id) = data[id]
        /\ \A id \in merge.old \cup {merge.cur} : id < merge.id
        /\ dir = readers \cup Unread
    BY <1>1, CopyingFacts
  <1>3. Finds(l, v) /\ l \in Location /\ merge.moved \in Index
    <2>1. Finds(keydir[k], v) /\ keydir[k] = l BY <1>1 DEF Inv, IndexInv, CopyInv
    <2>2. QED BY <1>1, <1>2, <2>1, MergeFields
  <1>4. l.id \in readers /\ l.off < Len(data[l.id]) /\ rec.val = v /\ l.off \in Nat
    BY <1>1, <1>2, <1>3 DEF Finds, Location
  <1>5. rec \in Record
    <2>1. data[l.id] \in Seq(Record) /\ Len(data[l.id]) \in Nat
      BY <1>2, <1>4, LenProperties DEF TypeOK
    <2>2. l.off + 1 \in 1..Len(data[l.id]) BY <1>4, <2>1
    <2>3. QED BY <2>1, <2>2, ElementOfSeq
  <1>6. Len(d) \in Nat /\ Len(p) \in Nat /\ Len(Out) \in Nat BY <1>2, LenProperties
  <1>7. loc \in Location /\ loc # NoLoc /\ loc.id = m /\ loc.off = Len(Out)
    <2>1. m # 0 BY <1>2, BoundsAssumption DEF Id
    <2>2. \A a, b \in Nat : a + b \in Nat OBVIOUS
    <2>3. Len(d) + Len(p) \in Nat BY <1>6, <2>2, Zenon
    <2>4. QED BY <1>2, <2>1, <2>3 DEF Location, NoLoc
  <1>8. data \in [Id -> Seq(Record)] BY <1>2 DEF TypeOK
  <1>9. data' = [data EXCEPT ![m] = f] /\ merge' = [merge EXCEPT !.part = q, !.moved = mv]
    BY <1>2, <1>8 DEF CopyRecord, Merge
  <1> HIDE DEF m, d, p, l, rec, loc
  <1>10. mv \in Index /\ mv[k] = loc /\ \A j \in Keys \ {k} : mv[j] = merge.moved[j]
    BY <1>3, <1>7 DEF Index
  <1> HIDE DEF mv
  <1>11. /\ d \o Append(p, rec) = Append(Out, rec)
         /\ d \o Append(p, rec) \in Seq(Record)
         /\ (d \o Append(p, rec)) \o <<>> = d \o Append(p, rec)
         /\ Grows(d, d \o Append(p, rec)) /\ Append(p, rec) \in Seq(Record)
         /\ Grows(d, d)
    BY <1>2, <1>5, AppendToTail, AppendProperties, GrowsFacts
  <1>12. f \in Seq(Record) /\ q \in Seq(Record) /\ Grows(d, f) /\ f \o q = Append(Out, rec)
    <2>1. CASE full
      <3>1. f = d \o Append(p, rec) /\ q = <<>> /\ <<>> \in Seq(Record) BY <2>1
      <3>2. QED BY <1>11, <3>1, Zenon
    <2>2. CASE ~full
      <3>1. f = d /\ q = Append(p, rec) BY <2>2
      <3>2. QED BY <1>2, <1>11, <3>1, Zenon
    <2>3. QED BY <2>1, <2>2
  <1> HIDE DEF f, q
  <1>13. /\ merge' \in Merge /\ merge'.part = q /\ merge'.moved = mv
         /\ merge'.kind = "compact" /\ merge'.stage = "copy" /\ merge'.id = m
         /\ merge'.old = readers /\ merge'.cur = 0 /\ merge'.view = merge.view
    BY <1>1, <1>2, <1>9, <1>10, <1>12 DEF Merge, m
  <1>14. FileOK(f, durable[m], hints[m]) /\ durable[m] \in Nat /\ hints[m] \in Seq(Entry)
    <2>1. /\ FileOK(d, durable[m], hints[m]) /\ durable[m] \in Nat /\ hints[m] \in Seq(Entry)
      BY <1>2 DEF FilesInv, TypeOK, d
    <2>2. Len(f) \in Nat /\ Len(hints[m]) \in Nat BY <1>12, <2>1, LenProperties
    <2>3. durable[m] <= Len(d) /\ Len(d) <= Len(f) BY <1>12, <2>1 DEF FileOK, Grows
    <2>4. durable[m] <= durable[m] /\ durable[m] <= Len(f) BY <1>6, <2>1, <2>2, <2>3
    <2>5. QED BY <1>2, <1>12, <2>1, <2>4, FileGrows
  <1>15. durable' = [durable EXCEPT ![m] = durable[m]] /\ hints' = [hints EXCEPT ![m] = hints[m]]
    BY <1>1, <1>2 DEF TypeOK
  <1>16. /\ data' \in [Id -> Seq(Record)] /\ data'[m] = f
         /\ FilesInv' /\ ActiveInv'
         /\ \A x \in Location \cup {NoLoc} : \A y : Finds(x, y) => Finds(x, y)'
    BY <1>1, <1>2, <1>9, <1>12, <1>14, <1>15, OtherFile, ZenonT(40)
  <1>17. TypeOK' BY <1>1, <1>2, <1>13, <1>16 DEF TypeOK
  <1>18. StoppedInv' BY <1>1 DEF StoppedInv
  <1>19. OpenInv'
    <2>1. Unread' = Unread BY <1>1, <1>2, <1>13 DEF Unread, m
    <2>2. QED BY <1>1, <1>2, <1>13, <1>16, <2>1 DEF OpenInv
  <1>20. MergeInv' BY <1>1, <1>2, <1>13 DEF MergeInv, m
  <1>21. IndexInv'
    <2>1. \A j \in Keys : Finds(keydir[j], Last(history)[j]) BY <1>1 DEF Inv, IndexInv
    <2>2. \A j \in Keys : Finds(keydir[j], Last(history)[j])' BY <1>1, <1>2, <1>16, <2>1, IndexKept
    <2>3. QED BY <2>2 DEF IndexInv
  <1>22. Out' = Append(Out, rec) BY <1>12, <1>13, <1>16 DEF Out
  <1>23. /\ Len(Out') = Len(Out) + 1 /\ Out'[Len(Out) + 1] = rec
         /\ \A i \in 1..Len(Out) : Out'[i] = Out[i]
    BY <1>2, <1>5, <1>22, AppendProperties
  <1>24. CopyInv'
    <2> SUFFICES ASSUME NEW j \in Keys
                 PROVE  /\ mv[j] # NoLoc => /\ mv[j].id = m /\ mv[j].off < Len(Out')
                                            /\ merge.view[j] # NoLoc
                                            /\ Out'[mv[j].off + 1].val = Last(history)[j]
                        /\ merge.view[j] = keydir[j]
                        /\ merge.view[j] = NoLoc => Last(history)[j] = Absent
      BY <1>1, <1>13 DEF CopyInv
    <2>1. /\ merge.moved[j] # NoLoc => /\ merge.moved[j].id = m
                                       /\ merge.moved[j].off < Len(Out)
                                       /\ merge.view[j] # NoLoc
                                       /\ Out[merge.moved[j].off + 1].val = Last(history)[j]
          /\ merge.view[j] = keydir[j]
          /\ merge.view[j] = NoLoc => Last(history)[j] = Absent
          /\ merge.moved[j] \in Location \cup {NoLoc}
      BY <1>1, <1>2, MergeFields DEF Inv, CopyInv, m
    <2>2. CASE j = k
      <3>1. mv[j].off < Len(Out') /\ Out'[mv[j].off + 1] = rec /\ mv[j].id = m
        BY <1>6, <1>7, <1>10, <1>23, <2>2
      <3>2. QED BY <1>1, <1>4, <2>1, <2>2, <3>1 DEF l
    <2>3. CASE j # k
      <3>1. mv[j] = merge.moved[j] BY <1>10, <2>3
      <3>2. mv[j] # NoLoc => mv[j].off < Len(Out') /\ Out'[mv[j].off + 1] = Out[mv[j].off + 1]
        <4> SUFFICES ASSUME mv[j] # NoLoc
                     PROVE  mv[j].off < Len(Out') /\ Out'[mv[j].off + 1] = Out[mv[j].off + 1]
          OBVIOUS
        <4>1. mv[j].off \in Nat /\ mv[j].off < Len(Out) BY <2>1, <3>1 DEF Location
        <4>2. QED BY <1>6, <1>23, <4>1, SMTT(30)
      <3>3. QED BY <2>1, <3>1, <3>2, Zenon
    <2>4. QED BY <2>2, <2>3
  <1>25. BytesInv' BY <1>13 DEF BytesInv
  <1>26. QED BY <1>16, <1>17, <1>18, <1>19, <1>20, <1>21, <1>24, <1>25 DEF Inv

(* Unlinking leaves what the copy holds, and what it is a copy of.         *)
LEMMA CopyKept ==
    ASSUME CopyInv, merge.kind # "none", Out' = Out, UNCHANGED <<keydir, history>>,
           \/ merge.stage = "unlink"
           \/ merge.kind = "compact" /\ \A k \in LiveKeys(merge.view) : merge.moved[k] # NoLoc,
           merge'.kind = merge.kind, merge'.stage = "unlink",
           merge'.id = merge.id, merge'.view = merge.view, merge'.moved = merge.moved,
           merge'.old \subseteq merge.old
    PROVE  CopyInv'
  <1> SUFFICES ASSUME NEW j \in Keys
               PROVE  /\ merge.moved[j] # NoLoc => /\ merge.moved[j].id = merge.id
                                                   /\ merge.moved[j].off < Len(Out')
                                                   /\ merge.kind # "restore" => merge.view[j] # NoLoc
                      /\ merge.view[j] # NoLoc => merge.moved[j] # NoLoc
                      /\ merge.kind = "compact" =>
                           /\ merge.view[j] = NoLoc => Last(history)[j] = Absent
                           /\ merge.moved[j] # NoLoc =>
                                 Out'[merge.moved[j].off + 1].val = Last(history)[j]
                      /\ merge.kind = "background" => keydir[j].id \notin merge'.old
    BY DEF CopyInv
  <1>1. /\ merge.moved[j] # NoLoc => /\ merge.moved[j].id = merge.id
                                     /\ merge.moved[j].off < Len(Out)
                                     /\ merge.kind # "restore" => merge.view[j] # NoLoc
        /\ merge.view[j] # NoLoc => merge.moved[j] # NoLoc
        /\ merge.kind = "compact" =>
             /\ merge.view[j] = NoLoc => Last(history)[j] = Absent
             /\ merge.moved[j] # NoLoc => Out[merge.moved[j].off + 1].val = Last(history)[j]
        /\ merge.kind = "background" => keydir[j].id \notin merge.old
    BY DEF CopyInv, LiveKeys
  <1>2. keydir[j].id \notin merge.old => keydir[j].id \notin merge'.old OBVIOUS
  <1> HIDE DEF Out
  <1>3. QED BY <1>1, <1>2, Zenon

LEMMA SyncMergedKeeps == ASSUME Inv, NEW hinted \in BOOLEAN, SyncMerged(hinted) PROVE Inv'
  <1> DEFINE m == merge.id
             d == data[m]
             f == d \o merge.part
             h == IF hinted THEN EntriesOf(f) ELSE hints[m]
  <1>1. /\ up /\ merge.kind = "compact" /\ merge.stage = "copy"
        /\ \A k \in LiveKeys(merge.view) : merge.moved[k] # NoLoc
        /\ data' = [data EXCEPT ![m] = f] /\ durable' = [durable EXCEPT ![m] = Len(f)]
        /\ merge' = [merge EXCEPT !.part = <<>>, !.stage = "unlink"]
        /\ UNCHANGED <<dir, torn, up, keydir, live_bytes, readers, w, activeHints, disk_bytes,
                       history, kern, crash, excused, writes, crashes, merges>>
    BY DEF SyncMerged, index, ghost, bound
  <1>2. /\ TypeOK /\ FilesInv /\ m \in Id /\ m \notin readers /\ m \in dir
        /\ merge.old = readers /\ merge \in Merge /\ d \in Seq(Record)
        /\ merge.part \in Seq(Record)
        /\ Out = f /\ Out \in Seq(Record) /\ merge.cur = 0 /\ torn = {}
        /\ \A id \in merge.old \cup {merge.cur} : id < merge.id
        /\ dir = readers \cup Unread
    BY <1>1, CopyingFacts
  <1>3. f \in Seq(Record) /\ Len(f) \in Nat BY <1>2, LenProperties
  <1>4. hints \in [Id -> Seq(Entry)] BY <1>2 DEF TypeOK
  <1>5. hints' = [hints EXCEPT ![m] = h] BY <1>2, <1>4 DEF SyncMerged
  <1>6. Grows(d, f) BY <1>2, GrowsFacts
  <1> HIDE DEF m, d, f
  <1>7. FileOK(f, Len(f), hints[m]) /\ hints[m] \in Seq(Entry)
    <2>1. /\ FileOK(d, durable[m], hints[m]) /\ durable[m] \in Nat /\ hints[m] \in Seq(Entry)
      BY <1>2 DEF FilesInv, TypeOK, d
    <2>2. Len(d) \in Nat BY <1>2, LenProperties
    <2>3. durable[m] <= Len(d) /\ Len(d) <= Len(f) BY <1>6, <2>1 DEF FileOK, Grows
    <2>4. durable[m] <= Len(f) /\ Len(f) <= Len(f) BY <1>3, <2>1, <2>2, <2>3
    <2>5. QED BY <1>2, <1>3, <1>6, <2>1, <2>4, FileGrows
  <1>8. h \in Seq(Entry) /\ FileOK(f, Len(f), h) BY <1>3, <1>7, WholeFile
  <1> HIDE DEF h
  <1>9. /\ data' \in [Id -> Seq(Record)] /\ durable' \in [Id -> Nat]
        /\ hints' \in [Id -> Seq(Entry)] /\ data'[m] = f /\ FilesInv'
    BY <1>1, <1>2, <1>3, <1>5, <1>8, OtherFile
  <1>10. /\ merge' \in Merge /\ merge'.kind = "compact" /\ merge'.stage = "unlink"
         /\ merge'.id = m /\ merge'.old = readers /\ merge'.cur = 0 /\ merge'.part = <<>>
         /\ merge'.view = merge.view /\ merge'.moved = merge.moved
    <2>1. <<>> \in Seq(Record) BY EmptySeq
    <2>2. QED BY <1>1, <1>2, <2>1 DEF Merge, m
  <1>11. TypeOK' BY <1>1, <1>2, <1>9, <1>10 DEF TypeOK
  <1>12. StoppedInv' BY <1>1 DEF StoppedInv
  <1>13. OpenInv'
    <2>1. Unread' = Unread BY <1>1, <1>2, <1>10 DEF Unread, m
    <2>2. QED BY <1>1, <1>2, <1>10, <2>1 DEF OpenInv, Replacing
  <1>14. MergeInv' BY <1>1, <1>2, <1>10 DEF MergeInv, m
  <1>15. IndexInv' BY <1>10 DEF IndexInv
  <1>16. Out' = Out
    <2>1. f \o <<>> = f BY <1>3, ConcatEmptySeq
    <2>2. QED BY <1>2, <1>9, <1>10, <2>1 DEF Out
  <1>17. CopyInv' BY <1>1, <1>10, <1>16, CopyKept DEF Inv, m
  <1>18. BytesInv' BY <1>10 DEF BytesInv
  <1>19. QED BY <1>9, <1>11, <1>12, <1>13, <1>14, <1>15, <1>17, <1>18 DEF Inv

LEMMA EndCompactKeeps == ASSUME Inv, EndCompact PROVE Inv'
  <1> DEFINE m == merge.id
             f == data[m]
             n == durable[m]
             lw == OpenWriter(f, n)
  <1>1. /\ up /\ merge.kind = "compact" /\ merge.stage = "unlink"
        /\ merge.old = {} /\ merge.cur = 0
        /\ readers' = readers \cup {m} /\ keydir' = merge.moved
        /\ activeHints' = EntriesOf(f) /\ w' = Attach(m, lw)
        /\ live_bytes' = Len(f) /\ disk_bytes' = Len(f) /\ merge' = NoMerge
        /\ UNCHANGED <<dir, data, durable, torn, hints, up, history, kern, crash, excused,
                       writes, crashes, merges>>
    BY DEF EndCompact, disk, ghost, bound
  <1>2. /\ TypeOK /\ FilesInv /\ m \in Id /\ merge.old = readers /\ f \in Seq(Record)
        /\ Out = f /\ torn = {} /\ dir = readers \cup Unread
    BY <1>1, CopyingFacts
  <1>3. readers = {} /\ dir = {m} /\ readers' = {m}
    <2>1. Unread = {m} BY <1>1 DEF Unread
    <2>2. QED BY <1>1, <1>2, <2>1
  <1>4. Len(f) \in Nat /\ n \in Nat /\ n <= Len(f)
    BY <1>2, LenProperties DEF TypeOK, FilesInv, FileOK
  <1>5. merge' \in Merge /\ merge'.kind = "none" /\ Unread' = {} /\ MergeInv' /\ CopyInv' /\ BytesInv'
    BY <1>1, MergeEnds
  <1>6. data'[m] = f /\ durable'[m] = n BY <1>1
  <1> HIDE DEF f, n
  <1>7. /\ WriterOK(lw) /\ Appended(lw) = f /\ lw.file = f /\ lw.durable = n
        /\ lw.pending = <<>> /\ lw \in Writer
    BY <1>2, <1>4, OpenWriterIs DEF WriterOK
  <1> HIDE DEF lw
  <1>8. data'[m] = lw.file /\ durable'[m] = lw.durable BY <1>6, <1>7
  <1>9. /\ Active' = lw /\ w'.id = m /\ w'.pending = <<>>
        /\ w' \in [id : Id, offset : Nat, written : Nat, synced : Nat, pending : Seq(Record)]
    BY <1>1, <1>2, <1>7, <1>8, ActiveIs
  <1>10. data'[w'.id] \o w'.pending = f BY <1>7, <1>8, <1>9 DEF Appended
  <1>11. ActiveInv'
    <2>1. m \in 1..m BY <1>2, BoundsAssumption DEF Id
    <2>2. w'.id \in readers' /\ readers' \subseteq 1..w'.id BY <1>3, <1>9, <2>1
    <2>3. QED BY <1>1, <1>7, <1>9, <1>10, <2>2 DEF ActiveInv
  <1>12. TypeOK'
    <2>1. activeHints' \in Seq(Entry) /\ keydir' \in Index BY <1>1, <1>2, EntriesFacts, MergeFields
    <2>2. live_bytes' \in Int /\ disk_bytes' \in Nat BY <1>1, <1>4
    <2>3. QED BY <1>1, <1>2, <1>3, <1>5, <1>9, <2>1, <2>2 DEF TypeOK
  <1>13. FilesInv' BY <1>1, <1>2 DEF FilesInv, FileOK
  <1>14. StoppedInv' BY <1>1 DEF StoppedInv
  <1>15. OpenInv' BY <1>1, <1>2, <1>3, <1>5, <1>9, <1>11 DEF OpenInv
  <1>16. IndexInv'
    <2> SUFFICES ASSUME NEW k \in Keys PROVE Finds(keydir[k], Last(history)[k])' BY DEF IndexInv
    <2>1. PICK x \in Location \cup {NoLoc} : x = merge.moved[k] /\ x = keydir'[k]
      BY <1>1, <1>2, MergeFields
    <2>2. PICK y : y = Last(history)'[k] /\ y = Last(history)[k] BY <1>1
    <2>3. /\ x # NoLoc => x.id = m /\ x.off < Len(f) /\ f[x.off + 1].val = y
          /\ x = NoLoc => y = Absent
      BY <1>1, <1>2, <2>1, <2>2 DEF Inv, CopyInv
    <2>4. PICK z : z = m OBVIOUS
    <2>5. Held(z)' = f /\ z \in readers' BY <1>3, <1>9, <1>10, <2>4 DEF Held
    <2>6. Finds(x, y)' BY <2>3, <2>4, <2>5 DEF Finds
    <2>7. QED BY <2>1, <2>2, <2>6
  <1>17. QED BY <1>5, <1>12, <1>13, <1>14, <1>15, <1>16 DEF Inv

-----------------------------------------------------------------------------
(* The loop that ends every merge.                                         *)

LEMMA UnlinkHintKeeps == ASSUME Inv, NEW id \in Id, UnlinkHint(id) PROVE Inv'
  <1>1. /\ up /\ merge.stage = "unlink" /\ merge.cur = 0 /\ id \in merge.old
        /\ readers' = readers \ {id} /\ hints' = [hints EXCEPT ![id] = <<>>]
        /\ merge' = [merge EXCEPT !.cur = id, !.old = @ \ {id}]
        /\ UNCHANGED <<dir, data, durable, torn, up, keydir, live_bytes, w, activeHints,
                       disk_bytes, history, kern, crash, excused, writes, crashes, merges>>
    BY DEF UnlinkHint, index, ghost, bound
  <1>2. TypeOK /\ FilesInv /\ OpenInv /\ MergeInv /\ CopyInv /\ BytesInv /\ IndexInv BY DEF Inv
  <1>3. merge.kind # "none" BY <1>1, <1>2, NoMergeFacts DEF MergeInv
  <1>4. /\ merge.id \in Id /\ \A x \in merge.old \cup {merge.cur} : x < merge.id
        /\ merge.old \subseteq readers /\ merge \in Merge /\ merge.old \subseteq Id
        /\ merge.kind = "compact" => merge.old = readers /\ merge.part = <<>>
        /\ merge.kind # "compact" => merge.id < w.id /\ merge.id \in dir
        /\ merge.kind = "restore" => data[merge.id] = merge.part
    BY <1>1, <1>2, <1>3, MergeFields DEF MergeInv, TypeOK
  <1>5. id # 0 /\ id # merge.id /\ (merge.kind # "compact" => id # w.id)
    <2>1. \A x \in Id : x \in Nat /\ x >= 1 BY BoundsAssumption DEF Id
    <2>2. w.id \in Id /\ id < merge.id BY <1>1, <1>2, <1>4 DEF TypeOK
    <2>3. id \in Nat /\ merge.id \in Nat /\ id >= 1 /\ id < merge.id /\ w.id \in Nat
      BY <1>4, <2>1, <2>2
    <2>4. QED BY <1>4, <2>3
  <1>6. /\ merge' \in Merge /\ merge'.kind = merge.kind /\ merge'.stage = "unlink"
        /\ merge'.id = merge.id /\ merge'.old = merge.old \ {id} /\ merge'.cur = id
        /\ merge'.view = merge.view /\ merge'.moved = merge.moved /\ merge'.part = merge.part
        /\ merge'.oldBytes = merge.oldBytes
    <2>1. id \in 0..MaxId /\ merge.old \ {id} \in SUBSET Id BY <1>4, BoundsAssumption DEF Id
    <2>2. QED BY <1>1, <1>4, <2>1 DEF Merge
  <1>7. hints \in [Id -> Seq(Entry)] /\ <<>> \in Seq(Entry) /\ Len(<<>>) = 0 BY <1>2 DEF TypeOK
  <1>8. hints' \in [Id -> Seq(Entry)] /\ hints'[id] = <<>> /\ \A x \in Id \ {id} : hints'[x] = hints[x]
    BY <1>1, <1>7
  <1>9. TypeOK' BY <1>1, <1>2, <1>6, <1>8 DEF TypeOK
  <1>10. FilesInv'
    <2> SUFFICES ASSUME NEW x \in Id
                 PROVE  /\ x \notin dir' => data'[x] = <<>>
                        /\ FileOK(data'[x], durable'[x], hints'[x])
      BY DEF FilesInv
    <2>1. (x \notin dir => data[x] = <<>>) /\ FileOK(data[x], durable[x], hints[x])
          /\ durable[x] \in Nat
      BY <1>2 DEF FilesInv, TypeOK
    <2>2. CASE x = id BY <1>1, <1>7, <1>8, <2>1, <2>2 DEF FileOK
    <2>3. CASE x # id BY <1>1, <1>8, <2>1, <2>3
    <2>4. QED BY <2>2, <2>3
  <1>11. StoppedInv' BY <1>1 DEF StoppedInv
  <1>12. OpenInv'
    <2>1. Unread' = Unread \cup {id} BY <1>1, <1>5, <1>6 DEF Unread
    <2>2. torn' = {} /\ dir' = readers' \cup Unread' BY <1>1, <1>2, <1>4, <2>1 DEF OpenInv
    <2>3. merge'.kind # "compact" => \A x \in dir' \ {w'.id} : durable'[x] = Len(data'[x])
      BY <1>1, <1>2, <1>6 DEF OpenInv
    <2>4. Replacing' \/ ActiveInv'
      <3>1. CASE merge.kind = "compact" BY <1>6, <3>1 DEF Replacing
      <3>2. CASE merge.kind # "compact"
        <4>1. ActiveInv BY <1>1, <1>2, <3>2 DEF OpenInv, Replacing
        <4>2. Active' = Active BY <1>1 DEF Active
        <4>3. QED BY <1>1, <1>5, <3>2, <4>1, <4>2 DEF ActiveInv
      <3>3. QED BY <3>1, <3>2
    <2>5. QED BY <2>2, <2>3, <2>4 DEF OpenInv
  <1>13. MergeInv'
    <2>1. \A x \in merge'.old \cup {merge'.cur} : x < merge'.id BY <1>1, <1>4, <1>6
    <2>2. merge'.cur \notin readers' /\ hints'[merge'.cur] = <<>> BY <1>1, <1>6, <1>8
    <2>3. CASE merge.kind = "compact"
      <3>1. merge'.old = readers' BY <1>1, <1>4, <1>6, <2>3
      <3>2. QED BY <1>4, <1>6, <2>1, <2>2, <2>3, <3>1 DEF MergeInv
    <2>4. CASE merge.kind # "compact"
      <3>1. merge'.old \subseteq readers' BY <1>1, <1>4, <1>6
      <3>2. QED BY <1>1, <1>3, <1>4, <1>6, <2>1, <2>2, <2>4, <3>1 DEF MergeInv
    <2>5. QED BY <2>3, <2>4
  <1>14. Out' = Out BY <1>1, <1>6 DEF Out
  <1>15. IndexInv'
    <2> SUFFICES ASSUME merge'.kind \notin {"compact", "restore"}, NEW k \in Keys
                 PROVE  Finds(keydir[k], Last(history)[k])'
      BY <1>6 DEF IndexInv
    <2>1. merge.kind = "background" BY <1>2, <1>3, <1>6, MergeFields
    <2>2. Finds(keydir[k], Last(history)[k]) /\ keydir[k].id \notin merge.old
      BY <1>1, <1>2, <2>1 DEF IndexInv, CopyInv
    <2>3. keydir[k].id # id BY <1>1, <2>2
    <2>4. QED BY <1>1, <2>2, <2>3 DEF Finds, Held
  <1>16. CopyInv' BY <1>1, <1>2, <1>3, <1>6, <1>14, CopyKept
  <1>17. BytesInv' BY <1>1, <1>2, <1>6 DEF BytesInv
  <1>18. QED BY <1>9, <1>10, <1>11, <1>12, <1>13, <1>15, <1>16, <1>17 DEF Inv

LEMMA UnlinkDataKeeps == ASSUME Inv, UnlinkData PROVE Inv'
  <1> DEFINE id == merge.cur
  <1>1. /\ up /\ merge.stage = "unlink" /\ id # 0
        /\ dir' = dir \ {id} /\ data' = [data EXCEPT ![id] = <<>>]
        /\ durable' = [durable EXCEPT ![id] = 0]
        /\ merge' = [merge EXCEPT !.cur = 0, !.gone = @ \cup {id}]
        /\ UNCHANGED <<torn, hints, up, keydir, live_bytes, readers, w, activeHints,
                       disk_bytes, history, kern, crash, excused, writes, crashes, merges>>
    BY DEF UnlinkData, index, ghost, bound
  <1>2. TypeOK /\ FilesInv /\ OpenInv /\ MergeInv /\ CopyInv /\ BytesInv /\ IndexInv BY DEF Inv
  <1>3. merge.kind # "none" BY <1>1, <1>2, NoMergeFacts DEF MergeInv
  <1>4. /\ merge.id \in Id /\ \A x \in merge.old \cup {id} : x < merge.id
        /\ merge.old \subseteq readers /\ merge \in Merge /\ id \in 0..MaxId
        /\ merge.kind = "compact" => merge.old = readers /\ merge.part = <<>>
        /\ merge.kind # "compact" => merge.id < w.id /\ merge.id \in dir
        /\ merge.kind = "restore" => data[merge.id] = merge.part
        /\ id \notin readers /\ hints[id] = <<>> /\ merge.gone \subseteq Id
    BY <1>1, <1>2, <1>3, MergeFields DEF MergeInv, TypeOK
  <1> HIDE DEF id
  <1>5. id \in Id /\ id # merge.id /\ 0 < merge.id
    <2>1. id \in Nat /\ merge.id \in Nat /\ id < merge.id /\ MaxId \in Nat
      BY <1>4, BoundsAssumption DEF Id
    <2>2. QED BY <1>1, <1>4, <2>1 DEF Id
  <1>6. /\ merge' \in Merge /\ merge'.kind = merge.kind /\ merge'.stage = "unlink"
        /\ merge'.id = merge.id /\ merge'.old = merge.old /\ merge'.cur = 0
        /\ merge'.view = merge.view /\ merge'.moved = merge.moved /\ merge'.part = merge.part
        /\ merge'.oldBytes = merge.oldBytes
    <2>1. 0 \in 0..MaxId /\ merge.gone \cup {id} \in SUBSET Id BY <1>4, <1>5, BoundsAssumption
    <2>2. QED BY <1>1, <1>4, <2>1 DEF Merge
  <1>7. <<>> \in Seq(Record) /\ <<>> \in Seq(Entry) /\ 0 \in Nat /\ FileOK(<<>>, 0, <<>>)
    BY DEF FileOK
  <1>8. hints' = [hints EXCEPT ![id] = <<>>] BY <1>1, <1>2, <1>4, <1>5 DEF TypeOK
  <1>9. /\ data' \in [Id -> Seq(Record)] /\ durable' \in [Id -> Nat]
        /\ hints' \in [Id -> Seq(Entry)]
        /\ \A x \in Id \ {id} : data'[x] = data[x] /\ durable'[x] = durable[x]
        /\ FilesInv' /\ (ActiveInv => ActiveInv')
        /\ \A loc \in Location \cup {NoLoc} : \A v : Finds(loc, v) => Finds(loc, v)'
    BY <1>1, <1>2, <1>4, <1>5, <1>7, <1>8, OtherFile
  <1>10. torn = {} BY <1>1, <1>2 DEF OpenInv
  <1>11. TypeOK' BY <1>1, <1>2, <1>6, <1>9, <1>10 DEF TypeOK
  <1>12. StoppedInv' BY <1>1 DEF StoppedInv
  <1>13. OpenInv'
    <2>1. Unread' = Unread \ {id} BY <1>1, <1>5, <1>6 DEF Unread, id
    <2>2. torn' = {} /\ dir' = readers' \cup Unread' BY <1>1, <1>2, <1>4, <1>10, <2>1 DEF OpenInv
    <2>3. merge'.kind # "compact" => \A x \in dir' \ {w'.id} : durable'[x] = Len(data'[x])
      <3> SUFFICES ASSUME merge.kind # "compact", NEW x \in dir' \ {w'.id}
                   PROVE  durable'[x] = Len(data'[x])
        BY <1>6
      <3>1. x \in Id \ {id} /\ x \in dir \ {w.id} BY <1>1, <1>2 DEF TypeOK
      <3>2. durable[x] = Len(data[x]) BY <1>1, <1>2, <3>1 DEF OpenInv
      <3>3. QED BY <1>9, <3>1, <3>2
    <2>4. ~Replacing' => ActiveInv'
      <3>1. Replacing' = Replacing BY <1>1, <1>6 DEF Replacing
      <3>2. QED BY <1>1, <1>2, <1>9, <3>1 DEF OpenInv
    <2>5. QED BY <2>2, <2>3, <2>4 DEF OpenInv
  <1>14. data'[merge.id] = data[merge.id] BY <1>4, <1>5, <1>9
  <1>15. MergeInv'
    <2>1. \A x \in merge'.old \cup {merge'.cur} : x < merge'.id BY <1>4, <1>5, <1>6
    <2>2. merge.kind # "compact" => merge'.id \in dir' BY <1>1, <1>4, <1>5, <1>6
    <2>3. CASE merge.kind = "compact" BY <1>1, <1>4, <1>6, <2>1, <2>3 DEF MergeInv
    <2>4. CASE merge.kind # "compact"
      BY <1>1, <1>3, <1>4, <1>6, <1>14, <2>1, <2>2, <2>4 DEF MergeInv
    <2>5. QED BY <2>3, <2>4
  <1>16. Out' = Out BY <1>6, <1>14 DEF Out
  <1>17. IndexInv'
    <2> SUFFICES ASSUME merge'.kind \notin {"compact", "restore"}
                 PROVE  \A k \in Keys : Finds(keydir[k], Last(history)[k])'
      BY <1>6 DEF IndexInv
    <2>1. \A k \in Keys : Finds(keydir[k], Last(history)[k]) BY <1>1, <1>2, <1>6 DEF IndexInv
    <2>2. QED BY <1>1, <1>2, <1>9, <2>1, IndexKept
  <1>18. CopyInv' BY <1>1, <1>2, <1>3, <1>6, <1>16, CopyKept
  <1>19. BytesInv' BY <1>1, <1>2, <1>6 DEF BytesInv
  <1>20. QED BY <1>9, <1>11, <1>12, <1>13, <1>15, <1>17, <1>18, <1>19 DEF Inv

-----------------------------------------------------------------------------
(* Stopping and starting.                                                  *)

(* Whatever stops the store, it forgets all but the files.                 *)
LEMMA StopKeeps ==
    ASSUME TypeOK, up' = FALSE, keydir' = Nowhere, readers' = {}, activeHints' = <<>>,
           w' = Attach(1, OpenWriter(<<>>, 0)), live_bytes' = 0, disk_bytes' = 0,
           merge' = NoMerge, crashes < MaxCrashes, crashes' = crashes + 1,
           UNCHANGED <<history, writes, merges>>, kern' \in 1..Len(history),
           data' \in [Id -> Seq(Record)], durable' \in [Id -> Nat],
           hints' \in [Id -> Seq(Entry)], dir' \subseteq Id, torn' \subseteq dir',
           crash' \in {"close", "kill", "power"},
           excused' \subseteq {"unlink", "restore", "sealed"},
           FilesInv', excused' = {} => ~Refused'
    PROVE  Inv'
  <1>1. /\ merge' \in Merge /\ MergeInv' /\ CopyInv' /\ BytesInv' BY MergeEnds
  <1>2. StoppedInv' /\ OpenInv' /\ IndexInv' BY DEF StoppedInv, OpenInv, IndexInv
  <1>3. w' \in [id : Id, offset : Nat, written : Nat, synced : Nat, pending : Seq(Record)]
    <2>1. 1 \in Id /\ <<>> \in Seq(Record) /\ Len(<<>>) = 0 BY BoundsAssumption DEF Id
    <2>2. w' = [id |-> 1, offset |-> 0, written |-> 0, synced |-> 0, pending |-> <<>>]
      BY <2>1 DEF Attach, OpenWriter
    <2>3. \A i \in Id : \A e \in Seq(Record) :
             [id |-> i, offset |-> 0, written |-> 0, synced |-> 0, pending |-> e] \in
             [id : Id, offset : Nat, written : Nat, synced : Nat, pending : Seq(Record)]
      OBVIOUS
    <2>4. QED BY <2>1, <2>2, <2>3, Zenon
  <1>4. crashes' \in 0..MaxCrashes
    <2>1. crashes \in 0..MaxCrashes /\ MaxCrashes \in Nat BY BoundsAssumption DEF TypeOK
    <2>2. QED BY <2>1
  <1>5. keydir' \in Index /\ activeHints' \in Seq(Entry) BY NoMergeFacts
  <1>6. TypeOK'
    <2>1. /\ history' \in Seq(Contents) /\ history' # <<>> /\ kern' \in 1..Len(history')
          /\ writes' \in 0..MaxWrites /\ merges' \in 0..MaxMerges
      BY DEF TypeOK
    <2>2. readers' \subseteq Id /\ up' \in BOOLEAN BY Zenon
    <2>3. 0 \in Int /\ 0 \in Nat OBVIOUS
    <2>4. live_bytes' \in Int /\ disk_bytes' \in Nat BY <2>3, Zenon
    <2>5. QED BY <1>1, <1>3, <1>4, <1>5, <2>1, <2>2, <2>4 DEF TypeOK
  <1>7. QED BY <1>1, <1>2, <1>6 DEF Inv

LEMMA NewestIs == ASSUME TypeOK, NEW x \in dir, \A y \in dir : y <= x PROVE Newest = x
  <1>1. dir \in SUBSET Nat /\ x \in Nat BY BoundsAssumption DEF TypeOK, Id
  <1>2. Max(dir) \in dir /\ \A y \in dir : y <= Max(dir) BY <1>1, MaxFacts
  <1>3. Max(dir) \in Nat /\ Max(dir) <= x /\ x <= Max(dir) BY <1>1, <1>2
  <1>4. Max(dir) = x BY <1>1, <1>3
  <1>5. QED BY <1>4 DEF Newest

(* A write can be in flight to the newest file only.                       *)
LEMMA InFlightFacts ==
    ASSUME Inv, up
    PROVE  /\ InFlight \in Id /\ InFlight \in dir /\ InFlightBuffer \in Seq(Record)
           /\ merge.stage = "unlink" \/ InFlight = Newest
  <1>1. TypeOK BY DEF Inv
  <1>2. CASE merge.kind = "compact"
    <2>1. /\ merge.id \in Id /\ merge.id \in dir /\ merge.old = readers
          /\ merge.stage \in {"copy", "unlink"} /\ (merge.stage = "copy" => merge.cur = 0)
          /\ \A id \in merge.old \cup {merge.cur} : id < merge.id
          /\ dir = readers \cup Unread /\ merge.part \in Seq(Record)
      BY <1>2, CopyingFacts
    <2>2. InFlight = merge.id /\ InFlightBuffer = merge.part BY <1>2 DEF InFlight, InFlightBuffer
    <2>3. ASSUME merge.stage = "copy" PROVE merge.id = Newest
      <3>1. Unread = {merge.id} BY <1>2, <2>1, <2>3 DEF Unread
      <3>2. \A x \in Id : x \in Nat BY BoundsAssumption DEF Id
      <3>3. \A y \in dir : y <= merge.id
        <4> TAKE y \in dir
        <4>1. y \in Nat /\ merge.id \in Nat BY <1>1, <2>1, <3>2 DEF TypeOK
        <4>2. y = merge.id \/ y < merge.id BY <2>1, <3>1
        <4>3. QED BY <4>1, <4>2
      <3>4. QED BY <1>1, <2>1, <3>3, NewestIs
    <2>4. QED BY <2>1, <2>2, <2>3
  <1>3. CASE merge.kind # "compact"
    <2>1. ActiveInv /\ readers \subseteq dir /\ dir \subseteq 1..w.id /\ w.id \in Id
      BY <1>3, OpenFacts
    <2>2. InFlight = w.id /\ InFlightBuffer = w.pending BY <1>3 DEF InFlight, InFlightBuffer
    <2>3. w.id \in dir /\ w.pending \in Seq(Record) BY <1>1, <2>1 DEF ActiveInv, TypeOK
    <2>4. \A y \in dir : y <= w.id
      <3>1. w.id \in Nat BY <2>1, BoundsAssumption DEF Id
      <3>2. QED BY <2>1, <3>1
    <2>5. Newest = w.id BY <1>1, <2>3, <2>4, NewestIs
    <2>6. QED BY <2>1, <2>2, <2>3, <2>5
  <1>4. QED BY <1>2, <1>3

(* One file has grown, and no more is on the disk.                         *)
LEMMA OneFileGrew ==
    ASSUME TypeOK, FilesInv, NEW m \in Id, m \in dir, NEW f \in Seq(Record), Grows(data[m], f),
           data' = [data EXCEPT ![m] = f], UNCHANGED <<dir, durable, hints>>
    PROVE  data' \in [Id -> Seq(Record)] /\ FilesInv'
  <1>1. data \in [Id -> Seq(Record)] /\ durable \in [Id -> Nat] /\ hints \in [Id -> Seq(Entry)]
    BY DEF TypeOK
  <1>2. data' \in [Id -> Seq(Record)] /\ data'[m] = f /\ \A x \in Id \ {m} : data'[x] = data[x]
    BY <1>1
  <1>3. FileOK(f, durable[m], hints[m])
    <2>1. FileOK(data[m], durable[m], hints[m]) BY DEF FilesInv
    <2>2. data[m] \in Seq(Record) /\ durable[m] \in Nat /\ hints[m] \in Seq(Entry) BY <1>1
    <2>3. Len(data[m]) \in Nat /\ Len(f) \in Nat BY <2>2, LenProperties
    <2>4. durable[m] <= durable[m] /\ durable[m] <= Len(f) BY <2>1, <2>2, <2>3 DEF FileOK, Grows
    <2>5. QED BY <2>1, <2>2, <2>4, FileGrows
  <1>4. FilesInv'
    <2> SUFFICES ASSUME NEW x \in Id
                 PROVE  /\ x \notin dir' => data'[x] = <<>>
                        /\ FileOK(data'[x], durable'[x], hints'[x])
      BY DEF FilesInv
    <2>1. CASE x = m BY <1>2, <1>3, <2>1
    <2>2. CASE x # m
      <3>1. data'[x] = data[x] BY <1>2, <2>2
      <3>2. (x \notin dir => data[x] = <<>>) /\ FileOK(data[x], durable[x], hints[x])
        BY DEF FilesInv
      <3>3. QED BY <3>1, <3>2
    <2>3. QED BY <2>1, <2>2
  <1>5. QED BY <1>2, <1>4

LEMMA KillKeeps == ASSUME Inv, Kill PROVE Inv'
  <1> DEFINE m == InFlight
             b == InFlightBuffer
  <1>1. up /\ crash' = "kill" /\ excused' = Windows /\ Forget /\ UNCHANGED <<dir, durable, hints>>
    BY DEF Kill
  <1>2. PICK n \in 0..Len(b), half \in BOOLEAN :
        /\ merge.stage = "unlink" => n = 0 /\ ~half
        /\ data' = [data EXCEPT ![m] = @ \o SubSeq(b, 1, n)]
        /\ torn' = IF half THEN torn \cup {m} ELSE torn
    BY DEF Kill
  <1>3. TypeOK /\ FilesInv /\ torn = {} BY <1>1 DEF Inv, OpenInv
  <1>4. m \in Id /\ m \in dir /\ b \in Seq(Record) /\ (merge.stage = "unlink" \/ m = Newest)
    BY <1>1, InFlightFacts
  <1> HIDE DEF m, b
  <1>5. SubSeq(b, 1, n) \in Seq(Record) BY <1>4, PrefixIs
  <1> DEFINE f == data[m] \o SubSeq(b, 1, n)
  <1>6. data[m] \in Seq(Record) /\ data \in [Id -> Seq(Record)] BY <1>3, <1>4 DEF TypeOK
  <1>7. f \in Seq(Record) /\ Grows(data[m], f) BY <1>5, <1>6, ConcatProperties, GrowsFacts
  <1>8. data' = [data EXCEPT ![m] = f] BY <1>2, <1>4, <1>6
  <1> HIDE DEF f
  <1>9. data' \in [Id -> Seq(Record)] /\ FilesInv' BY <1>1, <1>3, <1>4, <1>7, <1>8, OneFileGrew
  <1>10. torn' \subseteq dir' /\ ~Refused'
    <2>1. torn' \subseteq {m} /\ (merge.stage = "unlink" => torn' = {}) BY <1>2, <1>3
    <2>2. Newest' = Newest BY <1>1 DEF Newest
    <2>3. QED BY <1>1, <1>4, <2>1, <2>2 DEF Refused
  <1>11. excused' \subseteq {"unlink", "restore", "sealed"} BY <1>1 DEF Windows
  <1>12. /\ durable' \in [Id -> Nat] /\ hints' \in [Id -> Seq(Entry)] /\ dir' \subseteq Id
         /\ kern \in 1..Len(history)
    BY <1>1, <1>3 DEF TypeOK
  <1>13. QED BY <1>1, <1>3, <1>9, <1>10, <1>11, <1>12, StopKeeps DEF Forget

LEMMA CloseKeeps == ASSUME Inv, Close PROVE Inv'
  <1>1. /\ up /\ merge.kind = "none" /\ data' = [data EXCEPT ![w.id] = Flush(Active).file]
        /\ crash' = "close" /\ excused' = {} /\ up' = FALSE /\ kern' = Len(history)
        /\ keydir' = Nowhere /\ readers' = {} /\ activeHints' = <<>>
        /\ w' = Attach(1, OpenWriter(<<>>, 0)) /\ live_bytes' = 0 /\ disk_bytes' = 0
        /\ crashes < MaxCrashes /\ crashes' = crashes + 1
        /\ UNCHANGED <<dir, durable, torn, hints, merge, history, writes, merges>>
    BY DEF Close
  <1>2. /\ TypeOK /\ FilesInv /\ ActiveInv /\ readers \subseteq dir /\ w.id \in Id
        /\ torn = {} /\ merge = NoMerge
    BY <1>1, OpenFacts DEF Inv, OpenInv, MergeInv
  <1>3. /\ Flush(Active).file = Held(w.id) /\ Held(w.id) \in Seq(Record)
        /\ Grows(data[w.id], Held(w.id))
    BY <1>2, ActiveFacts, FlushKeeps DEF ActiveInv
  <1>4. data' \in [Id -> Seq(Record)] /\ FilesInv'
    <2>1. w.id \in dir BY <1>2 DEF ActiveInv
    <2>2. QED BY <1>1, <1>2, <1>3, <2>1, OneFileGrew
  <1>5. ~Refused' /\ torn' \subseteq dir' BY <1>1, <1>2 DEF Refused
  <1>6. Len(history) \in 1..Len(history)
    <2>1. history \in Seq(Contents) /\ history # <<>> BY <1>2 DEF TypeOK
    <2>2. Len(history) \in Nat /\ Len(history) # 0 BY <2>1, EmptySeq, LenProperties
    <2>3. QED BY <2>2
  <1>7. /\ durable' \in [Id -> Nat] /\ hints' \in [Id -> Seq(Entry)] /\ dir' \subseteq Id
    BY <1>1, <1>2 DEF TypeOK
  <1>8. QED BY <1>1, <1>2, <1>4, <1>5, <1>6, <1>7, StopKeeps

LEMMA PowerCutKeeps == ASSUME Inv, PowerCut PROVE Inv'
  <1> DEFINE most == Max({Len(data[id]) : id \in Id})
  <1>1. /\ up \/ crash # "power"
        /\ crash' = "power" /\ Forget /\ UNCHANGED <<dir, hints>>
        /\ excused' = excused \cup Windows \cup {x \in {"sealed"} : SealedUnsynced}
    BY DEF PowerCut
  <1>2. PICK keep \in [Volatile -> 0..most], half \in SUBSET (torn \cup Volatile) :
        /\ \A id \in Volatile : durable[id] <= keep[id] /\ keep[id] <= Len(data[id])
        /\ data' = [id \in Id |-> IF id \in Volatile
                                  THEN SubSeq(data[id], 1, keep[id]) ELSE data[id]]
        /\ durable' = [id \in Id |-> Len(data'[id])]
        /\ torn' = half
    BY DEF PowerCut
  <1>3. TypeOK /\ FilesInv BY DEF Inv
  <1> HIDE DEF most
  <1>4. \A id \in Volatile : keep[id] \in Int BY <1>2
  <1>5. ASSUME NEW id \in Id
        PROVE  /\ data'[id] \in Seq(Record) /\ Len(data'[id]) \in Nat
               /\ durable'[id] = Len(data'[id]) /\ hints'[id] = hints[id]
               /\ FileOK(data'[id], Len(data'[id]), hints[id])
               /\ id \notin dir' => data'[id] = <<>>
    <2> DEFINE d == data[id]
               h == hints[id]
               k == keep[id]
               s == SubSeq(d, 1, k)
    <2>1. d \in Seq(Record) /\ h \in Seq(Entry) /\ durable[id] \in Nat
          /\ FileOK(d, durable[id], h) /\ (id \notin dir => d = <<>>)
      BY <1>3 DEF TypeOK, FilesInv
    <2>2. Len(d) \in Nat /\ Len(h) \in Nat BY <2>1, LenProperties
    <2>3. durable'[id] = Len(data'[id]) /\ hints'[id] = hints[id] BY <1>1, <1>2
    <2>4. CASE id \in Volatile
      <3>1. data'[id] = s BY <1>2, <2>4
      <3>2. k \in Int /\ durable[id] <= k /\ k <= Len(d) BY <1>2, <1>4, <2>4
      <3> HIDE DEF d, h, k
      <3>3. k \in Nat BY <2>1, <3>2
      <3>4. k \in 0..Len(d) BY <2>2, <3>2, <3>3
      <3>5. s \in Seq(Record) /\ Len(s) = k /\ \A i \in 1..k : s[i] = d[i] BY <2>1, <3>4, PrefixIs
      <3> HIDE DEF s
      <3>6. FileOK(s, Len(s), h)
        <4>1. Len(h) <= durable[id] /\ \A i \in 1..Len(h) : h[i] = EntryOf(d[i]) BY <2>1 DEF FileOK
        <4>2. Len(h) <= k BY <2>1, <2>2, <3>2, <3>3, <4>1
        <4>3. \A i \in 1..Len(h) : i \in 1..k BY <2>2, <3>3, <4>2
        <4>4. \A i \in 1..Len(h) : h[i] = EntryOf(s[i]) BY <3>5, <4>1, <4>3
        <4>5. k <= k BY <3>3
        <4>6. QED BY <3>5, <4>2, <4>4, <4>5 DEF FileOK
      <3>7. id \in dir' BY <1>1, <2>4 DEF Volatile
      <3>8. QED BY <2>3, <3>1, <3>3, <3>5, <3>6, <3>7 DEF h
    <2>5. CASE id \notin Volatile
      <3>1. data'[id] = d BY <1>2, <2>5
      <3>2. FileOK(d, Len(d), h) BY <2>1, <2>2 DEF FileOK
      <3>3. QED BY <1>1, <2>1, <2>2, <2>3, <3>1, <3>2
    <2>6. QED BY <2>4, <2>5
  <1>6. data' \in [Id -> Seq(Record)]
    <2>1. data' = [id \in Id |-> data'[id]] BY <1>2
    <2>2. QED BY <1>5, <2>1
  <1>7. durable' \in [Id -> Nat] BY <1>2, <1>5
  <1>8. FilesInv' BY <1>5 DEF FilesInv
  <1>9. torn' \subseteq dir' BY <1>1, <1>2, <1>3 DEF TypeOK, Volatile
  <1>10. excused' = {} => ~Refused'
    <2> SUFFICES ASSUME excused' = {}, NEW id \in torn' PROVE id = Newest
      BY <1>1 DEF Refused, Newest
    <2>1. excused = {} /\ ~SealedUnsynced BY <1>1
    <2>2. id \in torn \/ id \in Volatile BY <1>2
    <2>3. CASE id \in torn
      <3>1. ~up BY <2>3 DEF Inv, OpenInv
      <3>2. QED BY <2>1, <2>3, <3>1 DEF Inv, StoppedInv, Refused
    <2>4. CASE id \in Volatile BY <2>1, <2>4 DEF Volatile, SealedUnsynced
    <2>5. QED BY <2>2, <2>3, <2>4
  <1>11. excused' \subseteq {"unlink", "restore", "sealed"} BY <1>1, <1>3 DEF Windows, TypeOK
  <1>12. /\ hints' \in [Id -> Seq(Entry)] /\ dir' \subseteq Id
         /\ kern \in 1..Len(history)
    BY <1>1, <1>3 DEF TypeOK
  <1>13. QED BY <1>1, <1>3, <1>6, <1>7, <1>8, <1>9, <1>10, <1>11, <1>12, StopKeeps DEF Forget

(* The sizes open_with counts up are numbers.                              *)
LEMMA SizesAreNumbers ==
    ASSUME NEW idx, NEW files, dir \subseteq Id,
           \A id \in dir : \E n \in Nat : DOMAIN files[id] = 1..n
    PROVE  Cardinality(LiveKeys(idx)) \in Nat /\ Cardinality(Slots(dir, files)) \in Nat
  <1>1. IsFiniteSet(LiveKeys(idx))
    <2>1. LiveKeys(idx) \in SUBSET Keys BY DEF LiveKeys
    <2>2. QED BY <2>1, KeysAssumption, FS_Subset
  <1> DEFINE f == [id \in dir |-> {id} \X DOMAIN files[id]]
             T == {{id} \X DOMAIN files[id] : id \in dir}
  <1>2. IsFiniteSet(dir)
    <2>1. IsFiniteSet(1..MaxId) BY BoundsAssumption, FS_Interval
    <2>2. QED BY <2>1, FS_Subset DEF Id
  <1>3. f \in Surjection(dir, T) BY DEF Surjection
  <1>4. IsFiniteSet(T) BY <1>2, <1>3, FS_Surjection
  <1>5. \A t \in T : IsFiniteSet(t)
    <2> TAKE t \in T
    <2>1. PICK id \in dir : t = {id} \X DOMAIN files[id] OBVIOUS
    <2>2. PICK n \in Nat : DOMAIN files[id] = 1..n OBVIOUS
    <2>3. IsFiniteSet({id}) BY FS_Singleton, Zenon
    <2>4. 1 \in Int /\ n \in Int OBVIOUS
    <2>5. IsFiniteSet(1..n) BY <2>4, FS_Interval
    <2>6. QED BY <2>1, <2>2, <2>3, <2>5, FS_Product
  <1>6. IsFiniteSet(UNION T) BY <1>4, <1>5, FS_UNION
  <1>7. Slots(dir, files) = UNION T BY DEF Slots
  <1>8. QED BY <1>1, <1>6, <1>7, FS_CardinalityType

(* The contents the index finds are the last of the history open keeps.    *)
LEMMA KeptIs ==
    ASSUME TypeOK, NEW c \in Contents, Kept(c) # 0
    PROVE  /\ Kept(c) \in 1..Len(history)
           /\ SubSeq(history, 1, Kept(c)) \in Seq(Contents)
           /\ Len(SubSeq(history, 1, Kept(c))) = Kept(c)
           /\ Last(SubSeq(history, 1, Kept(c))) = c
  <1> DEFINE floor == IF crash = "power" THEN 1 ELSE kern
             same == {i \in floor..Len(history) : history[i] = c}
             n == Kept(c)
             s == SubSeq(history, 1, n)
  <1>1. history \in Seq(Contents) /\ kern \in 1..Len(history) /\ Len(history) \in Nat
    BY LenProperties DEF TypeOK
  <1>2. floor \in Nat /\ floor >= 1 BY <1>1
  <1>3. same # {} /\ n = Max(same) BY DEF Kept
  <1>4. same \in SUBSET Nat /\ \A x \in same : x <= Len(history)
    <2> HIDE DEF floor
    <2>1. QED BY <1>1, <1>2
  <1> HIDE DEF same, n
  <1>5. n \in same BY <1>1, <1>3, <1>4, MaxFacts
  <1>6. n \in 1..Len(history) /\ history[n] = c
    <2>1. n \in floor..Len(history) /\ history[n] = c BY <1>5 DEF same
    <2> HIDE DEF floor
    <2>2. QED BY <1>1, <1>2, <2>1
  <1>7. n \in 0..Len(history) /\ n \in 1..n BY <1>1, <1>6
  <1>8. s \in Seq(Contents) /\ Len(s) = n /\ s[n] = history[n] BY <1>1, <1>7, PrefixIs
  <1>9. QED BY <1>6, <1>8 DEF n, s, Last

LEMMA OpenKeeps ==
    ASSUME Inv, NEW verify \in BOOLEAN, NEW hinted \in BOOLEAN, Open(verify, hinted) PROVE Inv'
  <1> DEFINE n == IF dir = {} THEN 1 ELSE Newest
             sealed == {id \in dir : Len(Believed(id, verify)) < Len(data[id])} \ {n}
             replay == Replayed(verify)
             found == ReadBack(replay)
             loaded == [id \in dir |-> Loaded(id, verify)]
             kept == IF excused # {} \/ crash = "power" THEN 0 ELSE Kept(found)
  <1>1. /\ ~up /\ up' = TRUE /\ dir' = dir \cup {n} /\ torn' = {}
        /\ durable' = SyncedAtOpen(sealed)
        /\ hints' = [id \in Id |-> IF id \notin dir THEN <<>>
                                   ELSE IF hinted /\ id \in sealed
                                   THEN Loaded(id, verify) ELSE hints[id]]
        /\ keydir' = replay /\ live_bytes' = Cardinality(LiveKeys(replay))
        /\ disk_bytes' = Cardinality(Slots(dir, loaded))
        /\ readers' = dir \cup {n} /\ activeHints' = Loaded(n, verify)
        /\ w' = Attach(n, OpenWriter(data[n], durable[n]))
        /\ excused' = {}
        /\ UNCHANGED <<data, merge, crash, writes, crashes, merges>>
    BY DEF Open, TornAfterOpen, bound
  <1>2. /\ history' = IF kept # 0 THEN SubSeq(history, 1, kept)
                      ELSE [i \in 1..(Len(data[n]) - durable'[n] + 1) |->
                               FoundUpTo(durable'[n] + i - 1, verify)]
        /\ kern' = Len(history')
    BY <1>1 DEF Open
  <1>3. TypeOK /\ FilesInv /\ merge = NoMerge /\ dir \subseteq Id
    BY <1>1 DEF Inv, StoppedInv, TypeOK
  <1>4. n \in Id /\ n = Tip /\ \A x \in dir : x <= n BY <1>3, TipIs DEF Tip
  <1> HIDE DEF n
  <1>5. ASSUME NEW id \in Id
        PROVE  /\ data[id] \in Seq(Record) /\ Len(data[id]) \in Nat
               /\ durable'[id] \in Nat /\ durable'[id] <= Len(data[id])
               /\ hints'[id] \in Seq(Entry)
               /\ FileOK(data[id], durable'[id], hints'[id])
               /\ id \in dir \ {n} => durable'[id] = Len(data[id])
               /\ id \notin dir => data[id] = <<>>
    <2> DEFINE d == data[id]
               h == hints[id]
               a == durable[id]
               b == durable'[id]
    <2>1. d \in Seq(Record) /\ h \in Seq(Entry) /\ a \in Nat
          /\ FileOK(d, a, h) /\ (id \notin dir => d = <<>>)
      BY <1>3 DEF TypeOK, FilesInv
    <2>2. Len(d) \in Nat /\ Len(h) \in Nat BY <2>1, LenProperties
    <2>3. /\ Loaded(id, verify) = EntriesOf(d)
          /\ Len(Believed(id, verify)) <= a /\ Len(Believed(id, verify)) \in Nat
      BY <1>3, LoadedIs
    <2>4. b = IF id \in sealed \cup torn THEN Len(d) ELSE a BY <1>1 DEF SyncedAtOpen
    <2>5. a <= Len(d) BY <2>1 DEF FileOK
    <2>6. id \in dir \ {n} => b = Len(d)
      <3> SUFFICES ASSUME id \in dir \ {n} PROVE b = Len(d) OBVIOUS
      <3>1. CASE id \in sealed BY <2>4, <3>1
      <3>2. CASE id \notin sealed
        <4>1. ~(Len(Believed(id, verify)) < Len(d)) BY <3>2
        <4>2. a = Len(d) BY <2>1, <2>2, <2>3, <2>5, <4>1
        <4>3. QED BY <2>4, <4>2
      <3>3. QED BY <3>1, <3>2
    <2>7. id \in sealed => b = Len(d) BY <2>4
    <2> DEFINE g == hints'[id]
    <2>8. g = IF id \notin dir THEN <<>>
              ELSE IF hinted /\ id \in sealed THEN EntriesOf(d) ELSE h
      BY <1>1, <2>3
    <2>9. b \in Nat /\ b <= Len(d) /\ a <= b BY <2>1, <2>2, <2>4, <2>5
    <2> HIDE DEF d, h, a, b, g, sealed
    <2>10. FileOK(d, b, h)
      <3>1. Grows(d, d) BY <2>1, GrowsFacts
      <3>2. QED BY <2>1, <2>9, <3>1, FileGrows
    <2>11. g \in Seq(Entry) /\ FileOK(d, b, g)
      <3>1. CASE g = h BY <2>1, <2>10, <3>1
      <3>2. CASE g = <<>>
        <4>1. <<>> \in Seq(Entry) /\ Len(<<>>) = 0 BY EmptySeq
        <4>2. QED BY <2>9, <3>2, <4>1 DEF FileOK
      <3>3. CASE g = EntriesOf(d) /\ b = Len(d)
        <4>1. FileOK(d, Len(d), h) BY <2>10, <3>3
        <4>2. g \in Seq(Entry) /\ FileOK(d, Len(d), g) BY <2>1, <3>3, <4>1, WholeFile
        <4>3. QED BY <3>3, <4>2
      <3>4. g = h \/ g = <<>> \/ (g = EntriesOf(d) /\ b = Len(d)) BY <2>7, <2>8, Zenon
      <3>5. QED BY <3>1, <3>2, <3>3, <3>4
    <2>12. QED BY <2>1, <2>2, <2>6, <2>9, <2>11 DEF d, b, g
  <1> HIDE DEF sealed
  <1>6. durable' \in [Id -> Nat] /\ hints' \in [Id -> Seq(Entry)]
    <2>1. durable' = [id \in Id |-> durable'[id]] BY <1>1 DEF SyncedAtOpen
    <2>2. hints' = [id \in Id |-> hints'[id]] BY <1>1
    <2>3. QED BY <1>5, <2>1, <2>2
  <1>7. FilesInv' BY <1>1, <1>5 DEF FilesInv
  <1> DEFINE f == data[n]
             m == durable'[n]
             lw == OpenWriter(f, m)
  <1>8. f \in Seq(Record) /\ m \in Nat /\ m <= Len(f) /\ data'[n] = f BY <1>1, <1>4, <1>5
  <1>9. w' = Attach(n, lw) BY <1>1 DEF Attach, OpenWriter
  <1> HIDE DEF f, m
  <1>10. /\ WriterOK(lw) /\ lw.file = f /\ lw.durable = m
         /\ lw.pending = <<>> /\ lw \in Writer
    BY <1>8, OpenWriterIs DEF WriterOK
  <1> HIDE DEF lw
  <1>11. /\ Active' = lw /\ w'.id = n /\ w'.pending = <<>>
         /\ w' \in [id : Id, offset : Nat, written : Nat, synced : Nat, pending : Seq(Record)]
    <2>1. data'[n] = lw.file /\ durable'[n] = lw.durable BY <1>8, <1>10 DEF m
    <2>2. QED BY <1>4, <1>9, <1>10, <2>1, ActiveIs
  <1>12. activeHints' = EntriesOf(f) /\ EntriesOf(f) \in Seq(Entry)
    <2>1. Loaded(n, verify) = EntriesOf(f) BY <1>3, <1>4, LoadedIs DEF f
    <2>2. QED BY <1>1, <1>8, <2>1, EntriesFacts
  <1>13. \A id \in Id : Held(id)' = data[id]
    <2> TAKE id \in Id
    <2>1. data[id] \in Seq(Record) /\ data' = data BY <1>1, <1>5
    <2>2. data[id] \o <<>> = data[id] BY <2>1, ConcatEmptySeq
    <2>3. QED BY <1>11, <2>1, <2>2 DEF Held
  <1>14. ActiveInv'
    <2>1. \A x \in Id : x \in Nat /\ x >= 1 BY BoundsAssumption DEF Id
    <2>2. readers' \subseteq 1..n
      <3> SUFFICES ASSUME NEW x \in readers' PROVE x \in 1..n OBVIOUS
      <3>1. x \in Id /\ x <= n BY <1>1, <1>3, <1>4, <2>1
      <3>2. QED BY <1>4, <2>1, <3>1
    <2>3. data'[w'.id] \o w'.pending = f
      <3>1. f \o <<>> = f BY <1>8, ConcatEmptySeq
      <3>2. QED BY <1>8, <1>11, <3>1
    <2>4. QED BY <1>1, <1>10, <1>11, <1>12, <2>2, <2>3 DEF ActiveInv
  <1>15. /\ replay \in Index
         /\ \A k \in Keys : replay[k] # NoLoc =>
               replay[k].id \in dir /\ replay[k].off < Len(data[replay[k].id])
    BY <1>3, ReplayedFacts
  <1> HIDE DEF replay
  <1>16. /\ found \in Contents
         /\ \A k \in Keys : found[k] = IF replay[k] = NoLoc THEN Absent
                                       ELSE data[replay[k].id][replay[k].off + 1].val
    <2>1. data \in [Id -> Seq(Record)] BY <1>3 DEF TypeOK
    <2>2. QED BY <1>15, <2>1, ReadBackIs
  <1> HIDE DEF found
  <1>17. /\ history' \in Seq(Contents) /\ history' # <<>>
         /\ kern' \in 1..Len(history') /\ Last(history') = found
    <2>1. CASE kept = 0
      <3> DEFINE p == Len(data[n])
                 size == p - m + 1
                 at(i) == FoundUpTo(m + i - 1, verify)
      <3>1. history' = [i \in 1..size |-> at(i)] /\ kern' = Len(history') BY <1>2, <2>1 DEF m
      <3>2. m \in Nat /\ p \in Nat /\ m <= p BY <1>4, <1>5 DEF m
      <3>3. ASSUME NEW i \in 1..size PROVE at(i) \in Contents
        <4>1. m + i - 1 \in 0..p BY <3>2
        <4>2. QED BY <1>3, <1>4, <4>1, FoundIs
      <3>4. size \in Nat /\ size \in 1..size /\ m + size - 1 = p /\ p \in 0..p
        <4> HIDE DEF p
        <4>1. QED BY <3>2
      <3>5. at(size) = found BY <1>3, <1>4, <3>4, FoundIs DEF found, replay, Recovered
      <3> HIDE DEF p, size, at
      <3>6. history' \in Seq(Contents) /\ Len(history') = size BY <3>1, <3>3, <3>4, IsASeq
      <3>7. history'[size] = found BY <3>1, <3>4, <3>5
      <3>8. history' # <<>> BY <3>4, <3>6, EmptySeq
      <3>9. QED BY <3>1, <3>4, <3>6, <3>7, <3>8 DEF Last
    <2>2. CASE kept # 0
      <3>1. kept = Kept(found) /\ Kept(found) # 0 BY <2>2
      <3>2. history' = SubSeq(history, 1, Kept(found)) /\ kern' = Len(history') BY <1>2, <2>2, <3>1
      <3> DEFINE c == Kept(found)
                 s == SubSeq(history, 1, c)
      <3>3. c \in 1..Len(history) /\ s \in Seq(Contents) /\ Len(s) = c /\ Last(s) = found
        BY <1>3, <1>16, <3>1, KeptIs
      <3> HIDE DEF c, s
      <3>4. Len(history) \in Nat BY <1>3, LenProperties DEF TypeOK
      <3>5. c \in Nat /\ c # 0 /\ c \in 1..c BY <3>3, <3>4
      <3>6. s # <<>> BY <3>3, <3>5, EmptySeq
      <3>7. history' = s /\ kern' = c
        <4>1. history' = s BY <3>2 DEF c, s
        <4>2. QED BY <3>2, <3>3, <4>1
      <3>8. QED BY <3>3, <3>5, <3>6, <3>7
    <2>3. QED BY <2>1, <2>2
  <1>18. live_bytes' \in Int /\ disk_bytes' \in Nat
    <2>1. \A id \in dir : \E k \in Nat : DOMAIN loaded[id] = 1..k
      <3> TAKE id \in dir
      <3>1. loaded[id] = EntriesOf(data[id]) /\ Len(data[id]) \in Nat BY <1>3, <1>5, LoadedIs
      <3>2. DOMAIN loaded[id] = 1..Len(data[id]) BY <3>1 DEF EntriesOf
      <3>3. QED BY <3>1, <3>2
    <2> HIDE DEF loaded
    <2>2. Cardinality(LiveKeys(replay)) \in Nat /\ Cardinality(Slots(dir, loaded)) \in Nat
      BY <1>3, <2>1, SizesAreNumbers
    <2>3. QED BY <1>1, <2>2
  <1>19. TypeOK'
    <2>1. dir' \subseteq Id /\ torn' \subseteq dir' /\ readers' \subseteq Id BY <1>1, <1>3, <1>4
    <2>2. /\ up' \in BOOLEAN /\ excused' \subseteq {"unlink", "restore", "sealed"}
          /\ data' \in [Id -> Seq(Record)] /\ merge' \in Merge
          /\ crash' \in {"close", "kill", "power"} /\ writes' \in 0..MaxWrites
          /\ crashes' \in 0..MaxCrashes /\ merges' \in 0..MaxMerges
      BY <1>1, <1>3 DEF TypeOK
    <2>3. keydir' \in Index /\ activeHints' \in Seq(Entry) BY <1>1, <1>12, <1>15
    <2>4. QED BY <1>6, <1>11, <1>17, <1>18, <2>1, <2>2, <2>3 DEF TypeOK
  <1>20. merge' = NoMerge BY <1>1, <1>3
  <1>21. merge' \in Merge /\ merge'.kind = "none" /\ Unread' = {} /\ MergeInv' /\ CopyInv' /\ BytesInv'
    BY <1>20, MergeEnds
  <1>22. StoppedInv' BY <1>1 DEF StoppedInv
  <1>23. OpenInv'
    <2>1. dir' = readers' \cup Unread' /\ torn' = {} BY <1>1, <1>21
    <2>2. \A id \in dir' \ {w'.id} : durable'[id] = Len(data'[id])
      <3> TAKE id \in dir' \ {w'.id}
      <3>1. id \in dir \ {n} /\ id \in Id BY <1>1, <1>3, <1>11
      <3>2. QED BY <1>1, <1>5, <3>1
    <2>3. QED BY <1>14, <2>1, <2>2 DEF OpenInv
  <1>24. IndexInv'
    <2> SUFFICES ASSUME NEW k \in Keys PROVE Finds(keydir[k], Last(history)[k])' BY DEF IndexInv
    <2>1. PICK x \in Location \cup {NoLoc} : x = replay[k] /\ x = keydir'[k]
      BY <1>1, <1>15 DEF Index
    <2>2. PICK y : y = Last(history)'[k] /\ y = found[k] BY <1>17
    <2>3. Finds(x, y)'
      <3>1. CASE x = NoLoc BY <1>16, <2>1, <2>2, <3>1 DEF Finds
      <3>2. CASE x # NoLoc
        <4>1. /\ x.id \in dir /\ x.off < Len(data[x.id])
              /\ data[x.id][x.off + 1].val = y
          BY <1>15, <1>16, <2>1, <2>2, <3>2
        <4>2. x.id \in readers' /\ Held(x.id)' = data[x.id] BY <1>1, <1>3, <1>13, <4>1
        <4>3. QED BY <3>2, <4>1, <4>2 DEF Finds
      <3>3. QED BY <3>1, <3>2
    <2>4. QED BY <2>1, <2>2, <2>3
  <1>25. QED BY <1>7, <1>19, <1>21, <1>22, <1>23, <1>24 DEF Inv

-----------------------------------------------------------------------------
(* The invariant holds throughout.                                         *)

LEMMA InitHolds == ASSUME Init PROVE Inv
  <1>1. /\ dir = {} /\ torn = {} /\ data = [id \in Id |-> <<>>]
        /\ durable = [id \in Id |-> 0] /\ hints = [id \in Id |-> <<>>] /\ up = FALSE
        /\ keydir = Nowhere /\ readers = {} /\ activeHints = <<>>
        /\ w = Attach(1, OpenWriter(<<>>, 0)) /\ live_bytes = 0 /\ disk_bytes = 0
        /\ merge = NoMerge /\ history = <<[k \in Keys |-> Absent]>> /\ kern = 1
        /\ crash = "close" /\ excused = {} /\ writes = 0 /\ crashes = 0 /\ merges = 0
    BY DEF Init
  <1>2. NoMerge \in Merge /\ NoMerge.kind = "none" /\ Nowhere \in Index BY NoMergeFacts
  <1>3. w \in [id : Id, offset : Nat, written : Nat, synced : Nat, pending : Seq(Record)]
    <2>1. 1 \in Id /\ <<>> \in Seq(Record) /\ Len(<<>>) = 0 BY BoundsAssumption DEF Id
    <2>2. w = [id |-> 1, offset |-> 0, written |-> 0, synced |-> 0, pending |-> <<>>]
      BY <1>1, <2>1 DEF Attach, OpenWriter
    <2>3. \A i \in Id : \A e \in Seq(Record) :
             [id |-> i, offset |-> 0, written |-> 0, synced |-> 0, pending |-> e] \in
             [id : Id, offset : Nat, written : Nat, synced : Nat, pending : Seq(Record)]
      OBVIOUS
    <2>4. QED BY <2>1, <2>2, <2>3, Zenon
  <1>4. history \in Seq(Contents) /\ history # <<>> /\ kern \in 1..Len(history)
    <2>1. [k \in Keys |-> Absent] \in Contents BY DEF Contents
    <2>2. QED BY <1>1, <2>1, OneContents
  <1>5. TypeOK
    <2>1. /\ data \in [Id -> Seq(Record)] /\ durable \in [Id -> Nat]
          /\ hints \in [Id -> Seq(Entry)] /\ activeHints \in Seq(Entry)
      BY <1>1
    <2>2. writes \in 0..MaxWrites /\ crashes \in 0..MaxCrashes /\ merges \in 0..MaxMerges
      BY <1>1, BoundsAssumption
    <2>3. up \in BOOLEAN /\ live_bytes \in Int /\ disk_bytes \in Nat
      <3>1. 0 \in Int /\ 0 \in Nat OBVIOUS
      <3>2. QED BY <1>1, <3>1, Zenon
    <2>4. QED BY <1>1, <1>2, <1>3, <1>4, <2>1, <2>2, <2>3 DEF TypeOK
  <1>6. FilesInv BY <1>1 DEF FilesInv, FileOK
  <1>7. StoppedInv /\ OpenInv /\ IndexInv BY <1>1 DEF StoppedInv, OpenInv, IndexInv, Refused
  <1>8. MergeInv /\ CopyInv /\ BytesInv BY <1>1, <1>2 DEF MergeInv, CopyInv, BytesInv
  <1>9. QED BY <1>5, <1>6, <1>7, <1>8 DEF Inv

LEMMA StutterKeeps == ASSUME Inv, UNCHANGED vars PROVE Inv'
  <1>1. UNCHANGED <<dir, data, durable, torn, hints, up, keydir, live_bytes, readers, w,
                    activeHints, disk_bytes, merge, history, kern, crash, excused,
                    writes, crashes, merges>>
    BY DEF vars, disk, index, ghost, bound
  <1>2. TypeOK' /\ BytesInv' BY <1>1 DEF Inv, TypeOK, BytesInv
  <1>3. FilesInv' BY <1>1 DEF Inv, FilesInv, FileOK
  <1>4. StoppedInv' BY <1>1 DEF Inv, StoppedInv, Refused, Newest
  <1>5. OpenInv'
    <2>1. ActiveInv' = ActiveInv BY <1>1 DEF ActiveInv, Active
    <2>2. Unread' = Unread /\ Replacing' = Replacing BY <1>1 DEF Unread, Replacing
    <2>3. QED BY <1>1, <2>1, <2>2 DEF Inv, OpenInv
  <1>6. MergeInv' BY <1>1 DEF Inv, MergeInv
  <1>7. IndexInv' BY <1>1 DEF Inv, IndexInv, Finds, Held
  <1>8. CopyInv'
    <2>1. Out' = Out BY <1>1 DEF Out
    <2>2. CopyInv BY DEF Inv
    <2> HIDE DEF Out
    <2>3. QED BY <1>1, <2>1, <2>2 DEF CopyInv
  <1>9. QED BY <1>2, <1>3, <1>4, <1>5, <1>6, <1>7, <1>8 DEF Inv

LEMMA NextKeeps == ASSUME Inv, [Next]_vars PROVE Inv'
  <1>1. CASE UNCHANGED vars BY <1>1, StutterKeeps
  <1>2. CASE ClientStep BY <1>2, PutKeeps, DeleteKeeps, SyncKeepsInv DEF ClientStep
  <1>3. CASE CompactStep
    BY <1>3, BeginCompactKeeps, CopyRecordKeeps, SyncMergedKeeps, EndCompactKeeps DEF CompactStep
  <1>4. CASE UnlinkStep BY <1>4, UnlinkHintKeeps, UnlinkDataKeeps DEF UnlinkStep
  <1>5. CASE JobStep
    <2>1. CASE BeginCompaction \/ BeginRestore
      BY <2>1, SealLeavingASlotKeeps DEF BeginCompaction, BeginRestore
    <2>2. CASE FinishCompaction \/ EndCompaction \/ FinishRestore \/ EndRestore \/ Abandon
      BY <2>2, FinishCompactionKeeps, EndCompactionKeeps, FinishRestoreKeeps, EndRestoreKeeps,
         AbandonKeeps
    <2>3. CASE \E k \in Keys : JobCopy(k) BY <2>3, JobCopyKeeps
    <2>4. CASE \E k \in Keys, v \in Values : RestorePush(k, v) BY <2>4, RestorePushKeeps
    <2>5. CASE \E hinted \in BOOLEAN : PlacePart(hinted) BY <2>5, PlacePartKeeps
    <2>6. QED BY <1>5, <2>1, <2>2, <2>3, <2>4, <2>5 DEF JobStep
  <1>6. CASE StopStep BY <1>6, KillKeeps, PowerCutKeeps, CloseKeeps, OpenKeeps DEF StopStep
  <1>7. QED BY <1>1, <1>2, <1>3, <1>4, <1>5, <1>6 DEF Next

LEMMA InvHolds == Spec => []Inv
  <1>1. Init => Inv BY InitHolds
  <1>2. Inv /\ [Next]_vars => Inv' BY NextKeeps
  <1>3. QED BY <1>1, <1>2, PTL DEF Spec

-----------------------------------------------------------------------------
(* What follows for a reader of the store.                                 *)

(* store.rs: every variable keeps its type, for any policy, sizes and      *)
(* bounds; in particular finish_compaction's disk_bytes, a u64 that has    *)
(* old_bytes taken from it, never goes below zero.                         *)
THEOREM TypesAreKept == Spec => []TypeOK
  <1>1. Inv => TypeOK BY DEF Inv
  <1>2. QED BY <1>1, InvHolds, PTL

(* hint.rs "it is never ahead of the data": whatever crashes, merges and   *)
(* failed hint writes have happened, a hint lists the records its file     *)
(* starts with, all of them on the disk, so hint::load may believe it.     *)
THEOREM HintsAreNeverAhead == Spec => []HintsNeverRunAhead
  <1>1. Inv => HintsNeverRunAhead
    <2> SUFFICES ASSUME Inv, NEW id \in dir
                 PROVE  /\ Len(hints[id]) <= durable[id]
                        /\ hints[id] = EntriesOf(SubSeq(data[id], 1, Len(hints[id])))
      BY DEF HintsNeverRunAhead
    <2> DEFINE d == data[id]
               h == hints[id]
               n == Len(h)
               s == SubSeq(d, 1, n)
    <2>1. /\ d \in Seq(Record) /\ h \in Seq(Entry) /\ durable[id] \in Nat
          /\ FileOK(d, durable[id], h)
      BY DEF Inv, TypeOK, FilesInv
    <2>2. n \in Nat /\ Len(d) \in Nat /\ n <= durable[id] /\ durable[id] <= Len(d)
          /\ \A i \in 1..n : h[i] = EntryOf(d[i])
      BY <2>1, LenProperties DEF FileOK
    <2>3. s \in Seq(Record) /\ Len(s) = n /\ \A i \in 1..n : s[i] = d[i]
      <3>1. n \in 0..Len(d) BY <2>1, <2>2
      <3> HIDE DEF n, d
      <3>2. QED BY <2>1, <3>1, PrefixIs
    <2> HIDE DEF s, n, d
    <2>4. /\ EntriesOf(s) \in Seq(Entry) /\ Len(EntriesOf(s)) = n
          /\ \A i \in 1..n : EntriesOf(s)[i] = EntryOf(s[i])
      BY <2>3, EntriesFacts
    <2>5. \A i \in 1..n : h[i] = EntriesOf(s)[i] BY <2>2, <2>3, <2>4
    <2>6. h = EntriesOf(s)
      <3>1. Len(h) = n /\ h \in Seq(Entry) BY <2>1 DEF n
      <3> HIDE DEF h
      <3>2. QED BY <2>4, <2>5, <3>1, SeqEqual
    <2>7. QED BY <2>2, <2>6 DEF s, n, d
  <1>2. QED BY <1>1, InvHolds, PTL

(* sync_handle's "everything in files before the active one is durable     *)
(* already": whichever way a file stopped being the active one, and        *)
(* whatever a job has placed since, syncing the active file is enough.     *)
THEOREM SealedFilesAreAlwaysDurable == Spec => []SealedFilesAreDurable
  <1>1. Inv => SealedFilesAreDurable BY ReadyFacts DEF SealedFilesAreDurable, Inv, OpenInv
  <1>2. QED BY <1>1, InvHolds, PTL

(* open_with's "only the file that was being appended to can end           *)
(* mid-record": a kill, a power cut or a close leaves a store that opens,  *)
(* outside the windows that `excused' names.                               *)
THEOREM RecoveryIsAlwaysAccepted == Spec => []RecoveryIsNeverRefused
  <1>1. Inv => RecoveryIsNeverRefused BY DEF RecoveryIsNeverRefused, Inv, StoppedInv
  <1>2. QED BY <1>1, InvHolds, PTL

(* A get finds what its location leads to, in the buffer or in the file.   *)
LEMMA GetFinds == ASSUME Inv, Ready, NEW k \in Keys, NEW v, Finds(keydir[k], v) PROVE Get(k) = v
  <1> DEFINE l == keydir[k]
             off == l.off
  <1>1. /\ TypeOK /\ FilesInv /\ ActiveInv /\ WriterOK(Active) /\ w.id \in Id
    BY ReadyFacts, OpenFacts DEF ActiveInv
  <1>2. CASE l = NoLoc BY <1>2 DEF Finds, Get
  <1>3. CASE l # NoLoc
    <2>1. /\ l \in Location /\ l.id \in readers /\ off < Len(Held(l.id)) /\ off \in Nat
          /\ Held(l.id)[off + 1].val = v
      BY <1>1, <1>3 DEF Finds, TypeOK, Index, Location
    <2>2. Get(k) = IF l.id = w.id /\ InBuffer(Active, off)
                   THEN BufferedAt(Active, off).val
                   ELSE IF l.id \in readers /\ off < Len(data[l.id])
                   THEN data[l.id][off + 1].val
                   ELSE "unreadable"
      BY <1>3 DEF Get
    <2>3. CASE l.id # w.id
      <3>1. Held(l.id) = data[l.id] BY <2>3 DEF Held
      <3>2. QED BY <2>1, <2>2, <2>3, <3>1, Zenon
    <2>4. CASE l.id = w.id
      <3>1. /\ Active.file = data[w.id] /\ Active.offset = w.offset /\ Active.written = w.written
            /\ Active.pending = w.pending /\ Appended(Active) = Held(w.id)
            /\ Len(Held(w.id)) = w.offset /\ Len(data[w.id]) = w.written
            /\ w.offset \in Nat /\ w.written \in Nat
        BY <1>1, ActiveFacts
      <3>2. off \in 0 .. Active.offset - 1
        <4>1. off < w.offset BY <2>1, <2>4, <3>1
        <4> HIDE DEF off
        <4>2. off \in 0 .. w.offset - 1 BY <2>1, <3>1, <4>1
        <4>3. QED BY <3>1, <4>2, Zenon
      <3>3. ReadAt(Active, off) = Held(w.id)[off + 1] BY <1>1, <3>1, <3>2, EveryRecordIsReadable
      <3>4. CASE InBuffer(Active, off)
        <4>1. Get(k) = BufferedAt(Active, off).val BY <2>2, <2>4, <3>4, Zenon
        <4>2. BufferedAt(Active, off) = Held(l.id)[off + 1] BY <2>4, <3>3, <3>4, Zenon DEF ReadAt
        <4>3. QED BY <2>1, <4>1, <4>2, Zenon
      <3>5. CASE ~InBuffer(Active, off)
        <4>1. off < Len(data[l.id])
          <5>1. w.offset = w.written + Len(w.pending) /\ Len(w.pending) \in Nat
            BY <1>1, <3>1, WriterFields DEF Counts
          <5>2. off < w.offset /\ ~(off >= w.written /\ off - w.written < Len(w.pending))
            BY <2>1, <2>4, <3>1, <3>5 DEF InBuffer
          <5> HIDE DEF off
          <5>3. off < w.written BY <2>1, <3>1, <5>1, <5>2
          <5>4. QED BY <2>4, <3>1, <5>3
        <4>2. Get(k) = data[l.id][off + 1].val BY <2>1, <2>2, <3>5, <4>1, Zenon
        <4>3. data[l.id][off + 1] = Held(l.id)[off + 1] BY <2>4, <3>1, <3>3, <3>5, Zenon DEF ReadAt
        <4>4. QED BY <2>1, <4>2, <4>3, Zenon
      <3>6. QED BY <3>4, <3>5
    <2>5. QED BY <2>3, <2>4
  <1>4. QED BY <1>2, <1>3

(* Store::get: through rolling over, deferred writes, compact, background  *)
(* compaction, restore and recovery, a get reads the newest write of its   *)
(* key (or what the last open recovered), and never fails.                 *)
THEOREM ReadsAlwaysSeeTheNewestWrite == Spec => []ReadsSeeTheNewestWrite
  <1>1. Inv => ReadsSeeTheNewestWrite
    <2> SUFFICES ASSUME Inv, Ready, NEW k \in Keys PROVE Get(k) = Last(history)[k]
      BY DEF ReadsSeeTheNewestWrite
    <2>1. Finds(keydir[k], Last(history)[k]) BY ReadyFacts DEF Inv, IndexInv
    <2>2. QED BY <2>1, GetFinds
  <1>2. QED BY <1>1, InvHolds, PTL

LEMMA GrowsIsPrefix ==
    ASSUME NEW d \in Seq(Record), NEW e \in Seq(Record), Grows(d, e) PROVE IsPrefix(d, e)
  <1> DEFINE n == Len(d)
             s == SubSeq(d, 1, n)
             t == SubSeq(e, 1, n)
  <1>1. n \in Nat /\ Len(e) \in Nat /\ n <= Len(e) /\ \A i \in 1..n : e[i] = d[i]
    BY LenProperties DEF Grows
  <1>2. n \in 0..Len(d) /\ n \in 0..Len(e) BY <1>1
  <1> HIDE DEF n
  <1>3. s \in Seq(Record) /\ Len(s) = n /\ \A i \in 1..n : s[i] = d[i] BY <1>2, PrefixIs
  <1>4. t \in Seq(Record) /\ Len(t) = n /\ \A i \in 1..n : t[i] = e[i] BY <1>2, PrefixIs
  <1> HIDE DEF s, t
  <1>5. \A i \in 1..n : s[i] = t[i] BY <1>1, <1>3, <1>4, Zenon
  <1>6. s = t BY <1>3, <1>4, <1>5, SeqEqual
  <1>7. QED BY <1>1, <1>6 DEF IsPrefix, s, t, n

(* Every step that leaves the store open only adds to the files it keeps.  *)
Grown == \A id \in dir \cap dir' : Grows(data[id], data'[id])

LEMMA NothingWritten == ASSUME TypeOK, data' = data PROVE Grown
  <1>1. \A id \in dir : data[id] \in Seq(Record) BY DEF TypeOK
  <1>2. QED BY <1>1, GrowsFacts DEF Grown

LEMMA OneFileWritten ==
    ASSUME TypeOK, NEW m \in Id, NEW f, data' = [data EXCEPT ![m] = f],
           m \in dir \cap dir' => Grows(data[m], f)
    PROVE  Grown
  <1> SUFFICES ASSUME NEW id \in dir \cap dir' PROVE Grows(data[id], data'[id]) BY DEF Grown
  <1>1. data \in [Id -> Seq(Record)] /\ id \in Id BY DEF TypeOK
  <1>2. CASE id = m
    <2>1. data'[id] = f BY <1>1, <1>2
    <2>2. QED BY <1>2, <2>1
  <1>3. CASE id # m
    <2>1. data'[id] = data[id] /\ data[id] \in Seq(Record) BY <1>1, <1>3
    <2>2. QED BY <2>1, GrowsFacts
  <1>4. QED BY <1>2, <1>3

LEMMA ClientGrows == ASSUME Inv, ClientStep PROVE Grown
  <1>1. Ready BY DEF ClientStep, Put, Delete, Sync
  <1>2. /\ TypeOK /\ FilesInv /\ ActiveInv /\ readers \subseteq dir /\ dir \subseteq 1..w.id
        /\ w.id \in Id
    BY <1>1, ReadyFacts, OpenFacts
  <1>3. ASSUME NEW rec \in Record, NEW reach \in Reach, AppendToLog(rec, reach) PROVE Grown
    <2>1. \A id \in Id : Grows(data[id], data'[id]) BY <1>2, <1>3, AppendStep DEF Appends, Advances
    <2>2. QED BY <1>2, <2>1 DEF Grown, TypeOK
  <1>4. Reaches \subseteq Reach BY PolicyAssumption DEF Reaches, Reach
  <1>5. CASE \E k \in Keys, v \in Values, reach \in Reaches : Put(k, v, reach)
    <2>1. PICK k \in Keys, v \in Values, reach \in Reaches : Put(k, v, reach) BY <1>5
    <2>2. [key |-> k, val |-> v] \in Record /\ AppendToLog([key |-> k, val |-> v], reach)
      BY <2>1 DEF Put, Record
    <2>3. QED BY <1>3, <1>4, <2>2
  <1>6. CASE \E k \in Keys, reach \in Reaches : Delete(k, reach)
    <2>1. PICK k \in Keys, reach \in Reaches : Delete(k, reach) BY <1>6
    <2>2. [key |-> k, val |-> Absent] \in Record
          /\ AppendToLog([key |-> k, val |-> Absent], reach)
      BY <2>1 DEF Delete, Record
    <2>3. QED BY <1>3, <1>4, <2>2
  <1>7. CASE Sync
    <2>1. data' = [data EXCEPT ![w.id] = Sealed.file] BY <1>7 DEF Sync
    <2>2. Grows(data[w.id], Sealed.file) BY <1>2, SealIs
    <2>3. QED BY <1>2, <2>1, <2>2, OneFileWritten
  <1>8. QED BY <1>5, <1>6, <1>7 DEF ClientStep

LEMMA CompactGrows == ASSUME Inv, CompactStep PROVE Grown
  <1>1. TypeOK BY DEF Inv
  <1>2. CASE BeginCompact
    <2>1. Ready /\ data' = [data EXCEPT ![w.id] = Flush(Active).file] BY <1>2 DEF BeginCompact
    <2>2. ActiveInv /\ w.id \in Id BY <2>1, ReadyFacts, OpenFacts
    <2>3. Flush(Active).file = Held(w.id) /\ Grows(data[w.id], Held(w.id))
      BY <1>1, <2>2, ActiveFacts, FlushKeeps DEF ActiveInv
    <2>4. QED BY <1>1, <2>1, <2>2, <2>3, OneFileWritten
  <1>3. CASE \E k \in Keys : CopyRecord(k)
    <2>1. PICK k \in Keys : CopyRecord(k) BY <1>3
    <2> DEFINE m == merge.id
               l == merge.view[k]
               rec == data[l.id][l.off + 1]
               full == Len(merge.part) + 1 >= MaxPending
               f == IF full THEN data[m] \o Append(merge.part, rec) ELSE data[m]
    <2>2. /\ up /\ merge.kind = "compact" /\ merge.stage = "copy" /\ l # NoLoc
          /\ data' = [data EXCEPT ![m] = IF full THEN @ \o Append(merge.part, rec) ELSE @]
      BY <2>1 DEF CopyRecord, LiveKeys
    <2>3. /\ m \in Id /\ data[m] \in Seq(Record) /\ merge.part \in Seq(Record)
          /\ \A id \in readers : Held(id) = data[id]
      BY <2>2, CopyingFacts
    <2>4. rec \in Record
      <3>1. Finds(l, Last(history)[k]) /\ l \in Location /\ readers \subseteq Id
        <4>1. Finds(keydir[k], Last(history)[k]) /\ keydir[k] = l BY <2>2 DEF Inv, IndexInv, CopyInv
        <4>2. QED BY <1>1, <2>2, <4>1, MergeFields DEF TypeOK
      <3>2. l.id \in readers /\ l.off < Len(data[l.id]) /\ l.off \in Nat
        BY <2>2, <2>3, <3>1 DEF Finds, Location
      <3>3. data[l.id] \in Seq(Record) /\ Len(data[l.id]) \in Nat
        BY <1>1, <3>1, <3>2, LenProperties DEF TypeOK
      <3>4. l.off + 1 \in 1..Len(data[l.id]) BY <3>2, <3>3
      <3>5. QED BY <3>3, <3>4, ElementOfSeq
    <2>5. Grows(data[m], f)
      <3>1. Grows(data[m], data[m] \o Append(merge.part, rec)) BY <2>3, <2>4, AppendToTail
      <3>2. Grows(data[m], data[m]) BY <2>3, GrowsFacts
      <3>3. QED BY <3>1, <3>2
    <2>6. data' = [data EXCEPT ![m] = f]
      <3>1. data \in [Id -> Seq(Record)] BY <1>1 DEF TypeOK
      <3>2. QED BY <2>2, <2>3, <3>1
    <2> HIDE DEF f, m
    <2>7. QED BY <1>1, <2>3, <2>5, <2>6, OneFileWritten
  <1>4. CASE \E hinted \in BOOLEAN : SyncMerged(hinted)
    <2>1. /\ up /\ merge.kind = "compact"
          /\ data' = [data EXCEPT ![merge.id] = data[merge.id] \o merge.part]
      BY <1>4 DEF SyncMerged
    <2>2. merge.id \in Id /\ data[merge.id] \in Seq(Record) /\ merge.part \in Seq(Record)
      BY <2>1, CopyingFacts
    <2>3. Grows(data[merge.id], data[merge.id] \o merge.part) BY <2>2, GrowsFacts
    <2>4. QED BY <1>1, <2>1, <2>2, <2>3, OneFileWritten
  <1>5. CASE EndCompact BY <1>1, <1>5, NothingWritten DEF EndCompact, disk
  <1>6. QED BY <1>2, <1>3, <1>4, <1>5 DEF CompactStep

LEMMA JobGrows == ASSUME Inv, JobStep PROVE Grown
  <1>1. TypeOK BY DEF Inv
  <1>2. CASE BeginCompaction \/ BeginRestore
    <2>1. Ready /\ data' = [data EXCEPT ![w.id] = Sealed.file]
      BY <1>2 DEF BeginCompaction, BeginRestore, SealLeavingASlot
    <2>2. ActiveInv /\ FilesInv /\ w.id \in Id BY <2>1, ReadyFacts, OpenFacts
    <2>3. Grows(data[w.id], Sealed.file) BY <1>1, <2>2, SealIs
    <2>4. QED BY <1>1, <2>1, <2>2, <2>3, OneFileWritten
  <1>3. CASE \E hinted \in BOOLEAN : PlacePart(hinted)
    <2>1. /\ up /\ merge.kind \in {"background", "restore"} /\ merge.stage = "copy"
          /\ data' = [data EXCEPT ![merge.id] = merge.part]
      BY <1>3 DEF PlacePart, Compacting, Restoring
    <2>2. merge.id \in Id /\ merge.id \notin readers /\ merge.cur = 0
      BY <1>1, <2>1, MergeFields DEF Inv, MergeInv
    <2>3. merge.id \notin dir
      <3>1. Unread = {} BY <2>1, <2>2 DEF Unread
      <3>2. QED BY <2>1, <2>2, <3>1 DEF Inv, OpenInv
    <2>4. QED BY <1>1, <2>1, <2>2, <2>3, OneFileWritten
  <1>4. CASE FinishCompaction \/ EndCompaction \/ FinishRestore \/ EndRestore \/ Abandon
    <2>1. data' = data
      BY <1>4, ZenonT(40) DEF FinishCompaction, EndCompaction, FinishRestore, EndRestore, Abandon, disk
    <2>2. QED BY <1>1, <2>1, NothingWritten
  <1>5. CASE \/ \E k \in Keys : JobCopy(k)
             \/ \E k \in Keys, v \in Values : RestorePush(k, v)
    BY <1>1, <1>5, NothingWritten DEF JobCopy, RestorePush, AddToPart, disk
  <1>6. QED BY <1>2, <1>3, <1>4, <1>5 DEF JobStep

LEMMA UnlinkGrows == ASSUME Inv, UnlinkStep PROVE Grown
  <1>1. TypeOK BY DEF Inv
  <1>2. CASE \E id \in Id : UnlinkHint(id) BY <1>1, <1>2, NothingWritten DEF UnlinkHint
  <1>3. CASE UnlinkData
    <2>1. merge.cur # 0 /\ dir' = dir \ {merge.cur} /\ data' = [data EXCEPT ![merge.cur] = <<>>]
      BY <1>3 DEF UnlinkData
    <2>2. merge.cur \in Id BY <1>1, <2>1, MergeFields, BoundsAssumption DEF Id
    <2>3. QED BY <1>1, <2>1, <2>2, OneFileWritten
  <1>4. QED BY <1>2, <1>3 DEF UnlinkStep

(* Store's "nothing is ever mutated in place": no step that leaves the     *)
(* store open takes a record from a file it keeps, or changes one.         *)
THEOREM FilesAlwaysOnlyGrow == Spec => FilesOnlyGrow
  <1>1. ASSUME Inv, Inv', [Next]_vars, up, up' PROVE Grown
    <2>1. CASE UNCHANGED vars BY <1>1, <2>1, NothingWritten DEF Inv, vars, disk
    <2>2. CASE StopStep
      <3>1. ~up \/ up' = FALSE BY <2>2, Zenon DEF StopStep, Kill, PowerCut, Close, Open, Forget
      <3>2. QED BY <1>1, <3>1, Zenon
    <2>3. QED BY <1>1, <2>1, <2>2, ClientGrows, CompactGrows, JobGrows, UnlinkGrows DEF Next
  <1>2. ASSUME Inv, Inv', Grown PROVE \A id \in dir \cap dir' : IsPrefix(data[id], data'[id])
    <2> TAKE id \in dir \cap dir'
    <2>1. data[id] \in Seq(Record) /\ data'[id] \in Seq(Record) BY <1>2 DEF Inv, TypeOK
    <2>2. QED BY <1>2, <2>1, GrowsIsPrefix DEF Grown
  <1>3. Inv /\ Inv' /\ [Next]_vars =>
            [up /\ up' => \A id \in dir \cap dir' : IsPrefix(data[id], data'[id])]_vars
    BY <1>1, <1>2
  <1>4. QED BY <1>3, InvHolds, PTL DEF Spec, FilesOnlyGrow

-----------------------------------------------------------------------------
(* However much of file a is lost, down to lo records of hi, the files     *)
(* hold contents of h, and the less is lost the later ones: all of it, the *)
(* last of h, and with wr records or more, those from kn on.               *)
Backs(f, h, F, a, lo, hi) ==
    /\ f \in [lo..hi -> 1..Len(h)]
    /\ \A m, n \in lo..hi : m <= n => f[m] <= f[n]
    /\ \A n \in lo..hi : Holds(Cut(F, a, n), h[f[n]])
Promises(h, kn, F, a, lo, wr, hi) ==
    \E f : /\ Backs(f, h, F, a, lo, hi)
           /\ f[hi] = Len(h)
           /\ \A n \in lo..hi : wr <= n => kn <= f[n]

-----------------------------------------------------------------------------
(* The inductive invariant.                                                *)

(* The store's files with what is buffered: all that count once a merge    *)
(* has begun to unlink the old ones; those the index is about; the old.    *)
Kernel == [id \in Id |-> Held(id)]
Standing == IF merge.stage = "unlink" THEN From(Kernel, merge.id) ELSE Kernel
Indexed == [id \in Id |-> IF merge.stage = "placed" /\ id = merge.id THEN <<>>
                          ELSE Standing[id]]
Old == Under(data, merge.id)
Serving == up /\ merge.kind # "compact" /\ ~RestoreInPlace

Promised == Promises(history, kern, Standing, w.id, durable[w.id], w.written, w.offset)
ServingInv ==
    Serving => Promised /\ \A k \in Keys : Points(Indexed, k, keydir[k])

(* compact: the originals, and then the merged file, hold the contents.    *)
CompactInv ==
    up /\ merge.kind = "compact" =>
        /\ merge.stage = "copy" => Holds(Old, Last(history))
        /\ merge.stage = "unlink" =>
               /\ Holds(From(data, merge.id), Last(history))
               /\ durable[merge.id] = Len(data[merge.id])

(* A merge's view is the index of what is before its slot, and while that  *)
(* is being unlinked nothing in it comes back to life: a record is erased  *)
(* by a later one, or copied, or a newer file has gone before it.          *)
Merging == merge.kind \in {"compact", "background"}
ViewInv ==
    Merging /\ merge.stage # "unlink" =>
        \A k \in Keys : Points(Old, k, merge.view[k])
DeadInv ==
    Merging /\ merge.stage = "unlink" =>
        \A k \in Keys : \A a, i :
            Place(Old, k, a, i) /\ Old[a][i].val # Absent =>
                \/ \E b, j : Place(Old, k, b, j) /\ Old[b][j].val = Absent /\ Before(a, i, b, j)
                \/ \E j : Place(data, k, merge.id, j)
                \/ \E g \in merge.gone : g > a

(* Every record of the merge's file is the one copy of its key, live, and  *)
(* that of the record the view has.                                        *)
OutInv ==
    merge.kind # "none" =>
        /\ \A i \in 1..Len(Out) :
              /\ Out[i].val # Absent
              /\ merge.moved[Out[i].key] = [id |-> merge.id, off |-> i - 1]
              /\ Merging /\ merge.stage # "unlink" =>
                    LET loc == merge.view[Out[i].key]
                    IN  loc # NoLoc /\ Out[i] = Old[loc.id][loc.off + 1]
        /\ \A k \in Keys : merge.moved[k] # NoLoc =>
              Out[merge.moved[k].off + 1].key = k

(* The merge's slot is left for its file, and the files before it are the  *)
(* ones it replaces.                                                       *)
SlotInv ==
    merge.kind # "none" =>
        /\ merge.kind = "background" /\ merge.stage = "unlink" => data[merge.id] = merge.part
        /\ merge.kind # "compact" /\ merge.stage = "copy" => merge.id \notin dir
        /\ \A id \in dir : id < merge.id => id \in merge.old \cup {merge.cur}

(* Nothing is written during a restore.                                    *)
RestoreInv ==
    merge.kind = "restore" => w.offset = 0 /\ \A id \in dir : id > merge.id => id = w.id

(* A stopped store: a power cut could only have taken records it may lose. *)
DownInv ==
    ~up /\ excused = {} =>
        /\ \E f : /\ Backs(f, history, data, Tip, durable[Tip], Len(data[Tip]))
                  /\ crash # "power" => kern <= f[Len(data[Tip])]
        /\ crash = "power" => \A id \in Id : durable[id] = Len(data[id])

RecInv == ServingInv /\ CompactInv /\ ViewInv /\ DeadInv /\ OutInv /\ SlotInv
          /\ RestoreInv /\ DownInv

-----------------------------------------------------------------------------
(* What writing, copying and unlinking do to what the files hold.          *)

(* A key whose records are where they were.                                *)
LEMMA KeyAlone ==
    ASSUME NEW F, NEW G, NEW k,
           \A a, i : Place(F, k, a, i) <=> Place(G, k, a, i),
           \A a, i : Place(F, k, a, i) => F[a][i] = G[a][i]
    PROVE  /\ Erased(F, k) <=> Erased(G, k)
           /\ \A a, i : Ends(F, k, a, i) <=> Ends(G, k, a, i)
           /\ \A v : Reads(F, k, v) <=> Reads(G, k, v)
           /\ \A loc : Points(F, k, loc) <=> Points(G, k, loc)
  <1>1. Erased(F, k) => Erased(G, k)
    <2> SUFFICES ASSUME Erased(F, k), NEW a, NEW i, Place(G, k, a, i), G[a][i].val # Absent
                 PROVE  \E b, j : Place(G, k, b, j) /\ G[b][j].val = Absent /\ Before(a, i, b, j)
      BY DEF Erased
    <2>1. Place(F, k, a, i) /\ F[a][i].val # Absent OBVIOUS
    <2>2. PICK b, j : Place(F, k, b, j) /\ F[b][j].val = Absent /\ Before(a, i, b, j)
      BY <2>1 DEF Erased
    <2>3. QED BY <2>2
  <1>2. Erased(G, k) => Erased(F, k)
    <2> SUFFICES ASSUME Erased(G, k), NEW a, NEW i, Place(F, k, a, i), F[a][i].val # Absent
                 PROVE  \E b, j : Place(F, k, b, j) /\ F[b][j].val = Absent /\ Before(a, i, b, j)
      BY DEF Erased
    <2>1. Place(G, k, a, i) /\ G[a][i].val # Absent OBVIOUS
    <2>2. PICK b, j : Place(G, k, b, j) /\ G[b][j].val = Absent /\ Before(a, i, b, j)
      BY <2>1 DEF Erased
    <2>3. QED BY <2>2
  <1>3. \A a, i : Ends(F, k, a, i) <=> Ends(G, k, a, i) BY DEF Ends
  <1>4. \A a, i : Ends(F, k, a, i) => F[a][i] = G[a][i] BY DEF Ends
  <1>5. \A v : Reads(F, k, v) <=> Reads(G, k, v) BY <1>1, <1>2, <1>3, <1>4 DEF Reads
  <1>6. \A loc : Points(F, k, loc) <=> Points(G, k, loc) BY <1>1, <1>2, <1>3 DEF Points
  <1>7. QED BY <1>1, <1>2, <1>3, <1>5, <1>6

(* A record appended to the newest file.                                   *)
HasMore(F, G, a, rec) ==
    /\ G[a][Len(F[a]) + 1] = rec
    /\ \A k, b, j : Place(G, k, b, j) <=>
          (Place(F, k, b, j) \/ (k = rec.key /\ b = a /\ j = Len(F[a]) + 1))
    /\ \A k, b, j : Place(F, k, b, j) => F[b][j] = G[b][j]

LEMMA OneMore ==
    ASSUME NEW F \in [Id -> Seq(Record)], NEW a \in Id, NEW rec \in Record,
           NEW G \in [Id -> Seq(Record)], G[a] = Append(F[a], rec),
           \A id \in Id \ {a} : G[id] = F[id]
    PROVE  HasMore(F, G, a, rec)
  <1> DEFINE d == F[a]
             e == Append(d, rec)
  <1>1. d \in Seq(Record) /\ Len(d) \in Nat BY LenProperties
  <1>2. /\ e \in Seq(Record) /\ Len(e) = Len(d) + 1 /\ e[Len(d) + 1] = rec
        /\ \A i \in 1..Len(d) : e[i] = d[i]
    BY <1>1, AppendProperties
  <1>3. G[a] = e /\ \A id \in Id \ {a} : G[id] = F[id] OBVIOUS
  <1> HIDE DEF e
  <1>5. ASSUME NEW k, NEW b, NEW j
        PROVE  /\ Place(G, k, b, j) <=> (Place(F, k, b, j)
                                        \/ (k = rec.key /\ b = a /\ j = Len(F[a]) + 1))
               /\ (Place(F, k, b, j) => F[b][j] = G[b][j])
    <2>1. CASE b # a BY <1>3, <2>1 DEF Place
    <2>2. CASE b = a
      <3>1. Place(G, k, b, j) <=> j \in 1..Len(e) /\ e[j].key = k BY <1>3, <2>2 DEF Place
      <3>2. Place(F, k, b, j) <=> j \in 1..Len(d) /\ d[j].key = k BY <2>2 DEF Place
      <3>3. j \in 1..Len(e) <=> j \in 1..Len(d) \/ j = Len(d) + 1 BY <1>1, <1>2
      <3>4. Len(d) + 1 \notin 1..Len(d) BY <1>1
      <3> HIDE DEF d
      <3>5. QED BY <1>2, <1>3, <2>2, <3>1, <3>2, <3>3, <3>4 DEF d
    <2>3. QED BY <2>1, <2>2
  <1>6. G[a][Len(F[a]) + 1] = rec BY <1>2, <1>3 DEF d
  <1>7. ASSUME NEW k, NEW b, NEW j, Place(F, k, b, j) PROVE F[b][j] = G[b][j] BY <1>5, <1>7
  <1>9. QED BY <1>5, <1>6, <1>7 DEF HasMore

LEMMA AppendHolds ==
    ASSUME NEW F \in [Id -> Seq(Record)], NEW a \in Id, NEW rec \in Record,
           \A id \in Id : id > a => F[id] = <<>>,
           NEW G \in [Id -> Seq(Record)], G[a] = Append(F[a], rec),
           \A id \in Id \ {a} : G[id] = F[id]
    PROVE  /\ \A k \in Keys \ {rec.key} : \A loc : Points(F, k, loc) => Points(G, k, loc)
           /\ Points(G, rec.key, IF rec.val = Absent THEN NoLoc
                                 ELSE [id |-> a, off |-> Len(F[a])])
           /\ \A c \in Contents : Holds(F, c) => Holds(G, [c EXCEPT ![rec.key] = rec.val])
  <1> DEFINE n == Len(F[a]) + 1
             k0 == rec.key
             v0 == rec.val
  <1>1. /\ G[a][n] = rec
        /\ \A k, b, j : Place(G, k, b, j) <=>
                 Place(F, k, b, j) \/ (k = k0 /\ b = a /\ j = n)
        /\ \A k, b, j : Place(F, k, b, j) => F[b][j] = G[b][j]
    <2>1. HasMore(F, G, a, rec) BY OneMore
    <2>2. QED BY <2>1 DEF HasMore
  <1>2. Len(F[a]) \in Nat /\ n \in Nat /\ a \in Nat BY LenProperties, BoundsAssumption DEF Id
  <1>3. \A k \in Keys \ {k0} : /\ \A loc : Points(F, k, loc) => Points(G, k, loc)
                               /\ \A v : Reads(F, k, v) => Reads(G, k, v)
    <2> TAKE k \in Keys \ {k0}
    <2>1. /\ \A b, j : Place(F, k, b, j) <=> Place(G, k, b, j)
          /\ \A b, j : Place(F, k, b, j) => F[b][j] = G[b][j]
      BY <1>1
    <2>2. QED BY <2>1, KeyAlone
  <1>4. Place(G, k0, a, n) BY <1>1
  <1>5. \A b, j : Place(G, k0, b, j) => Before(b, j, a, n)
    <2> SUFFICES ASSUME NEW b, NEW j, Place(G, k0, b, j) PROVE Before(b, j, a, n) OBVIOUS
    <2>1. CASE b = a /\ j = n BY <1>2, <2>1 DEF Before
    <2>2. CASE ~(b = a /\ j = n)
      <3>1. Place(F, k0, b, j) BY <1>1, <2>2
      <3>2. b \in Id /\ b \in Nat /\ j \in Nat /\ j >= 1 /\ j <= Len(F[b]) /\ Len(F[b]) \in Nat
        BY <3>1, PlaceIsBounded
      <3>3. F[b] # <<>>
        <4>1. F[b] = <<>> => Len(F[b]) = 0 OBVIOUS
        <4>2. QED BY <3>2, <4>1
      <3>4. ~(b > a) BY <3>2, <3>3
      <3>5. b < a \/ (b = a /\ j <= n)
        <4>1. CASE b = a BY <1>2, <3>2, <4>1
        <4>2. CASE b # a BY <1>2, <3>2, <3>4, <4>2
        <4>3. QED BY <4>1, <4>2
      <3>6. QED BY <3>5 DEF Before
    <2>3. QED BY <2>1, <2>2
  <1>6. CASE v0 = Absent
    <2>1. Erased(G, k0) BY <1>1, <1>4, <1>5, <1>6 DEF Erased
    <2>2. Points(G, k0, NoLoc) /\ Reads(G, k0, v0) BY <1>6, <2>1 DEF Points, Reads
    <2>3. \A c \in Contents : Holds(F, c) => Holds(G, [c EXCEPT ![k0] = v0])
      BY <1>3, <2>2 DEF Holds, Contents
    <2>4. QED BY <1>3, <1>6, <2>2, <2>3
  <1>7. CASE v0 # Absent
    <2>1. Ends(G, k0, a, n) BY <1>1, <1>4, <1>5, <1>7 DEF Ends
    <2>2. Reads(G, k0, v0) BY <1>1, <2>1 DEF Reads
    <2> DEFINE loc == [id |-> a, off |-> Len(F[a])]
    <2>3. loc # NoLoc /\ loc.id = a /\ loc.off + 1 = n
      <3>1. a # 0 BY BoundsAssumption DEF Id
      <3>2. QED BY <3>1 DEF NoLoc
    <2>4. Points(G, k0, loc) BY <2>1, <2>3 DEF Points
    <2>5. \A c \in Contents : Holds(F, c) => Holds(G, [c EXCEPT ![k0] = v0])
      BY <1>3, <2>2 DEF Holds, Contents
    <2>6. QED BY <1>3, <1>7, <2>4, <2>5
  <1>8. QED BY <1>6, <1>7

LEMMA UnderIs ==
    ASSUME NEW F \in [Id -> Seq(Record)], NEW s \in Id
    PROVE  /\ Under(F, s) \in [Id -> Seq(Record)] /\ From(F, s) \in [Id -> Seq(Record)]
           /\ \A k, a, i : Place(Under(F, s), k, a, i) <=> Place(F, k, a, i) /\ a < s
           /\ \A k, a, i : Place(From(F, s), k, a, i) <=> Place(F, k, a, i) /\ ~(a < s)
           /\ \A a \in Id : a < s => Under(F, s)[a] = F[a]
           /\ \A a \in Id : ~(a < s) => From(F, s)[a] = F[a]
  <1>1. <<>> \in Seq(Record) /\ Len(<<>>) = 0 /\ \A i : i \notin 1..0 BY EmptySeq
  <1>2. Under(F, s) \in [Id -> Seq(Record)] /\ From(F, s) \in [Id -> Seq(Record)]
    BY <1>1 DEF Under, From
  <1>3. \A a \in Id : Under(F, s)[a] = (IF a < s THEN F[a] ELSE <<>>) BY DEF Under
  <1>4. \A a \in Id : From(F, s)[a] = (IF a < s THEN <<>> ELSE F[a]) BY DEF From
  <1>5. \A k, a, i : Place(Under(F, s), k, a, i) <=> Place(F, k, a, i) /\ a < s
    BY <1>1, <1>3 DEF Place
  <1>6. \A k, a, i : Place(From(F, s), k, a, i) <=> Place(F, k, a, i) /\ ~(a < s)
    BY <1>1, <1>4 DEF Place
  <1>7. QED BY <1>2, <1>3, <1>4, <1>5, <1>6

(* Copies of the last records before s, put in s.                          *)
LEMMA Overlay ==
    ASSUME NEW F \in [Id -> Seq(Record)], NEW G \in [Id -> Seq(Record)], NEW s \in Id,
           F[s] = <<>>, \A id \in Id \ {s} : F[id] = G[id],
           NEW k, NEW loc, Points(Under(F, s), k, loc),
           \A i : Place(G, k, s, i) => loc # NoLoc /\ G[s][i] = F[loc.id][loc.off + 1],
           \A i, j : Place(G, k, s, i) /\ Place(G, k, s, j) => i = j,
           NEW v, Reads(F, k, v)
    PROVE  Reads(G, k, v)
  <1> DEFINE U == Under(F, s)
             x == loc.id
             y == loc.off + 1
  <1>1. /\ U \in [Id -> Seq(Record)]
        /\ \A a, i : Place(U, k, a, i) <=> Place(F, k, a, i) /\ a < s
        /\ \A a \in Id : a < s => U[a] = F[a]
    BY UnderIs
  <1> HIDE DEF U
  <1>2. \A a, i : Place(F, k, a, i) => a # s /\ Place(G, k, a, i) /\ F[a][i] = G[a][i]
    <2>1. \A i : i \notin 1..Len(<<>>) OBVIOUS
    <2>2. QED BY <2>1 DEF Place
  <1>3. \A a, i : Place(G, k, a, i) => Place(F, k, a, i) \/ a = s BY DEF Place
  <1>4. loc # NoLoc => /\ Place(F, k, x, y) /\ x < s /\ F[x][y].val # Absent
                       /\ \A b, j : Place(F, k, b, j) /\ b < s => Before(b, j, x, y)
    <2> SUFFICES ASSUME loc # NoLoc
                 PROVE  /\ Place(F, k, x, y) /\ x < s /\ F[x][y].val # Absent
                        /\ \A b, j : Place(F, k, b, j) /\ b < s => Before(b, j, x, y)
      OBVIOUS
    <2>1. Ends(U, k, x, y) BY DEF Points, U
    <2> HIDE DEF x, y
    <2>2. Place(U, k, x, y) /\ U[x][y].val # Absent
          /\ \A b, j : Place(U, k, b, j) => Before(b, j, x, y)
      BY <2>1 DEF Ends
    <2>3. Place(F, k, x, y) /\ x < s BY <1>1, <2>2
    <2>4. x \in Id BY <2>3 DEF Place
    <2>5. QED BY <1>1, <2>2, <2>3, <2>4
  <1>5. \A i : Place(G, k, s, i) => loc # NoLoc /\ G[s][i] = F[x][y] OBVIOUS
  <1> HIDE DEF x, y
  <1>6. s \in Nat BY BoundsAssumption DEF Id
  <1>7. CASE v = Absent /\ Erased(F, k)
    <2>1. ASSUME NEW a, NEW i, Place(G, k, a, i), G[a][i].val # Absent
          PROVE  \E b, j : Place(G, k, b, j) /\ G[b][j].val = Absent /\ Before(a, i, b, j)
      <3>1. CASE Place(F, k, a, i)
        <4>1. F[a][i].val # Absent BY <1>2, <2>1, <3>1
        <4>2. PICK b, j : Place(F, k, b, j) /\ F[b][j].val = Absent /\ Before(a, i, b, j)
          BY <1>7, <3>1, <4>1 DEF Erased
        <4>3. QED BY <1>2, <4>2
      <3>2. CASE a = s
        <4>1. loc # NoLoc /\ Place(F, k, x, y) /\ x < s /\ F[x][y].val # Absent
          BY <1>4, <1>5, <2>1, <3>2
        <4>2. PICK b, j : Place(F, k, b, j) /\ F[b][j].val = Absent /\ Before(x, y, b, j)
          BY <1>7, <4>1 DEF Erased
        <4>3. b \in Nat /\ j \in Nat /\ x \in Nat /\ y \in Nat /\ b # s
          BY <1>2, <4>1, <4>2, PlaceIsBounded
        <4>4. ~(b < s)
          <5> SUFFICES ASSUME b < s PROVE FALSE OBVIOUS
          <5>1. Before(b, j, x, y) BY <1>4, <4>1, <4>2
          <5>2. b = x /\ j = y BY <4>2, <4>3, <5>1 DEF Before
          <5>3. QED BY <4>1, <4>2, <5>2
        <4>5. Before(a, i, b, j) BY <1>6, <3>2, <4>3, <4>4 DEF Before
        <4>6. QED BY <1>2, <4>2, <4>5
      <3>3. QED BY <1>3, <2>1, <3>1, <3>2
    <2>2. Erased(G, k) BY <2>1 DEF Erased
    <2>3. QED BY <1>7, <2>2 DEF Reads
  <1>8. CASE \E a, i : Ends(F, k, a, i) /\ F[a][i].val = v
    <2>1. PICK a, i : Ends(F, k, a, i) /\ F[a][i].val = v BY <1>8
    <2>2. /\ Place(F, k, a, i) /\ F[a][i].val # Absent
          /\ \A b, j : Place(F, k, b, j) => Before(b, j, a, i)
      BY <2>1 DEF Ends
    <2>3. a \in Nat /\ i \in Nat /\ a # s /\ Place(G, k, a, i) /\ F[a][i] = G[a][i]
      BY <1>2, <2>2, PlaceIsBounded
    <2>4. CASE \E m : Place(G, k, s, m) /\ a < s
      <3>1. PICK m : Place(G, k, s, m) BY <2>4
      <3>2. loc # NoLoc /\ G[s][m] = F[x][y] /\ Place(F, k, x, y) /\ x < s BY <1>4, <1>5, <3>1
      <3>3. Before(x, y, a, i) /\ Before(a, i, x, y) BY <1>4, <2>2, <2>4, <3>2
      <3>4. x \in Nat /\ y \in Nat /\ m \in Nat BY <3>1, <3>2, PlaceIsBounded
      <3>5. x = a /\ y = i BY <2>3, <3>3, <3>4 DEF Before
      <3>6. G[s][m].val = v /\ G[s][m].val # Absent BY <2>1, <2>2, <3>2, <3>5
      <3>7. \A b, j : Place(G, k, b, j) => Before(b, j, s, m)
        <4> SUFFICES ASSUME NEW b, NEW j, Place(G, k, b, j) PROVE Before(b, j, s, m) OBVIOUS
        <4>1. CASE b = s
          <5>1. j = m BY <3>1, <4>1
          <5>2. QED BY <3>4, <4>1, <5>1 DEF Before
        <4>2. CASE b # s
          <5>1. Before(b, j, a, i) /\ b \in Nat BY <1>3, <2>2, <4>2, PlaceIsBounded
          <5>2. b < s BY <1>6, <2>3, <2>4, <5>1 DEF Before
          <5>3. QED BY <5>2 DEF Before
        <4>3. QED BY <4>1, <4>2
      <3>8. Ends(G, k, s, m) BY <3>1, <3>6, <3>7 DEF Ends
      <3>9. QED BY <3>6, <3>8 DEF Reads
    <2>5. CASE ~\E m : Place(G, k, s, m) /\ a < s
      <3>1. \A b, j : Place(G, k, b, j) => Before(b, j, a, i)
        <4> SUFFICES ASSUME NEW b, NEW j, Place(G, k, b, j) PROVE Before(b, j, a, i) OBVIOUS
        <4>1. CASE b = s
          <5>1. s < a BY <1>6, <2>3, <2>5, <4>1
          <5>2. QED BY <4>1, <5>1 DEF Before
        <4>2. CASE b # s BY <1>3, <2>2, <4>2
        <4>3. QED BY <4>1, <4>2
      <3>2. Ends(G, k, a, i) BY <2>2, <2>3, <3>1 DEF Ends
      <3>3. QED BY <2>1, <2>3, <3>2 DEF Reads
    <2>6. QED BY <2>4, <2>5
  <1>9. QED BY <1>7, <1>8 DEF Reads

(* Once every key still read before s has a copy in s, nothing before s    *)
(* is needed.                                                              *)
LEMMA Drop ==
    ASSUME NEW F \in [Id -> Seq(Record)], NEW s \in Id, NEW k,
           \A a, i : Ends(Under(F, s), k, a, i) => \E j : Place(F, k, s, j),
           NEW v, Reads(F, k, v)
    PROVE  Reads(From(F, s), k, v)
  <1> DEFINE U == Under(F, s)
             G == From(F, s)
  <1>1. /\ \A a, i : Place(U, k, a, i) <=> Place(F, k, a, i) /\ a < s
        /\ \A a, i : Place(G, k, a, i) <=> Place(F, k, a, i) /\ ~(a < s)
        /\ \A a \in Id : a < s => U[a] = F[a]
        /\ \A a \in Id : ~(a < s) => G[a] = F[a]
    BY UnderIs
  <1>2. \A a, i : Ends(U, k, a, i) => \E j : Place(F, k, s, j) OBVIOUS
  <1>3. s \in Nat /\ \A a, i : Place(F, k, a, i) => a \in Id /\ a \in Nat /\ i \in Nat
    BY PlaceIsBounded, BoundsAssumption DEF Id
  <1> SUFFICES Reads(G, k, v) OBVIOUS
  <1> HIDE DEF U, G
  <1>4. CASE v = Absent /\ Erased(F, k)
    <2>1. ASSUME NEW a, NEW i, Place(G, k, a, i), G[a][i].val # Absent
          PROVE  \E b, j : Place(G, k, b, j) /\ G[b][j].val = Absent /\ Before(a, i, b, j)
      <3>1. Place(F, k, a, i) /\ ~(a < s) /\ F[a][i].val # Absent BY <1>1, <1>3, <2>1
      <3>2. PICK b, j : Place(F, k, b, j) /\ F[b][j].val = Absent /\ Before(a, i, b, j)
        BY <1>4, <3>1 DEF Erased
      <3>3. b \in Id /\ ~(b < s) BY <1>3, <3>1, <3>2 DEF Before
      <3>4. QED BY <1>1, <3>2, <3>3
    <2>2. Erased(G, k) BY <2>1 DEF Erased
    <2>3. QED BY <1>4, <2>2 DEF Reads
  <1>5. CASE \E a, i : Ends(F, k, a, i) /\ F[a][i].val = v
    <2>1. PICK a, i : Ends(F, k, a, i) /\ F[a][i].val = v BY <1>5
    <2>2. /\ Place(F, k, a, i) /\ F[a][i].val # Absent
          /\ \A b, j : Place(F, k, b, j) => Before(b, j, a, i)
      BY <2>1 DEF Ends
    <2>3. a \in Id /\ a \in Nat BY <1>3, <2>2
    <2>4. ~(a < s)
      <3> SUFFICES ASSUME a < s PROVE FALSE OBVIOUS
      <3>1. Ends(U, k, a, i) BY <1>1, <2>2, <2>3 DEF Ends
      <3>2. PICK j : Place(F, k, s, j) BY <1>2, <3>1
      <3>3. QED BY <1>3, <2>2, <2>3, <3>2 DEF Before
    <2>5. Ends(G, k, a, i) /\ G[a][i].val = v BY <1>1, <2>1, <2>2, <2>3, <2>4 DEF Ends
    <2>6. QED BY <2>5 DEF Reads
  <1>6. QED BY <1>4, <1>5 DEF Reads

(* What is still before s changes nothing while no record of it that has   *)
(* no copy in s is left without the tombstone that erased it.              *)
LEMMA Shadow ==
    ASSUME NEW F \in [Id -> Seq(Record)], NEW s \in Id, NEW k,
           \A a, i : Place(F, k, a, i) /\ a < s /\ F[a][i].val # Absent =>
               \/ \E b, j : Place(F, k, b, j) /\ F[b][j].val = Absent /\ Before(a, i, b, j)
               \/ \E j : Place(F, k, s, j),
           NEW v, Reads(From(F, s), k, v)
    PROVE  Reads(F, k, v)
  <1> DEFINE G == From(F, s)
  <1>1. /\ \A a, i : Place(G, k, a, i) <=> Place(F, k, a, i) /\ ~(a < s)
        /\ \A a \in Id : ~(a < s) => G[a] = F[a]
    BY UnderIs
  <1>2. s \in Nat /\ \A a, i : Place(F, k, a, i) => a \in Id /\ a \in Nat /\ i \in Nat
    BY PlaceIsBounded, BoundsAssumption DEF Id
  <1>3. Reads(G, k, v) OBVIOUS
  <1> HIDE DEF G
  <1>4. CASE v = Absent /\ Erased(G, k)
    <2>1. ASSUME NEW a, NEW i, Place(F, k, a, i), ~(a < s), F[a][i].val # Absent
          PROVE  \E b, j : Place(F, k, b, j) /\ F[b][j].val = Absent /\ Before(a, i, b, j)
      <3>1. Place(G, k, a, i) /\ G[a][i].val # Absent BY <1>1, <1>2, <2>1
      <3>2. PICK b, j : Place(G, k, b, j) /\ G[b][j].val = Absent /\ Before(a, i, b, j)
        BY <1>4, <3>1 DEF Erased
      <3>3. QED BY <1>1, <1>2, <3>2
    <2>2. ASSUME NEW a, NEW i, Place(F, k, a, i), F[a][i].val # Absent
          PROVE  \E b, j : Place(F, k, b, j) /\ F[b][j].val = Absent /\ Before(a, i, b, j)
      <3>1. CASE ~(a < s) BY <2>1, <2>2, <3>1
      <3>2. CASE a < s /\ \E j : Place(F, k, s, j)
        <4>1. PICK m : Place(F, k, s, m) BY <3>2
        <4>2. ~(s < s) /\ a \in Nat /\ s \in Nat /\ m \in Nat /\ i \in Nat BY <1>2, <2>2, <4>1
        <4>3. Before(a, i, s, m) BY <3>2 DEF Before
        <4>4. CASE F[s][m].val = Absent BY <4>1, <4>3, <4>4
        <4>5. CASE F[s][m].val # Absent
          <5>1. PICK b, j : Place(F, k, b, j) /\ F[b][j].val = Absent /\ Before(s, m, b, j)
            BY <2>1, <4>1, <4>2, <4>5
          <5>2. b \in Nat /\ j \in Nat BY <1>2, <5>1
          <5>3. Before(a, i, b, j) BY <3>2, <4>2, <5>1, <5>2 DEF Before
          <5>4. QED BY <5>1, <5>3
        <4>6. QED BY <4>4, <4>5
      <3>3. CASE \E b, j : Place(F, k, b, j) /\ F[b][j].val = Absent /\ Before(a, i, b, j) BY <3>3
      <3>4. QED BY <2>2, <3>1, <3>2, <3>3
    <2>3. Erased(F, k) BY <2>2 DEF Erased
    <2>4. QED BY <1>4, <2>3 DEF Reads
  <1>5. CASE \E a, i : Ends(G, k, a, i) /\ G[a][i].val = v
    <2>1. PICK a, i : Ends(G, k, a, i) /\ G[a][i].val = v BY <1>5
    <2>2. /\ Place(F, k, a, i) /\ ~(a < s) /\ G[a][i].val # Absent
          /\ \A b, j : Place(G, k, b, j) => Before(b, j, a, i)
      BY <1>1, <2>1 DEF Ends
    <2>3. a \in Id /\ a \in Nat /\ G[a] = F[a] BY <1>1, <1>2, <2>2
    <2>4. ASSUME NEW b, NEW j, Place(F, k, b, j) PROVE Before(b, j, a, i)
      <3>1. CASE b < s BY <1>2, <2>2, <2>3, <2>4, <3>1 DEF Before
      <3>2. CASE ~(b < s) BY <1>1, <2>2, <2>4, <3>2
      <3>3. QED BY <3>1, <3>2
    <2>5. Ends(F, k, a, i) /\ F[a][i].val = v BY <2>1, <2>2, <2>3, <2>4 DEF Ends
    <2>6. QED BY <2>5 DEF Reads
  <1>6. QED BY <1>3, <1>4, <1>5 DEF Reads

LEMMA CutAndSplit ==
    ASSUME NEW F, NEW a \in Id, NEW s \in Id, ~(a < s), NEW n
    PROVE  /\ Under(Cut(F, a, n), s) = Under(F, s)
           /\ From(Cut(F, a, n), s) = Cut(From(F, s), a, n)
  <1>1. \A id \in Id : Under(Cut(F, a, n), s)[id] = Under(F, s)[id] BY DEF Under, Cut
  <1>2. \A id \in Id : From(Cut(F, a, n), s)[id] = Cut(From(F, s), a, n)[id] BY DEF From, Cut
  <1>3. QED BY <1>1, <1>2 DEF Under, From, Cut

-----------------------------------------------------------------------------
(* What a history promises of the newest file.                             *)

LEMMA BacksFacts ==
    ASSUME NEW F \in [Id -> Seq(Record)], NEW a \in Id, NEW lo \in Nat, NEW hi \in Nat,
           hi <= Len(F[a]), NEW h \in Seq(Contents), NEW f, Backs(f, h, F, a, lo, hi),
           NEW n \in lo..hi
    PROVE  /\ f[n] \in 1..Len(h) /\ f[n] \in Nat /\ Len(h) \in Nat /\ h[f[n]] \in Contents
           /\ n \in Nat /\ n \in 0..Len(F[a]) /\ Holds(Cut(F, a, n), h[f[n]])
  <1>1. Len(h) \in Nat /\ Len(F[a]) \in Nat BY LenProperties
  <1>2. f[n] \in 1..Len(h) /\ Holds(Cut(F, a, n), h[f[n]]) BY DEF Backs
  <1>3. h[f[n]] \in Contents BY <1>2, ElementOfSeq
  <1>4. n \in Nat /\ n \in 0..Len(F[a]) /\ f[n] \in Nat BY <1>1, <1>2
  <1>5. QED BY <1>1, <1>2, <1>3, <1>4

(* The last contents, if the disk cannot lose them.                        *)
LEMMA PromisesAfresh ==
    ASSUME NEW F \in [Id -> Seq(Record)], NEW a \in Id, NEW lo \in Nat, NEW hi \in Nat,
           lo <= hi, NEW h \in Seq(Contents), h # <<>>, NEW kn \in 1..Len(h), NEW wr,
           \A n \in lo..hi : Holds(Cut(F, a, n), Last(h))
    PROVE  Promises(h, kn, F, a, lo, wr, hi)
  <1> DEFINE f == [n \in lo..hi |-> Len(h)]
  <1>1. Len(h) \in Nat /\ Len(h) \in 1..Len(h) /\ Last(h) = h[Len(h)] /\ kn <= Len(h)
    <2>1. Len(h) \in Nat BY LenProperties
    <2>2. QED BY <2>1 DEF Last
  <1>2. Backs(f, h, F, a, lo, hi) BY <1>1 DEF Backs
  <1>3. hi \in lo..hi OBVIOUS
  <1>4. f[hi] = Len(h) /\ \A n \in lo..hi : kn <= f[n] BY <1>1, <1>3
  <1> HIDE DEF f
  <1>5. QED BY <1>2, <1>4 DEF Promises

(* All of the file holds the last contents.                                *)
LEMMA PromisesLast ==
    ASSUME NEW F \in [Id -> Seq(Record)], NEW a \in Id, NEW lo \in Nat, NEW hi \in Nat,
           lo <= hi, hi = Len(F[a]), NEW h \in Seq(Contents), NEW kn, NEW wr,
           Promises(h, kn, F, a, lo, wr, hi)
    PROVE  Holds(F, Last(h))
  <1>1. PICK f : Backs(f, h, F, a, lo, hi) /\ f[hi] = Len(h) BY DEF Promises
  <1>2. hi \in lo..hi /\ hi \in 0..Len(F[a]) OBVIOUS
  <1>3. Holds(Cut(F, a, hi), h[Len(h)]) BY <1>1, <1>2 DEF Backs
  <1>4. Cut(F, a, hi) = F BY <1>2, CutIs
  <1>5. QED BY <1>3, <1>4 DEF Last

(* More is on the disk, or in the kernel, than before; and the files hold  *)
(* what others held.                                                       *)
LEMMA PromisesKept ==
    ASSUME NEW F, NEW G, NEW a, NEW lo \in Nat, NEW hi \in Nat, NEW h \in Seq(Contents),
           NEW kn, NEW wr \in Nat, Promises(h, kn, F, a, lo, wr, hi),
           NEW lo2 \in lo..hi, NEW wr2 \in Nat, wr <= wr2,
           \A n \in lo2..hi : \A c \in Contents : Holds(Cut(F, a, n), c) => Holds(Cut(G, a, n), c)
    PROVE  Promises(h, kn, G, a, lo2, wr2, hi)
  <1>1. PICK f : /\ Backs(f, h, F, a, lo, hi) /\ f[hi] = Len(h)
                 /\ \A n \in lo..hi : wr <= n => kn <= f[n]
    BY DEF Promises
  <1> DEFINE g == [n \in lo2..hi |-> f[n]]
  <1>2. \A n \in lo2..hi : n \in lo..hi /\ n \in Nat OBVIOUS
  <1>3. hi \in lo2..hi OBVIOUS
  <1>4. \A n \in lo2..hi : g[n] = f[n] /\ f[n] \in 1..Len(h) /\ Holds(Cut(F, a, n), h[f[n]])
    BY <1>1, <1>2 DEF Backs
  <1>5. g \in [lo2..hi -> 1..Len(h)] BY <1>4
  <1> HIDE DEF g
  <1>6. \A m, n \in lo2..hi : m <= n => g[m] <= g[n] BY <1>1, <1>2, <1>4 DEF Backs
  <1>7. \A n \in lo2..hi : Holds(Cut(G, a, n), h[g[n]])
    <2> TAKE n \in lo2..hi
    <2>1. h[f[n]] \in Contents BY <1>4, ElementOfSeq
    <2>2. QED BY <1>4, <2>1
  <1>8. Backs(g, h, G, a, lo2, hi) BY <1>5, <1>6, <1>7 DEF Backs
  <1>9. \A n \in lo2..hi : wr2 <= n => kn <= g[n]
    <2> TAKE n \in lo2..hi
    <2>1. wr2 <= n => wr <= n BY <1>2
    <2>2. QED BY <1>1, <1>2, <1>4, <2>1
  <1>10. g[hi] = Len(h) BY <1>1, <1>3, <1>4
  <1>11. QED BY <1>8, <1>9, <1>10 DEF Promises

(* A record more, and the contents it makes.                               *)
LEMMA PromisesMore ==
    ASSUME NEW F \in [Id -> Seq(Record)], NEW a \in Id, NEW rec \in Record,
           \A id \in Id : id > a => F[id] = <<>>,
           NEW G \in [Id -> Seq(Record)], G[a] = Append(F[a], rec),
           \A id \in Id \ {a} : G[id] = F[id],
           NEW lo \in Nat, NEW hi \in Nat, lo <= hi, hi = Len(F[a]),
           NEW h \in Seq(Contents), h # <<>>, NEW kn \in 1..Len(h), NEW wr \in Nat,
           Promises(h, kn, F, a, lo, wr, hi),
           NEW wr2 \in Nat, wr <= wr2, NEW kn2,
           kn2 = kn \/ (kn2 = Len(h) + 1 /\ wr2 = hi + 1),
           NEW h2, h2 = Append(h, [Last(h) EXCEPT ![rec.key] = rec.val])
    PROVE  Promises(h2, kn2, G, a, lo, wr2, hi + 1)
  <1>1. PICK f : /\ Backs(f, h, F, a, lo, hi) /\ f[hi] = Len(h)
                 /\ \A n \in lo..hi : wr <= n => kn <= f[n]
    BY DEF Promises
  <1> DEFINE c == [Last(h) EXCEPT ![rec.key] = rec.val]
             N == Len(h)
             g == [n \in lo..(hi + 1) |-> IF n = hi + 1 THEN N + 1 ELSE f[n]]
  <1>2. N \in Nat /\ N >= 1 /\ Last(h) = h[N] /\ h[N] \in Contents
    <2>1. N \in Nat BY LenProperties
    <2>2. N \in 1..N /\ N >= 1 BY <2>1
    <2>3. QED BY <2>1, <2>2, ElementOfSeq DEF Last
  <1>3. rec.key \in Keys /\ rec.val \in Values \cup {Absent} BY DEF Record
  <1>4. c \in Contents BY <1>2, <1>3 DEF Contents
  <1>5. Holds(F, Last(h)) BY PromisesLast
  <1>6. Holds(G, c)
    <2>1. \A d \in Contents : Holds(F, d) => Holds(G, [d EXCEPT ![rec.key] = rec.val])
      BY AppendHolds
    <2>2. QED BY <1>2, <1>5, <2>1
  <1> HIDE DEF c
  <1>7. /\ h2 \in Seq(Contents) /\ Len(h2) = N + 1 /\ h2[N + 1] = c
        /\ \A i \in 1..N : h2[i] = h[i]
    BY <1>4, AppendProperties DEF c
  <1>8. Len(G[a]) = hi + 1 /\ \A i \in 1..hi : G[a][i] = F[a][i] BY AppendProperties
  <1>9. ASSUME NEW n \in lo..hi PROVE Cut(G, a, n) = Cut(F, a, n)
    <2>1. n \in 0..Len(F[a]) /\ n \in 0..Len(G[a]) /\ \A i \in 1..n : i \in 1..hi BY <1>8
    <2>2. \A i \in 1..n : G[a][i] = F[a][i] BY <1>8, <2>1
    <2>3. QED BY <2>1, <2>2, SameCut
  <1>10. Cut(G, a, hi + 1) = G
    <2>1. hi + 1 \in 0..Len(G[a]) BY <1>8
    <2>2. QED BY <1>8, <2>1, CutIs
  <1>11. \A n \in lo..(hi + 1) : n \in Nat /\ (n = hi + 1 \/ n \in lo..hi) OBVIOUS
  <1>12. \A n \in lo..hi : /\ g[n] = f[n] /\ n # hi + 1 /\ f[n] \in 1..N
                           /\ n \in lo..(hi + 1) /\ Holds(Cut(F, a, n), h[f[n]])
    <2> TAKE n \in lo..hi
    <2>1. f[n] \in 1..N /\ Holds(Cut(F, a, n), h[f[n]]) BY <1>1 DEF Backs
    <2>2. n # hi + 1 /\ n \in lo..(hi + 1) OBVIOUS
    <2>3. g[n] = f[n] BY <2>2
    <2> HIDE DEF g
    <2>4. QED BY <2>1, <2>2, <2>3
  <1>13. g[hi + 1] = N + 1 /\ hi + 1 \in lo..(hi + 1) OBVIOUS
  <1>14. g \in [lo..(hi + 1) -> 1..(N + 1)]
    <2>1. \A n \in lo..(hi + 1) : g[n] \in 1..(N + 1)
      <3> TAKE n \in lo..(hi + 1)
      <3> HIDE DEF g
      <3>1. CASE n = hi + 1 BY <1>2, <1>13, <3>1
      <3>2. CASE n \in lo..hi
        <4>1. g[n] \in 1..N BY <1>12, <3>2
        <4>2. QED BY <1>2, <4>1
      <3>3. QED BY <1>11, <3>1, <3>2
    <2>2. g = [n \in lo..(hi + 1) |-> g[n]] OBVIOUS
    <2> HIDE DEF g
    <2>3. QED BY <2>1, <2>2
  <1> HIDE DEF g
  <1>15. \A m, n \in lo..(hi + 1) : m <= n => g[m] <= g[n]
    <2> SUFFICES ASSUME NEW m \in lo..(hi + 1), NEW n \in lo..(hi + 1), m <= n PROVE g[m] <= g[n]
      OBVIOUS
    <2>1. CASE n = hi + 1 BY <1>2, <1>13, <1>14, <2>1, SMTT(40)
    <2>2. CASE n # hi + 1
      <3>1. n \in lo..hi /\ m \in lo..hi BY <1>11, <2>2
      <3>2. f[m] <= f[n] BY <1>1, <3>1 DEF Backs
      <3>3. QED BY <1>12, <3>1, <3>2
    <2>3. QED BY <2>1, <2>2
  <1>16. \A n \in lo..(hi + 1) : Holds(Cut(G, a, n), h2[g[n]])
    <2> TAKE n \in lo..(hi + 1)
    <2>1. CASE n = hi + 1 BY <1>6, <1>7, <1>10, <1>13, <2>1
    <2>2. CASE n \in lo..hi
      <3>1. g[n] = f[n] /\ f[n] \in 1..N /\ Holds(Cut(F, a, n), h[f[n]]) BY <1>12, <2>2
      <3>2. Cut(G, a, n) = Cut(F, a, n) BY <1>9, <2>2
      <3>3. h2[g[n]] = h[f[n]] BY <1>7, <3>1
      <3>4. QED BY <3>1, <3>2, <3>3
    <2>3. QED BY <1>11, <2>1, <2>2
  <1>17. Backs(g, h2, G, a, lo, hi + 1) BY <1>7, <1>14, <1>15, <1>16 DEF Backs
  <1>18. \A n \in lo..(hi + 1) : wr2 <= n => kn2 <= g[n]
    <2> SUFFICES ASSUME NEW n \in lo..(hi + 1), wr2 <= n PROVE kn2 <= g[n] OBVIOUS
    <2>1. kn \in Nat /\ kn <= N /\ kn2 <= N + 1 BY <1>2
    <2>2. CASE n = hi + 1 BY <1>2, <1>13, <2>1, <2>2
    <2>3. CASE n \in lo..hi
      <3>1. n # hi + 1 /\ wr <= n /\ n \in Nat /\ ~(wr2 = hi + 1) BY <1>11, <2>3
      <3>2. QED BY <1>1, <1>12, <2>3, <3>1
    <2>4. QED BY <1>11, <2>2, <2>3
  <1>19. QED BY <1>7, <1>13, <1>17, <1>18 DEF Promises

-----------------------------------------------------------------------------
(* The files of an open store.                                             *)

FilesOK ==
    /\ data \in [Id -> Seq(Record)] /\ Kernel \in [Id -> Seq(Record)]
    /\ \A id \in Id : Kernel[id] = Held(id)
    /\ history \in Seq(Contents) /\ history # <<>> /\ Len(history) \in Nat
    /\ kern \in 1..Len(history) /\ Last(history) \in Contents
    /\ \A id \in Id : durable[id] \in Nat /\ Len(data[id]) \in Nat /\ id \in Nat
    /\ Indexed \in [Id -> Seq(Record)] /\ Standing \in [Id -> Seq(Record)]
    /\ Old \in [Id -> Seq(Record)]

LEMMA FilesAre == ASSUME TypeOK PROVE FilesOK
  <1>1. data \in [Id -> Seq(Record)] BY DEF TypeOK
  <1>2. \A id \in Id : Held(id) \in Seq(Record) BY HeldType
  <1>3. Kernel \in [Id -> Seq(Record)] /\ \A id \in Id : Kernel[id] = Held(id) BY <1>2 DEF Kernel
  <1>4. /\ history \in Seq(Contents) /\ history # <<>> /\ Len(history) \in Nat
        /\ kern \in 1..Len(history)
    BY LenProperties DEF TypeOK
  <1>5. Last(history) \in Contents
    <2>1. Len(history) \in 1..Len(history) BY <1>4
    <2>2. QED BY <1>4, <2>1, ElementOfSeq DEF Last
  <1>6. \A id \in Id : durable[id] \in Nat /\ Len(data[id]) \in Nat /\ id \in Nat
    <2> TAKE id \in Id
    <2>1. durable[id] \in Nat /\ data[id] \in Seq(Record) BY DEF TypeOK
    <2>2. id \in Nat BY BoundsAssumption DEF Id
    <2>3. QED BY <2>1, <2>2, LenProperties
  <1>7. <<>> \in Seq(Record) BY EmptySeq
  <1>8. Standing \in [Id -> Seq(Record)] BY <1>3, <1>7 DEF Standing, From
  <1>9. Indexed \in [Id -> Seq(Record)] BY <1>7, <1>8 DEF Indexed
  <1>10. Old \in [Id -> Seq(Record)] BY <1>1, <1>7 DEF Old, Under
  <1>11. QED BY <1>1, <1>3, <1>4, <1>5, <1>6, <1>8, <1>9, <1>10 DEF FilesOK

ActiveOK ==
    /\ w.id \in Id /\ w.id \in dir /\ w.id \in readers /\ dir \subseteq 1..w.id
    /\ w.offset \in Nat /\ w.written \in Nat /\ durable[w.id] \in Nat
    /\ w.offset = Len(Kernel[w.id]) /\ w.written = Len(data[w.id])
    /\ durable[w.id] <= w.written /\ w.written <= w.offset /\ durable[w.id] <= w.offset
    /\ \A id \in Id : id > w.id => Kernel[id] = <<>> /\ data[id] = <<>>
    /\ \A id \in Id \ {w.id} : Kernel[id] = data[id]
    /\ Grows(data[w.id], Kernel[w.id])
    /\ Kernel[w.id] = data[w.id] \o w.pending
    /\ merge.kind # "none" => merge.id \in Id /\ merge.id < w.id
    /\ Standing[w.id] = Kernel[w.id]

LEMMA ActiveFile == ASSUME Inv, up, merge.kind # "compact" PROVE ActiveOK
  <1>1. /\ TypeOK /\ FilesInv /\ ActiveInv /\ readers \subseteq dir /\ MergeInv
        /\ dir \subseteq 1..w.id /\ w.id \in Id
    BY OpenFacts DEF Inv
  <1>2. WriterOK(Active) /\ w.id \in readers BY <1>1 DEF ActiveInv
  <1>3. /\ Held(w.id) = data[w.id] \o w.pending
        /\ Len(Held(w.id)) = w.offset /\ Len(data[w.id]) = w.written
        /\ w.offset \in Nat /\ w.written \in Nat
        /\ Grows(data[w.id], Held(w.id)) /\ Active.durable = durable[w.id]
        /\ Active.written = w.written /\ Active.offset = w.offset
    BY <1>1, <1>2, ActiveFacts DEF Held
  <1>4. durable[w.id] <= w.written /\ durable[w.id] \in Nat
    BY <1>1, <1>2, <1>3, FilesAre DEF WriterOK, FilesOK
  <1>5. w.written <= w.offset BY <1>3 DEF Grows
  <1>6. \A id \in Id : Kernel[id] = Held(id) BY <1>1, FilesAre DEF FilesOK
  <1>7. \A id \in Id \ {w.id} : Kernel[id] = data[id] BY <1>6 DEF Held
  <1>8. \A id \in Id : id > w.id => Kernel[id] = <<>> /\ data[id] = <<>>
    <2> SUFFICES ASSUME NEW id \in Id, id > w.id PROVE Kernel[id] = <<>> /\ data[id] = <<>> OBVIOUS
    <2>1. id \in Nat /\ w.id \in Nat BY <1>1, BoundsAssumption DEF Id
    <2>2. id \notin 1..w.id /\ id # w.id BY <2>1
    <2>3. id \notin dir BY <1>1, <2>2
    <2>4. QED BY <1>1, <1>7, <2>2, <2>3 DEF FilesInv
  <1>9. merge.kind # "none" => merge.id \in Id /\ merge.id < w.id BY <1>1 DEF MergeInv
  <1>10. Standing[w.id] = Kernel[w.id]
    <2>1. CASE merge.stage # "unlink" BY <2>1 DEF Standing
    <2>2. CASE merge.stage = "unlink"
      <3>1. merge.kind # "none" BY <1>1, <2>2 DEF MergeInv, NoMerge
      <3>2. ~(w.id < merge.id) BY <1>1, <1>9, <3>1, BoundsAssumption DEF Id
      <3>3. QED BY <1>1, <2>2, <3>2 DEF Standing, From
    <2>3. QED BY <2>1, <2>2
  <1>11. durable[w.id] <= w.offset BY <1>3, <1>4, <1>5
  <1>12. QED BY <1>1, <1>2, <1>3, <1>4, <1>5, <1>6, <1>7, <1>8, <1>9, <1>10, <1>11 DEF ActiveOK

(* The same of the next state.                                             *)
LEMMA FilesAreNext == TypeOK' => FilesOK'
  <1>1. TypeOK => FilesOK BY FilesAre
  <1>2. QED BY <1>1, PTL

LEMMA ActiveFileNext == Inv' /\ up' /\ (merge.kind # "compact")' => ActiveOK'
  <1>1. Inv /\ up /\ merge.kind # "compact" => ActiveOK BY ActiveFile
  <1>2. QED BY <1>1, PTL

(* A step that leaves the merge, its slot and what is before it alone.     *)
LEMMA MergeUntouched ==
    ASSUME TypeOK, dir' \subseteq Id, ViewInv, DeadInv, OutInv, SlotInv, merge' = merge,
           merge.kind # "none" =>
              /\ merge.id \in Id
              /\ \A id \in Id : id <= merge.id => data'[id] = data[id]
              /\ \A id \in dir' : id <= merge.id => id \in dir
    PROVE  ViewInv' /\ DeadInv' /\ OutInv' /\ SlotInv' /\ (merge.kind # "none" => Old' = Old)
  <1>1. CASE merge.kind = "none" BY <1>1 DEF ViewInv, DeadInv, OutInv, SlotInv, Merging
  <1>2. CASE merge.kind # "none"
    <2>1. merge.id \in Id /\ merge.id \in Nat /\ Id \subseteq Nat BY <1>2, BoundsAssumption DEF Id
    <2>2. data'[merge.id] = data[merge.id] BY <1>2, <2>1
    <2>3. Out' = Out BY <2>2 DEF Out
    <2>4. Old' = Old
      <3>1. \A id \in Id : id < merge.id => data'[id] = data[id] BY <1>2, <2>1
      <3>2. Old' = Under(data', merge.id) BY DEF Old
      <3>3. QED BY <3>1, <3>2 DEF Old, Under
    <2>5. ViewInv' BY <2>4 DEF ViewInv, Merging
    <2>6. \A k, j : Place(data, k, merge.id, j) <=> Place(data', k, merge.id, j) BY <2>2 DEF Place
    <2>7. DeadInv'
      <3>1. CASE ~(Merging /\ merge.stage = "unlink") BY <3>1 DEF DeadInv, Merging
      <3>2. CASE Merging /\ merge.stage = "unlink"
        <4> SUFFICES ASSUME NEW k \in Keys, NEW a, NEW i,
                            Place(Old', k, a, i), Old'[a][i].val # Absent
                     PROVE  \/ \E b, j : /\ Place(Old', k, b, j) /\ Old'[b][j].val = Absent
                                         /\ Before(a, i, b, j)
                            \/ \E j : Place(data', k, merge.id, j)
                            \/ \E g \in merge.gone : g > a
          BY DEF DeadInv
        <4>1. \/ \E b, j : Place(Old, k, b, j) /\ Old[b][j].val = Absent /\ Before(a, i, b, j)
              \/ \E j : Place(data, k, merge.id, j)
              \/ \E g \in merge.gone : g > a
          BY <2>4, <3>2, SMTT(40) DEF DeadInv
        <4>2. QED BY <2>4, <2>6, <4>1
      <3>3. QED BY <3>1, <3>2
    <2>8. OutInv' BY <2>3, <2>4 DEF OutInv, Merging
    <2>9. SlotInv'
      <3>1. \A id \in dir' : id < merge.id => id \in dir
        <4> SUFFICES ASSUME NEW id \in dir', id < merge.id PROVE id \in dir OBVIOUS
        <4>1. id \in Nat BY <2>1
        <4>2. id <= merge.id BY <2>1, <4>1
        <4>3. QED BY <1>2, <4>2
      <3>2. merge.id \in dir' => merge.id \in dir BY <1>2, <2>1
      <3>3. QED BY <2>2, <3>1, <3>2 DEF SlotInv
    <2>10. QED BY <2>4, <2>5, <2>7, <2>8, <2>9
  <1>3. QED BY <1>1, <1>2

-----------------------------------------------------------------------------
(* Writes.                                                                 *)

(* roll_if_needed and append, in the active file a or in the next.         *)
Writes(rec, reach, a) ==
    /\ a = w'.id /\ a \in Id /\ a >= w.id
    /\ Kernel'[a] = Append(Kernel[a], rec)
    /\ \A id \in Id \ {a} : Kernel'[id] = Kernel[id]
    /\ \A id \in Id \ {a, w.id} : data'[id] = data[id]
    /\ dir' = dir \cup {a}
    /\ w'.offset = Len(Kernel[a]) + 1
    /\ durable'[a] \in Nat /\ w'.written \in Nat
    /\ reach = "Disk" => durable'[a] = w'.offset
    /\ reach = "Kernel" => w'.written = w'.offset
    /\ IF a = w.id THEN durable[a] <= durable'[a] /\ w.written <= w'.written
       ELSE Kernel[a] = <<>>

LEMMA WriteIs ==
    ASSUME Inv, Inv', up, up', merge' = merge, merge.kind # "compact",
           NEW rec \in Record, NEW reach \in Reach, AppendToLog(rec, reach)
    PROVE  Writes(rec, reach, w'.id)
  <1>1. FilesOK /\ FilesOK' /\ ActiveOK /\ ActiveOK'
    BY FilesAre, FilesAreNext, ActiveFile, ActiveFileNext DEF Inv
  <1>2. /\ TypeOK /\ FilesInv /\ ActiveInv /\ readers \subseteq dir /\ dir \subseteq 1..w.id
    BY OpenFacts DEF Inv
  <1>3. Appends(rec) BY <1>2, AppendStep
  <1>4. /\ w'.id \in Id /\ w'.id >= w.id
        /\ \A id \in Id \ {w.id, w'.id} : data'[id] = data[id]
        /\ Grows(data[w.id], data'[w.id]) /\ dir' = dir \cup {w'.id}
    BY <1>1, <1>3 DEF Appends, Advances, ActiveOK
  <1>5. /\ Active.file = data[w.id] /\ Active.durable = durable[w.id]
        /\ Active.offset = w.offset /\ Appended(Active) = Kernel[w.id]
        /\ WriterOK(Active)
    BY <1>1, <1>2, ActiveFacts DEF ActiveInv, FilesOK
  <1>6. CASE ~MustRoll
    <2> DEFINE lw == AppendRecord(Active, rec, reach)
    <2>1. /\ w' = Attach(w.id, lw) /\ data' = [data EXCEPT ![w.id] = lw.file]
          /\ durable' = [durable EXCEPT ![w.id] = lw.durable]
      BY <1>6 DEF AppendToLog
    <2>2. /\ WriterOK(lw) /\ Appended(lw) = Append(Kernel[w.id], rec)
          /\ reach # "Buffer" => lw.pending = <<>>
          /\ reach = "Disk" => lw.durable = lw.offset
          /\ durable[w.id] <= lw.durable /\ Len(data[w.id]) <= Len(lw.file)
      BY <1>5, AppendAddsTheRecord, AppendGrows
    <2> HIDE DEF lw
    <2>3. /\ w'.id = w.id /\ w'.offset = lw.offset /\ w'.written = lw.written
          /\ w'.pending = lw.pending
      BY <2>1 DEF Attach
    <2>4. data'[w.id] = lw.file /\ durable'[w.id] = lw.durable
      <3>1. data \in [Id -> Seq(Record)] /\ durable \in [Id -> Nat] /\ w.id \in Id
        BY <1>2 DEF TypeOK
      <3>2. QED BY <2>1, <3>1, Zenon
    <2>5. Kernel'[w.id] = data'[w.id] \o w'.pending BY <1>1, <2>3 DEF ActiveOK
    <2>6. Kernel'[w.id] = Append(Kernel[w.id], rec) BY <2>2, <2>3, <2>4, <2>5 DEF Appended
    <2>7. \A id \in Id \ {w.id} : Kernel'[id] = Kernel[id]
      <3> TAKE id \in Id \ {w.id}
      <3>1. Kernel[id] = data[id] /\ Kernel'[id] = data'[id] BY <1>1, <2>3 DEF ActiveOK
      <3>2. QED BY <1>4, <2>3, <3>1
    <2>8. w'.offset = Len(Kernel[w.id]) + 1
      <3>1. w'.offset = Len(Kernel'[w.id]) /\ Kernel[w.id] \in Seq(Record)
        BY <1>1, <2>3 DEF ActiveOK, FilesOK
      <3>2. QED BY <2>6, <3>1, AppendProperties
    <2>9. w'.written = Len(data'[w.id]) /\ w.written = Len(data[w.id]) BY <1>1, <2>3 DEF ActiveOK
    <2>10. reach = "Kernel" => w'.written = w'.offset
      <3> SUFFICES ASSUME reach = "Kernel" PROVE w'.written = w'.offset OBVIOUS
      <3>1. lw.pending = <<>> /\ Len(<<>>) = 0 BY <2>2
      <3>2. lw.offset = lw.written + 0 /\ lw.written \in Nat BY <2>2, <3>1 DEF WriterOK, Writer
      <3>3. QED BY <2>3, <3>2
    <2>11. durable'[w.id] \in Nat /\ w'.written \in Nat BY <1>1, <2>3 DEF ActiveOK
    <2>12. QED BY <1>1, <1>4, <2>2, <2>3, <2>4, <2>6, <2>7, <2>8, <2>9, <2>10, <2>11 DEF Writes
  <1>7. CASE MustRoll
    <2> DEFINE n == w.id + 1
               new == OpenWriter(<<>>, 0)
               lw == AppendRecord(new, rec, reach)
    <2>1. /\ n <= MaxId /\ w' = Attach(n, lw)
          /\ data' = [data EXCEPT ![w.id] = Sealed.file, ![n] = lw.file]
          /\ durable' = [durable EXCEPT ![w.id] = Sealed.durable, ![n] = lw.durable]
      BY <1>7 DEF AppendToLog
    <2>2. n \in Id /\ n > w.id /\ n # w.id
      <3>1. w.id \in Id BY <1>1 DEF ActiveOK
      <3>2. QED BY <2>1, <3>1, BoundsAssumption DEF Id
    <2>3. WriterOK(new) /\ Appended(new) = <<>> BY EmptyWriter
    <2> HIDE DEF new
    <2>4. /\ WriterOK(lw) /\ Appended(lw) = Append(<<>>, rec)
          /\ reach # "Buffer" => lw.pending = <<>>
          /\ reach = "Disk" => lw.durable = lw.offset
      BY <2>3, AppendAddsTheRecord
    <2> HIDE DEF lw
    <2>5. /\ w'.id = n /\ w'.offset = lw.offset /\ w'.written = lw.written
          /\ w'.pending = lw.pending
      BY <2>1 DEF Attach
    <2>6. /\ data'[n] = lw.file /\ durable'[n] = lw.durable
          /\ data'[w.id] = Sealed.file
      <3>1. data \in [Id -> Seq(Record)] /\ durable \in [Id -> Nat] /\ w.id \in Id
        BY <1>2 DEF TypeOK
      <3> HIDE DEF n
      <3>2. QED BY <2>1, <2>2, <3>1
    <2>7. Sealed.file = Kernel[w.id] BY <1>1, <1>2, SealIs DEF FilesOK, ActiveOK
    <2>8. Kernel[n] = <<>> BY <1>1, <2>2 DEF ActiveOK
    <2>9. Kernel'[n] = Append(Kernel[n], rec)
      <3>1. Kernel'[n] = data'[n] \o w'.pending BY <1>1, <2>5 DEF ActiveOK
      <3>2. QED BY <2>4, <2>5, <2>6, <2>8, <3>1 DEF Appended
    <2>10. \A id \in Id \ {n} : Kernel'[id] = Kernel[id]
      <3> TAKE id \in Id \ {n}
      <3>1. Kernel'[id] = data'[id] BY <1>1, <2>5 DEF ActiveOK
      <3>2. CASE id = w.id BY <2>6, <2>7, <3>1, <3>2
      <3>3. CASE id # w.id
        <4>1. Kernel[id] = data[id] BY <1>1, <3>3 DEF ActiveOK
        <4>2. QED BY <1>4, <2>5, <3>1, <3>3, <4>1
      <3>4. QED BY <3>2, <3>3
    <2>11. w'.offset = Len(Kernel[n]) + 1
      <3>1. w'.offset = Len(Kernel'[n]) /\ Kernel[n] \in Seq(Record)
        BY <1>1, <2>2, <2>5 DEF ActiveOK, FilesOK
      <3>2. QED BY <2>9, <3>1, AppendProperties
    <2>12. reach = "Kernel" => w'.written = w'.offset
      <3> SUFFICES ASSUME reach = "Kernel" PROVE w'.written = w'.offset OBVIOUS
      <3>1. lw.pending = <<>> /\ Len(<<>>) = 0 BY <2>4
      <3>2. lw.offset = lw.written + 0 /\ lw.written \in Nat BY <2>4, <3>1 DEF WriterOK, Writer
      <3>3. QED BY <2>5, <3>2
    <2>13. durable'[n] \in Nat /\ w'.written \in Nat BY <1>1, <2>5 DEF ActiveOK
    <2> HIDE DEF n
    <2>14. QED BY <1>4, <2>2, <2>4, <2>5, <2>6, <2>8, <2>9, <2>10, <2>11, <2>12, <2>13 DEF Writes
  <1>8. QED BY <1>6, <1>7

(* What has been promised, of the file about to be written to.             *)
LEMMA PromisedOfNext ==
    ASSUME Inv, ServingInv, Serving, Standing = Kernel, FilesOK, ActiveOK,
           NEW rec, NEW reach, NEW a, Writes(rec, reach, a)
    PROVE  \E lo \in Nat, wr \in Nat :
              /\ lo <= Len(Kernel[a]) /\ lo <= durable'[a] /\ wr <= w'.written
              /\ Promises(history, kern, Kernel, a, lo, wr, Len(Kernel[a]))
  <1>1. Promises(history, kern, Kernel, w.id, durable[w.id], w.written, w.offset)
    BY DEF ServingInv, Promised
  <1>2. /\ a \in Id /\ durable'[a] \in Nat /\ w'.written \in Nat
        /\ Kernel \in [Id -> Seq(Record)] /\ w.id \in Id
        /\ w.offset = Len(Kernel[w.id]) /\ durable[w.id] <= w.offset
        /\ durable[w.id] \in Nat /\ w.written \in Nat /\ w.offset \in Nat
        /\ history \in Seq(Contents) /\ history # <<>> /\ kern \in 1..Len(history)
    BY DEF FilesOK, ActiveOK, Writes
  <1>3. CASE a = w.id BY <1>1, <1>2, <1>3 DEF Writes
  <1>4. CASE a # w.id
    <2>1. Kernel[a] = <<>> /\ Len(Kernel[a]) = 0 BY <1>4 DEF Writes
    <2>2. Holds(Kernel, Last(history)) BY <1>1, <1>2, PromisesLast
    <2>3. \A n \in 0..0 : Holds(Cut(Kernel, a, n), Last(history))
      <3> TAKE n \in 0..0
      <3>1. n = 0 /\ n \in 0..Len(Kernel[a]) /\ n = Len(Kernel[a]) BY <2>1
      <3>2. Cut(Kernel, a, n) = Kernel BY <1>2, <3>1, CutIs
      <3>3. QED BY <2>2, <3>2
    <2> DEFINE z == 0
    <2>4. z \in Nat /\ z <= z /\ \A n \in z..z : Holds(Cut(Kernel, a, n), Last(history)) BY <2>3
    <2>5. z = Len(Kernel[a]) /\ z <= durable'[a] /\ z <= w'.written /\ z <= z BY <1>2, <2>1
    <2> HIDE DEF z
    <2>6. Promises(history, kern, Kernel, a, z, z, z) BY <1>2, <2>4, PromisesAfresh
    <2>7. QED BY <2>4, <2>5, <2>6
  <1>5. QED BY <1>3, <1>4

LEMMA WriteKeepsRec ==
    ASSUME Inv, Inv', RecInv, Ready, ~Restoring, up' = up, merge' = merge,
           NEW rec \in Record, NEW reach \in Reach, AppendToLog(rec, reach),
           keydir' = [keydir EXCEPT ![rec.key] = IF rec.val = Absent THEN NoLoc ELSE Landed],
           Remember([Last(history) EXCEPT ![rec.key] = rec.val], reach)
    PROVE  RecInv'
  <1> DEFINE a == w'.id
             k0 == rec.key
             c == [Last(history) EXCEPT ![k0] = rec.val]
  <1>1. /\ up /\ up' /\ merge.kind \notin {"compact", "restore"} /\ merge.stage # "unlink"
        /\ merge'.kind # "compact" /\ merge' = merge
    <2>1. up /\ merge.kind # "compact" /\ merge.stage # "unlink" BY DEF Ready, Exclusive
    <2>2. merge.kind # "restore" BY <2>1 DEF Restoring, Inv, MergeInv
    <2>3. QED BY <2>1, <2>2
  <1>2. FilesOK /\ FilesOK' /\ ActiveOK /\ ActiveOK'
    BY <1>1, FilesAre, FilesAreNext, ActiveFile, ActiveFileNext DEF Inv
  <1>3. Writes(rec, reach, a) BY <1>1, WriteIs
  <1>4. /\ history' = (IF reach = "Disk" THEN <<c>> ELSE Append(history, c))
        /\ kern' = (IF reach = "Buffer" THEN kern ELSE Len(history'))
    BY DEF Remember
  <1> HIDE DEF c
  <1>5. Serving /\ Serving' /\ Standing = Kernel /\ Standing' = Kernel'
    BY <1>1 DEF Serving, RestoreInPlace, Standing
  <1>6. PICK lo \in Nat, wr \in Nat :
              /\ lo <= Len(Kernel[a]) /\ lo <= durable'[a] /\ wr <= w'.written
              /\ Promises(history, kern, Kernel, a, lo, wr, Len(Kernel[a]))
    BY <1>2, <1>3, <1>5, PromisedOfNext DEF RecInv
  <1>7. /\ a \in Id /\ Kernel \in [Id -> Seq(Record)] /\ Kernel' \in [Id -> Seq(Record)]
        /\ Kernel'[a] = Append(Kernel[a], rec) /\ \A id \in Id \ {a} : Kernel'[id] = Kernel[id]
        /\ Len(Kernel[a]) \in Nat
        /\ history \in Seq(Contents) /\ history # <<>> /\ kern \in 1..Len(history)
        /\ history' \in Seq(Contents) /\ history' # <<>> /\ kern' \in 1..Len(history')
        /\ Len(history) \in Nat /\ Last(history) \in Contents
        /\ durable'[a] \in Nat /\ w'.written \in Nat /\ durable'[a] <= w'.offset
        /\ w'.offset = Len(Kernel[a]) + 1 /\ w'.offset = Len(Kernel'[a])
    <2>1. Kernel[a] \in Seq(Record) BY <1>2, <1>3 DEF FilesOK, Writes
    <2>2. QED BY <1>2, <1>3, <2>1, LenProperties DEF FilesOK, ActiveOK, Writes
  <1>8. \A id \in Id : id > a => Kernel[id] = <<>>
    <2> SUFFICES ASSUME NEW id \in Id, id > a PROVE Kernel[id] = <<>> OBVIOUS
    <2>1. w.id \in Nat /\ a \in Nat /\ id \in Nat /\ a >= w.id
      BY <1>2, <1>3 DEF FilesOK, ActiveOK, Writes
    <2> HIDE DEF a
    <2>2. id > w.id BY <2>1
    <2>3. QED BY <1>2, <2>2 DEF ActiveOK
  <1>9. Promises(history', kern', Standing', w'.id, durable'[w'.id], w'.written, w'.offset)
    <2> DEFINE n == Len(Kernel[a])
               F == Kernel
               G == Kernel'
    <2>1. CASE reach = "Disk"
      <3>1. Holds(F, Last(history)) BY <1>6, <1>7, PromisesLast
      <3>2. Holds(G, c)
        <4>1. \A d \in Contents : Holds(F, d) => Holds(G, [d EXCEPT ![rec.key] = rec.val])
          BY <1>7, <1>8, AppendHolds
        <4>2. QED BY <1>7, <3>1, <4>1 DEF c
      <3>3. history' = <<c>> /\ Last(history') = c BY <1>4, <2>1 DEF Last
      <3>4. durable'[a] = w'.offset BY <1>3, <2>1 DEF Writes
      <3>5. \A m \in durable'[a]..w'.offset : Holds(Cut(G, a, m), Last(history'))
        <4> TAKE m \in durable'[a]..w'.offset
        <4>1. m = Len(G[a]) /\ m \in 0..Len(G[a]) BY <1>7, <3>4
        <4>2. Cut(G, a, m) = G BY <1>7, <4>1, CutIs
        <4>3. QED BY <3>2, <3>3, <4>2
      <3>6. w'.offset \in Nat BY <1>7
      <3> HIDE DEF a
      <3>7. Promises(history', kern', G, a, durable'[a], w'.written, w'.offset)
        BY <1>7, <3>5, <3>6, PromisesAfresh
      <3>8. QED BY <1>5, <3>7 DEF a
    <2>2. CASE reach # "Disk"
      <3>1. history' = Append(history, [Last(history) EXCEPT ![rec.key] = rec.val])
        BY <1>4, <2>2 DEF c
      <3>2. kern' = kern \/ (kern' = Len(history) + 1 /\ w'.written = n + 1)
        <4>1. CASE reach = "Buffer" BY <1>4, <4>1
        <4>2. CASE reach # "Buffer"
          <5>1. reach = "Kernel" BY <2>2, <4>2 DEF Reach
          <5>2. w'.written = n + 1 BY <1>3, <1>7, <5>1 DEF Writes
          <5>3. [Last(history) EXCEPT ![rec.key] = rec.val] \in Contents
            BY <1>7 DEF Contents, Record
          <5>4. Len(history') = Len(history) + 1 BY <1>7, <3>1, <5>3, AppendProperties
          <5>5. QED BY <1>4, <4>2, <5>2, <5>4
        <4>3. QED BY <4>1, <4>2
      <3> DEFINE p == w'.written
                 h2 == history'
                 kn2 == kern'
      <3>3. n \in Nat /\ p \in Nat /\ lo <= n /\ n = Len(F[a]) /\ wr <= p BY <1>6, <1>7
      <3>4. /\ F \in [Id -> Seq(Record)] /\ G \in [Id -> Seq(Record)] /\ a \in Id
            /\ \A id \in Id : id > a => F[id] = <<>>
            /\ G[a] = Append(F[a], rec) /\ \A id \in Id \ {a} : G[id] = F[id]
        BY <1>7, <1>8
      <3>5. Promises(history, kern, F, a, lo, wr, n) BY <1>6
      <3>6. /\ h2 = Append(history, [Last(history) EXCEPT ![rec.key] = rec.val])
            /\ kn2 = kern \/ (kn2 = Len(history) + 1 /\ p = n + 1)
        BY <3>1, <3>2
      <3>7. h2 \in Seq(Contents) /\ durable'[a] \in lo..(n + 1) /\ w'.offset = n + 1 BY <1>6, <1>7
      <3> HIDE DEF a, n, F, G, p, h2, kn2
      <3>8. Promises(h2, kn2, G, a, lo, p, n + 1) BY <1>7, <3>3, <3>4, <3>5, <3>6, PromisesMore
      <3>9. n + 1 \in Nat BY <3>3
      <3> DEFINE q == durable'[a]
      <3>10. q \in lo..(n + 1) BY <3>7
      <3> HIDE DEF q
      <3>11. Promises(h2, kn2, G, a, q, p, n + 1) BY <3>3, <3>7, <3>8, <3>9, <3>10, PromisesKept
      <3>12. QED BY <1>5, <3>7, <3>11 DEF a, G, p, h2, kn2, q
    <2>3. QED BY <2>1, <2>2
  <1>10. \A k \in Keys : Points(Indexed', k, keydir'[k])
    <2> DEFINE F == Indexed
               G == Indexed'
               loc == IF rec.val = Absent THEN NoLoc ELSE [id |-> a, off |-> Len(Kernel[a])]
    <2>1. merge.stage = "placed" => merge.id \in Id /\ merge.id < w.id /\ merge.id # a
      <3> SUFFICES ASSUME merge.stage = "placed"
                   PROVE  merge.id \in Id /\ merge.id < w.id /\ merge.id # a
        OBVIOUS
      <3>1. merge.kind # "none" BY DEF Inv, MergeInv, NoMerge
      <3>2. merge.id \in Id /\ merge.id < w.id /\ w.id \in Id /\ a \in Id /\ a >= w.id
        BY <1>2, <1>3, <3>1 DEF ActiveOK, Writes
      <3>3. QED BY <3>2, BoundsAssumption DEF Id
    <2>2. /\ \A id \in Id : F[id] = IF merge.stage = "placed" /\ id = merge.id THEN <<>>
                                    ELSE Kernel[id]
          /\ \A id \in Id : G[id] = IF merge.stage = "placed" /\ id = merge.id THEN <<>>
                                    ELSE Kernel'[id]
      BY <1>1, <1>5 DEF Indexed
    <2>3. /\ F \in [Id -> Seq(Record)] /\ G \in [Id -> Seq(Record)]
          /\ F[a] = Kernel[a] /\ G[a] = Kernel'[a]
      BY <1>2, <1>7, <2>1, <2>2 DEF FilesOK
    <2> HIDE DEF F, G
    <2>4. /\ G[a] = Append(F[a], rec) /\ \A id \in Id \ {a} : G[id] = F[id]
          /\ \A id \in Id : id > a => F[id] = <<>>
      BY <1>7, <1>8, <2>2, <2>3
    <2>5. /\ \A k \in Keys \ {k0} : \A x : Points(F, k, x) => Points(G, k, x)
          /\ Points(G, k0, loc)
      <3>1. /\ \A k \in Keys \ {rec.key} : \A x : Points(F, k, x) => Points(G, k, x)
            /\ Points(G, rec.key, IF rec.val = Absent THEN NoLoc
                                   ELSE [id |-> a, off |-> Len(F[a])])
        <4> HIDE DEF a
        <4>1. QED BY <1>7, <2>3, <2>4, AppendHolds
      <3>2. QED BY <2>3, <3>1
    <2>6. \A k \in Keys : Points(F, k, keydir[k]) BY <1>5 DEF RecInv, ServingInv, F
    <2>7. keydir \in Index /\ k0 \in Keys BY DEF Inv, TypeOK, Record
    <2>8. keydir'[k0] = loc
      <3>1. w'.offset - 1 = Len(Kernel[a]) BY <1>7
      <3>2. Landed = [id |-> a, off |-> Len(Kernel[a])] BY <3>1 DEF Landed
      <3>3. keydir'[k0] = IF rec.val = Absent THEN NoLoc ELSE Landed BY <2>7 DEF Index
      <3>4. QED BY <3>2, <3>3
    <2>9. \A k \in Keys \ {k0} : keydir'[k] = keydir[k] BY <2>7 DEF Index
    <2>10. \A k \in Keys : Points(G, k, keydir'[k]) BY <2>5, <2>6, <2>8, <2>9
    <2>11. QED BY <2>10 DEF G
  <1>11. ViewInv' /\ DeadInv' /\ OutInv' /\ SlotInv'
    <2>1. ViewInv /\ DeadInv /\ OutInv /\ SlotInv /\ TypeOK /\ dir' \subseteq Id
      BY DEF RecInv, Inv, TypeOK
    <2>2. merge.kind # "none" =>
              /\ merge.id \in Id
              /\ \A id \in Id : id <= merge.id => data'[id] = data[id]
              /\ \A id \in dir' : id <= merge.id => id \in dir
      <3> SUFFICES ASSUME merge.kind # "none"
                   PROVE  /\ merge.id \in Id
                          /\ \A id \in Id : id <= merge.id => data'[id] = data[id]
                          /\ \A id \in dir' : id <= merge.id => id \in dir
        OBVIOUS
      <3>1. merge.id \in Id /\ merge.id < w.id /\ w.id \in Id /\ a \in Id /\ a >= w.id
        BY <1>2, <1>3 DEF ActiveOK, Writes
      <3>2. \A id \in Id : id <= merge.id => id # a /\ id # w.id BY <3>1, BoundsAssumption DEF Id
      <3>3. /\ dir' = dir \cup {a} /\ \A id \in Id \ {a, w.id} : data'[id] = data[id]
        BY <1>3 DEF Writes
      <3>4. QED BY <2>1, <3>1, <3>2, <3>3
    <2>3. QED BY <2>1, <2>2, MergeUntouched
  <1>12. CompactInv' /\ RestoreInv' /\ DownInv' BY <1>1 DEF CompactInv, RestoreInv, DownInv
  <1>13. ServingInv' BY <1>9, <1>10 DEF ServingInv, Promised
  <1>14. QED BY <1>11, <1>12, <1>13 DEF RecInv

LEMMA PutKeepsRec ==
    ASSUME Inv, Inv', RecInv, NEW k \in Keys, NEW v \in Values, NEW reach \in Reach,
           Put(k, v, reach)
    PROVE  RecInv'
  <1> DEFINE rec == [key |-> k, val |-> v]
  <1>1. rec \in Record /\ rec.key = k /\ rec.val = v /\ v # Absent BY AbsentAssumption DEF Record
  <1>2. /\ Ready /\ ~Restoring /\ up' = up /\ merge' = merge /\ AppendToLog(rec, reach)
        /\ keydir' = [keydir EXCEPT ![k] = Landed]
        /\ Remember([Last(history) EXCEPT ![k] = v], reach)
    BY DEF Put
  <1> HIDE DEF rec
  <1>3. /\ keydir' = [keydir EXCEPT ![rec.key] = IF rec.val = Absent THEN NoLoc ELSE Landed]
        /\ Remember([Last(history) EXCEPT ![rec.key] = rec.val], reach)
    BY <1>1, <1>2
  <1>4. QED BY <1>1, <1>2, <1>3, WriteKeepsRec

LEMMA DeleteKeepsRec ==
    ASSUME Inv, Inv', RecInv, NEW k \in Keys, NEW reach \in Reach, Delete(k, reach) PROVE RecInv'
  <1> DEFINE rec == [key |-> k, val |-> Absent]
  <1>1. rec \in Record /\ rec.key = k /\ rec.val = Absent BY DEF Record
  <1>2. /\ Ready /\ ~Restoring /\ up' = up /\ merge' = merge /\ AppendToLog(rec, reach)
        /\ keydir' = [keydir EXCEPT ![k] = NoLoc]
        /\ Remember([Last(history) EXCEPT ![k] = Absent], reach)
    BY DEF Delete
  <1> HIDE DEF rec
  <1>3. /\ keydir' = [keydir EXCEPT ![rec.key] = IF rec.val = Absent THEN NoLoc ELSE Landed]
        /\ Remember([Last(history) EXCEPT ![rec.key] = rec.val], reach)
    BY <1>1, <1>2
  <1>4. QED BY <1>1, <1>2, <1>3, WriteKeepsRec

(* The files of a serving store hold the last contents; and if all of the  *)
(* active one is on the disk, nothing else is to be promised.              *)
LEMMA PromisedLast == ASSUME FilesOK, ActiveOK, Promised PROVE Holds(Standing, Last(history))
  <1>1. /\ Standing \in [Id -> Seq(Record)] /\ w.id \in Id
        /\ durable[w.id] \in Nat /\ w.offset \in Nat /\ durable[w.id] <= w.offset
        /\ w.offset = Len(Standing[w.id]) /\ history \in Seq(Contents)
    BY DEF FilesOK, ActiveOK
  <1>2. Promises(history, kern, Standing, w.id, durable[w.id], w.written, w.offset) BY DEF Promised
  <1>3. QED BY <1>1, <1>2, PromisesLast

LEMMA PromisedWhole ==
    ASSUME FilesOK, ActiveOK, Holds(Standing, Last(history)), durable[w.id] = w.offset
    PROVE  Promised
  <1> DEFINE lo == durable[w.id]
             a == w.id
  <1>1. /\ Standing \in [Id -> Seq(Record)] /\ a \in Id /\ lo \in Nat /\ lo <= lo
        /\ lo = Len(Standing[a]) /\ history \in Seq(Contents) /\ history # <<>>
        /\ kern \in 1..Len(history)
    BY DEF FilesOK, ActiveOK
  <1> HIDE DEF lo, a
  <1>2. \A n \in lo..lo : Holds(Cut(Standing, a, n), Last(history))
    <2> TAKE n \in lo..lo
    <2>1. n \in 0..Len(Standing[a]) /\ n = Len(Standing[a]) BY <1>1
    <2>2. Cut(Standing, a, n) = Standing BY <1>1, <2>1, CutIs
    <2>3. QED BY <2>2
  <1>3. Promises(history, kern, Standing, a, lo, w.written, lo) BY <1>1, <1>2, PromisesAfresh
  <1>4. QED BY <1>3 DEF Promised, lo, a

LEMMA PromisedWholeNext ==
    FilesOK' /\ ActiveOK' /\ Holds(Standing, Last(history))' /\ (durable[w.id] = w.offset)'
        => Promised'
  <1>1. FilesOK /\ ActiveOK /\ Holds(Standing, Last(history)) /\ durable[w.id] = w.offset
        => Promised
    BY PromisedWhole
  <1>2. QED BY <1>1, PTL

(* The same files have been written out, or are on the disk.               *)
LEMMA SameKernel ==
    ASSUME FilesOK, FilesOK', \A id \in Id : Kernel'[id] = Kernel[id]
    PROVE  /\ Kernel' = Kernel
           /\ merge' = merge => Standing' = Standing /\ Indexed' = Indexed
  <1>1. Kernel' = Kernel BY DEF FilesOK
  <1>2. Standing' = IF merge'.stage = "unlink" THEN From(Kernel', merge'.id) ELSE Kernel'
    BY DEF Standing
  <1>3. merge' = merge => Standing' = Standing BY <1>1, <1>2 DEF Standing
  <1>4. Indexed' = [id \in Id |-> IF merge'.stage = "placed" /\ id = merge'.id THEN <<>>
                                  ELSE Standing'[id]]
    BY DEF Indexed
  <1>5. QED BY <1>1, <1>3, <1>4 DEF Indexed

(* Writing out what is buffered.                                           *)
LEMMA FlushedOut ==
    ASSUME FilesOK, FilesOK', ActiveOK, w'.id = w.id, w'.pending = <<>>,
           data' = [data EXCEPT ![w.id] = Kernel[w.id]]
    PROVE  /\ \A id \in Id : Kernel'[id] = Kernel[id] /\ data'[id] = Kernel[id]
           /\ Kernel' = Kernel /\ data' = Kernel
           /\ \A id \in Id : id < w.id => data'[id] = data[id]
  <1>1. data \in [Id -> Seq(Record)] /\ w.id \in Id /\ Kernel[w.id] \in Seq(Record)
    BY DEF FilesOK, ActiveOK
  <1>2. data'[w.id] = Kernel[w.id] /\ \A id \in Id \ {w.id} : data'[id] = data[id] BY <1>1
  <1>3. \A id \in Id : data'[id] = Kernel[id] BY <1>2 DEF ActiveOK
  <1>4. \A id \in Id : Kernel'[id] = data'[id]
    <2> TAKE id \in Id
    <2>1. data'[id] \in Seq(Record) /\ Kernel'[id] = Held(id)' BY DEF FilesOK
    <2>2. Held(id)' = IF id = w'.id THEN data'[id] \o w'.pending ELSE data'[id] BY DEF Held
    <2>3. data'[id] \o <<>> = data'[id] BY <2>1, ConcatEmptySeq
    <2>4. QED BY <2>1, <2>2, <2>3
  <1>5. \A id \in Id : id < w.id => id # w.id BY <1>1, BoundsAssumption DEF Id
  <1>6. data' = Kernel BY <1>1, <1>3 DEF FilesOK
  <1>7. QED BY <1>2, <1>3, <1>4, <1>5, <1>6, SameKernel

LEMMA SyncKeepsRec == ASSUME Inv, Inv', RecInv, Sync PROVE RecInv'
  <1>1. /\ Ready /\ w' = Attach(w.id, Sealed) /\ data' = [data EXCEPT ![w.id] = Sealed.file]
        /\ durable' = [durable EXCEPT ![w.id] = Sealed.durable]
        /\ history' = <<Last(history)>> /\ kern' = 1
        /\ UNCHANGED <<dir, keydir, up, merge>>
    BY DEF Sync, index
  <1>2. up /\ up' /\ merge.kind # "compact" /\ merge.stage # "unlink"
        /\ merge' = merge /\ (merge.kind # "compact")'
    BY <1>1, ReadyFacts
  <1>3. FilesOK /\ FilesOK' /\ ActiveOK /\ ActiveOK'
    BY <1>1, <1>2, FilesAre, FilesAreNext, ActiveFile, ActiveFileNext DEF Inv
  <1>4. /\ TypeOK /\ FilesInv /\ ActiveInv BY <1>2, OpenFacts DEF Inv
  <1>5. /\ Sealed.file = Kernel[w.id] /\ Sealed.durable = w.offset /\ Sealed.pending = <<>>
        /\ Sealed.offset = w.offset
    BY <1>3, <1>4, SealIs DEF FilesOK, ActiveOK
  <1>6. w'.id = w.id /\ w'.pending = <<>> /\ w'.offset = w.offset BY <1>1, <1>5 DEF Attach
  <1>7. durable'[w.id] = w.offset
    <2>1. durable \in [Id -> Nat] /\ w.id \in Id BY <1>4 DEF TypeOK
    <2>2. QED BY <1>1, <1>5, <2>1
  <1>8. /\ \A id \in Id : Kernel'[id] = Kernel[id]
        /\ \A id \in Id : id < w.id => data'[id] = data[id]
    BY <1>1, <1>3, <1>5, <1>6, FlushedOut
  <1>9. Standing' = Standing /\ Indexed' = Indexed BY <1>2, <1>3, <1>8, SameKernel
  <1>10. ServingInv'
    <2> SUFFICES ASSUME Serving' PROVE Promised' /\ \A k \in Keys : Points(Indexed', k, keydir'[k])
      BY DEF ServingInv
    <2>1. Serving BY <1>1, <1>2 DEF Serving, RestoreInPlace
    <2>2. Promised /\ \A k \in Keys : Points(Indexed, k, keydir[k]) BY <2>1 DEF RecInv, ServingInv
    <2>3. Holds(Standing, Last(history)) BY <1>3, <2>2, PromisedLast
    <2>4. Last(history') = Last(history) BY <1>1 DEF Last
    <2>5. Holds(Standing, Last(history))' BY <1>9, <2>3, <2>4
    <2>6. Promised' BY <1>3, <1>6, <1>7, <2>5, PromisedWholeNext
    <2>7. QED BY <1>1, <1>9, <2>2, <2>6
  <1>11. ViewInv' /\ DeadInv' /\ OutInv' /\ SlotInv'
    <2>1. ViewInv /\ DeadInv /\ OutInv /\ SlotInv /\ TypeOK /\ dir' \subseteq Id
      BY <1>4 DEF RecInv, Inv, TypeOK
    <2>2. merge.kind # "none" =>
              /\ merge.id \in Id
              /\ \A id \in Id : id <= merge.id => data'[id] = data[id]
              /\ \A id \in dir' : id <= merge.id => id \in dir
      <3> SUFFICES ASSUME merge.kind # "none"
                   PROVE  /\ merge.id \in Id
                          /\ \A id \in Id : id <= merge.id => data'[id] = data[id]
        BY <1>1
      <3>1. merge.id \in Id /\ merge.id < w.id /\ w.id \in Id BY <1>3 DEF ActiveOK
      <3>2. \A id \in Id : id <= merge.id => id < w.id BY <3>1, BoundsAssumption DEF Id
      <3>3. QED BY <1>8, <3>1, <3>2
    <2>3. QED BY <1>2, <2>1, <2>2, MergeUntouched
  <1>12. CompactInv' /\ DownInv' BY <1>2 DEF CompactInv, DownInv
  <1>13. RestoreInv' BY <1>1, <1>6 DEF RecInv, RestoreInv
  <1>14. QED BY <1>10, <1>11, <1>12, <1>13 DEF RecInv

-----------------------------------------------------------------------------
(* Beginning a merge.                                                      *)

(* Nothing has been copied yet.                                            *)
LEMMA MergeBegins ==
    ASSUME Inv', merge'.id \in Id, merge'.kind \in {"compact", "background", "restore"},
           merge'.stage = "copy", merge'.moved = Nowhere,
           Out' = <<>>, Old' = Kernel,
           merge'.kind # "restore" =>
              \A k \in Keys : Points(Kernel, k, merge'.view[k])
    PROVE  ViewInv' /\ DeadInv' /\ OutInv'
  <1>1. ViewInv' BY DEF ViewInv, Merging
  <1>2. DeadInv' BY DEF DeadInv
  <1>3. OutInv'
    <2>1. \A i \in 1..Len(Out') : FALSE OBVIOUS
    <2>2. \A k \in Keys : merge'.moved[k] = NoLoc BY DEF Nowhere
    <2>3. QED BY <2>1, <2>2 DEF OutInv
  <1>4. QED BY <1>1, <1>2, <1>3

LEMMA SealLeavingASlotKeepsRec ==
    ASSUME Inv, Inv', RecInv, NEW kind \in {"background", "restore"}, SealLeavingASlot(kind)
    PROVE  RecInv'
  <1> DEFINE n == w.id + 2
             s == w.id + 1
  <1>1. /\ Ready /\ ~Compacting /\ ~Restoring /\ n <= MaxId
        /\ data' = [data EXCEPT ![w.id] = Sealed.file]
        /\ durable' = [durable EXCEPT ![w.id] = Sealed.durable]
        /\ w' = Attach(n, OpenWriter(<<>>, 0))
        /\ dir' = dir \cup {n}
        /\ merge' = [NoMerge EXCEPT !.kind = kind, !.stage = "copy",
                        !.id = s, !.old = readers, !.oldBytes = disk_bytes,
                        !.view = IF kind = "background" THEN keydir ELSE Nowhere]
        /\ UNCHANGED <<up, keydir, history, kern>>
    BY DEF SealLeavingASlot, index, ghost, NextActive, Slot
  <1>2. /\ merge'.kind = kind /\ merge'.stage = "copy" /\ merge'.id = s
        /\ merge'.old = readers /\ merge'.cur = 0 /\ merge'.gone = {}
        /\ merge'.view = (IF kind = "background" THEN keydir ELSE Nowhere)
        /\ merge'.moved = Nowhere /\ merge'.part = <<>>
    BY <1>1 DEF NoMerge
  <1>3. merge = NoMerge /\ merge.kind = "none" /\ merge.stage = "idle" /\ dir = readers
    BY <1>1, FreeFacts DEF NoMerge
  <1>4. up /\ up' /\ merge.kind # "compact" /\ (merge.kind # "compact")'
    BY <1>1, <1>2, <1>3, ReadyFacts
  <1>5. FilesOK /\ FilesOK' /\ ActiveOK /\ ActiveOK'
    BY <1>4, FilesAre, FilesAreNext, ActiveFile, ActiveFileNext DEF Inv
  <1>6. TypeOK /\ FilesInv /\ ActiveInv BY <1>4, OpenFacts DEF Inv
  <1>7. Sealed.file = Kernel[w.id] BY <1>5, <1>6, SealIs DEF FilesOK, ActiveOK
  <1>8. w.id \in Id /\ w.id \in Nat /\ n \in Id /\ s \in Id /\ n \in Nat /\ s \in Nat
        /\ n > w.id /\ s > w.id /\ n > s /\ s # n
    <2>1. w.id \in Id BY <1>5 DEF ActiveOK
    <2>2. QED BY <1>1, <2>1, BoundsAssumption DEF Id
  <1>9. w'.id = n /\ w'.offset = 0 /\ w'.pending = <<>> BY <1>1, EmptyWriter DEF Attach
  <1> HIDE DEF n, s
  <1>10. /\ data \in [Id -> Seq(Record)] /\ data'[w.id] = Kernel[w.id]
         /\ \A id \in Id \ {w.id} : data'[id] = data[id]
    BY <1>1, <1>5, <1>7, <1>8 DEF FilesOK
  <1>11. \A id \in Id : data'[id] = Kernel[id] BY <1>5, <1>10 DEF ActiveOK
  <1>12. \A id \in Id : Kernel'[id] = Kernel[id]
    <2> TAKE id \in Id
    <2>1. CASE id = n
      <3>1. Kernel'[n] = data'[n] \o w'.pending /\ data'[n] = Kernel[n] /\ Kernel[n] = <<>>
        BY <1>5, <1>8, <1>9, <1>11 DEF ActiveOK
      <3>2. QED BY <1>9, <2>1, <3>1
    <2>2. CASE id # n BY <1>5, <1>9, <1>11, <2>2 DEF ActiveOK
    <2>3. QED BY <2>1, <2>2
  <1>13. Kernel' = Kernel BY <1>5, <1>12, SameKernel
  <1>14. Standing = Kernel /\ Indexed = Kernel /\ Standing' = Kernel /\ Indexed' = Kernel
    <2>1. Standing = Kernel /\ Standing' = Kernel BY <1>2, <1>3, <1>13 DEF Standing
    <2>2. \A id \in Id : Indexed[id] = Kernel[id] /\ Indexed'[id] = Kernel[id]
      BY <1>2, <1>3, <2>1 DEF Indexed
    <2>3. QED BY <1>5, <2>1, <2>2 DEF FilesOK
  <1>15. Serving BY <1>3, <1>4 DEF Serving, RestoreInPlace
  <1>16. Promised /\ \A k \in Keys : Points(Kernel, k, keydir[k])
    BY <1>14, <1>15 DEF RecInv, ServingInv
  <1>17. Holds(Kernel, Last(history)) BY <1>5, <1>14, <1>16, PromisedLast
  <1>18. ServingInv'
    <2>1. Holds(Standing, Last(history))' BY <1>1, <1>14, <1>17
    <2>2. durable'[n] \in Nat /\ durable'[n] <= w'.offset BY <1>5, <1>9 DEF ActiveOK
    <2>3. (durable[w.id] = w.offset)' BY <1>9, <2>2
    <2>4. Promised' BY <1>5, <2>1, <2>3, PromisedWholeNext
    <2>5. QED BY <1>1, <1>14, <1>16, <2>4 DEF ServingInv
  <1>19. Old' = Kernel
    <2>1. \A id \in Id : Old'[id] = Kernel[id]
      <3> TAKE id \in Id
      <3>1. Old'[id] = IF id < s THEN data'[id] ELSE <<>> BY <1>2 DEF Old, Under
      <3>2. ~(id < s) => Kernel[id] = <<>>
        <4> SUFFICES ASSUME ~(id < s) PROVE Kernel[id] = <<>> OBVIOUS
        <4>1. id > w.id BY <1>8, BoundsAssumption DEF Id
        <4>2. QED BY <1>5, <4>1 DEF ActiveOK
      <3>3. QED BY <1>11, <3>1, <3>2
    <2>2. QED BY <1>5, <2>1 DEF FilesOK
  <1>20. ViewInv' /\ DeadInv' /\ OutInv'
    <2>1. Out' = <<>> BY <1>2 DEF Out
    <2>2. merge'.kind # "restore" => \A k \in Keys : Points(Kernel, k, merge'.view[k])
      BY <1>2, <1>16
    <2>3. merge'.id \in Id /\ merge'.kind \in {"compact", "background", "restore"} BY <1>2, <1>8
    <2>4. QED BY <1>2, <1>19, <2>1, <2>2, <2>3, MergeBegins
  <1>21. SlotInv' /\ RestoreInv'
    <2>1. \A id \in dir : id \in Nat /\ id <= w.id
      <3>1. dir \subseteq 1..w.id BY <1>5 DEF ActiveOK
      <3>2. QED BY <1>8, <3>1
    <2>2. s \notin dir' /\ \A id \in dir' : id < s => id \in readers BY <1>1, <1>3, <1>8, <2>1
    <2>3. \A id \in dir' : id > s => id = n BY <1>1, <1>8, <2>1
    <2>4. SlotInv' BY <1>2, <2>2 DEF SlotInv
    <2>5. QED BY <1>2, <1>9, <2>3, <2>4 DEF RestoreInv
  <1>22. CompactInv' /\ DownInv' BY <1>2, <1>4 DEF CompactInv, DownInv
  <1>23. QED BY <1>18, <1>20, <1>21, <1>22 DEF RecInv

LEMMA BeginCompactKeepsRec == ASSUME Inv, Inv', RecInv, BeginCompact PROVE RecInv'
  <1> DEFINE lw == Flush(Active)
             m == Max(readers) + 1
  <1>1. /\ Ready /\ ~Compacting /\ ~Restoring
        /\ w' = Attach(w.id, lw) /\ data' = [data EXCEPT ![w.id] = lw.file]
        /\ dir' = dir \cup {m} /\ m <= MaxId
        /\ merge' = [NoMerge EXCEPT !.kind = "compact", !.stage = "copy",
                        !.id = m, !.old = readers, !.view = keydir]
        /\ UNCHANGED <<up, keydir, history, kern>>
    BY DEF BeginCompact, index, ghost
  <1>2. /\ merge'.kind = "compact" /\ merge'.stage = "copy" /\ merge'.id = m
        /\ merge'.old = readers /\ merge'.cur = 0 /\ merge'.gone = {}
        /\ merge'.view = keydir /\ merge'.moved = Nowhere /\ merge'.part = <<>>
    BY <1>1 DEF NoMerge
  <1>3. merge = NoMerge /\ merge.kind = "none" /\ merge.stage = "idle" /\ dir = readers
    BY <1>1, FreeFacts DEF NoMerge
  <1>4. up /\ up' /\ merge.kind # "compact" BY <1>1, <1>2, <1>3, ReadyFacts
  <1>5. FilesOK /\ FilesOK' /\ ActiveOK BY <1>4, FilesAre, FilesAreNext, ActiveFile DEF Inv
  <1>6. TypeOK /\ FilesInv /\ ActiveInv BY <1>4, OpenFacts DEF Inv
  <1>7. lw.file = Kernel[w.id] /\ lw.pending = <<>>
    BY <1>5, <1>6, ActiveFacts, FlushKeeps DEF ActiveInv, FilesOK
  <1>8. w'.id = w.id /\ w'.pending = <<>> BY <1>1, <1>7 DEF Attach
  <1>9. data' = Kernel BY <1>1, <1>5, <1>7, <1>8, FlushedOut
  <1>10. w.id \in Id /\ w.id \in Nat /\ m \in Id /\ m \in Nat /\ m > w.id
    <2>1. w.id \in Id /\ w.id \in readers /\ w.id \in Nat BY <1>5, BoundsAssumption DEF ActiveOK, Id
    <2>2. readers \in SUBSET Nat /\ readers # {} /\ \A x \in readers : x <= MaxId
      <3>1. readers \subseteq Id BY <1>6 DEF TypeOK
      <3>2. QED BY <2>1, <3>1, BoundsAssumption DEF Id
    <2>3. Max(readers) \in Nat /\ \A x \in readers : x <= Max(readers)
      BY <2>2, MaxFacts, BoundsAssumption
    <2>4. w.id <= Max(readers) BY <2>1, <2>3
    <2> HIDE DEF lw
    <2>5. QED BY <1>1, <2>1, <2>3, <2>4, BoundsAssumption DEF Id
  <1> HIDE DEF lw, m
  <1>11. Standing = Kernel /\ Indexed = Kernel
    <2>1. Standing = Kernel BY <1>3 DEF Standing
    <2>2. \A id \in Id : Indexed[id] = Kernel[id] BY <1>3, <2>1 DEF Indexed
    <2>3. QED BY <1>5, <2>1, <2>2 DEF FilesOK
  <1>12. Serving BY <1>3, <1>4 DEF Serving, RestoreInPlace
  <1>13. Promised /\ \A k \in Keys : Points(Kernel, k, keydir[k])
    BY <1>11, <1>12 DEF RecInv, ServingInv
  <1>14. Holds(Kernel, Last(history)) BY <1>5, <1>11, <1>13, PromisedLast
  <1>15. \A id \in Id : ~(id < m) => Kernel[id] = <<>>
    <2> SUFFICES ASSUME NEW id \in Id, ~(id < m) PROVE Kernel[id] = <<>> OBVIOUS
    <2>1. id > w.id BY <1>10, BoundsAssumption DEF Id
    <2>2. QED BY <1>5, <2>1 DEF ActiveOK
  <1>16. Old' = Kernel
    <2>1. \A id \in Id : Old'[id] = Kernel[id]
      <3> TAKE id \in Id
      <3>1. Old'[id] = IF id < m THEN data'[id] ELSE <<>> BY <1>2 DEF Old, Under
      <3>2. QED BY <1>9, <1>15, <3>1
    <2>2. QED BY <1>5, <2>1 DEF FilesOK
  <1>17. ViewInv' /\ DeadInv' /\ OutInv'
    <2>1. Out' = <<>>
      <3>1. data'[m] = <<>> /\ ~(m < m) BY <1>9, <1>10, <1>15
      <3>2. QED BY <1>2, <3>1 DEF Out
    <2>2. merge'.id \in Id /\ merge'.kind \in {"compact", "background", "restore"} BY <1>2, <1>10
    <2>3. QED BY <1>2, <1>13, <1>16, <2>1, <2>2, MergeBegins
  <1>18. SlotInv'
    <2>1. \A id \in dir' : id < m => id \in readers BY <1>1, <1>3, <1>10
    <2>2. QED BY <1>2, <2>1 DEF SlotInv
  <1>19. CompactInv' BY <1>1, <1>2, <1>14, <1>16 DEF CompactInv
  <1>20. ServingInv' /\ RestoreInv' /\ DownInv'
    BY <1>2, <1>4 DEF ServingInv, Serving, RestoreInv, DownInv
  <1>21. QED BY <1>17, <1>18, <1>19, <1>20 DEF RecInv

-----------------------------------------------------------------------------
(* Copying.                                                                *)

LEMMA ServingSame ==
    ASSUME ServingInv, Serving' => Serving, Standing' = Standing, Indexed' = Indexed,
           UNCHANGED <<keydir, history, kern, w>>, durable'[w.id] = durable[w.id]
    PROVE  ServingInv'
  <1> SUFFICES ASSUME Serving' PROVE Promised' /\ \A k \in Keys : Points(Indexed', k, keydir'[k])
    BY DEF ServingInv
  <1>1. Promised /\ \A k \in Keys : Points(Indexed, k, keydir[k]) BY DEF ServingInv
  <1>2. Promised' BY <1>1 DEF Promised
  <1>3. QED BY <1>1, <1>2

(* The record a merge reads for a key.                                     *)
LEMMA ViewRecord ==
    ASSUME FilesOK, merge.id \in Id, NEW k, NEW loc, Points(Old, k, loc), loc # NoLoc
    PROVE  /\ loc.id \in Id /\ loc.id < merge.id /\ Old[loc.id] = data[loc.id]
           /\ Old[loc.id][loc.off + 1] \in Record
           /\ Old[loc.id][loc.off + 1].key = k /\ Old[loc.id][loc.off + 1].val # Absent
  <1> DEFINE a == loc.id
             i == loc.off + 1
  <1>1. data \in [Id -> Seq(Record)] /\ Old \in [Id -> Seq(Record)] BY DEF FilesOK
  <1>2. Ends(Old, k, a, i) BY DEF Points
  <1> HIDE DEF a, i
  <1>3. Place(Old, k, a, i) /\ Old[a][i].val # Absent /\ Old[a][i].key = k /\ a \in Id
    BY <1>2 DEF Ends, Place
  <1>4. Old[a][i] \in Record BY <1>1, <1>3, PlaceIsBounded
  <1>5. /\ \A y, b, j : Place(Old, y, b, j) <=> Place(data, y, b, j) /\ b < merge.id
        /\ \A b \in Id : b < merge.id => Old[b] = data[b]
    <2> DEFINE s == merge.id
               D == data
    <2>1. D \in [Id -> Seq(Record)] /\ s \in Id /\ Old = Under(D, s) BY <1>1 DEF Old
    <2> HIDE DEF s, D
    <2>2. /\ \A y, b, j : Place(Under(D, s), y, b, j) <=> Place(D, y, b, j) /\ b < s
          /\ \A b \in Id : b < s => Under(D, s)[b] = D[b]
      BY <2>1, UnderIs
    <2>3. QED BY <2>1, <2>2 DEF s, D
  <1>6. a < merge.id /\ Old[a] = data[a] BY <1>3, <1>5
  <1>7. QED BY <1>3, <1>4, <1>6 DEF a, i

LEMMA OutIsSeq ==
    ASSUME TypeOK, merge.kind # "none" => merge.id \in Id
    PROVE  merge.kind # "none" => Out \in Seq(Record) /\ Len(Out) \in Nat
  <1> SUFFICES ASSUME merge.kind # "none" PROVE Out \in Seq(Record) /\ Len(Out) \in Nat OBVIOUS
  <1>1. merge.part \in Seq(Record) /\ data[merge.id] \in Seq(Record)
    <2>1. data \in [Id -> Seq(Record)] BY DEF TypeOK
    <2>2. QED BY <2>1, MergeFields
  <1>2. data[merge.id] \o merge.part \in Seq(Record) BY <1>1, ConcatProperties, SMTT(40)
  <1>3. QED BY <1>1, <1>2, LenProperties DEF Out

(* A copy more, of a key that had none.                                    *)
LEMMA OutGrows ==
    ASSUME TypeOK, OutInv, CopyInv, merge.kind # "none", merge.id \in Id, merge.stage = "copy",
           NEW k \in Keys, NEW rec \in Record, rec.key = k, rec.val # Absent,
           merge.moved[k] = NoLoc, Out' = Append(Out, rec), Old' = Old,
           merge'.moved = [merge.moved EXCEPT ![k] = [id |-> merge.id, off |-> Len(Out)]],
           merge'.kind = merge.kind, merge'.stage = merge.stage, merge'.id = merge.id,
           merge'.view = merge.view,
           Merging => merge.view[k] # NoLoc
                      /\ rec = Old[merge.view[k].id][merge.view[k].off + 1]
    PROVE  OutInv'
  <1> DEFINE s == merge.id
             n == Len(Out)
             mv == merge.moved
             nv == merge'.moved
             o == Out
             q == Out'
             of(r) == LET loc == merge.view[r.key]
                      IN  loc # NoLoc /\ r = Old[loc.id][loc.off + 1]
  <1>1. o \in Seq(Record) /\ n \in Nat /\ mv \in Index /\ s # 0
    BY OutIsSeq, MergeFields, BoundsAssumption DEF Id
  <1>2. /\ q \in Seq(Record) /\ Len(q) = n + 1 /\ q[n + 1] = rec
        /\ \A i \in 1..n : q[i] = o[i]
    BY <1>1, AppendProperties, SMTT(40)
  <1>3. /\ \A i \in 1..n : /\ o[i].val # Absent /\ mv[o[i].key] = [id |-> s, off |-> i - 1]
                           /\ Merging => of(o[i])
        /\ \A j \in Keys : mv[j] # NoLoc => o[mv[j].off + 1].key = j
    BY DEF OutInv
  <1>4. nv[k] = [id |-> s, off |-> n] /\ \A j \in Keys \ {k} : nv[j] = mv[j] BY <1>1 DEF Index
  <1>5. \A j \in Keys : mv[j] # NoLoc => mv[j].off < n /\ mv[j].off \in Nat
    BY <1>1 DEF CopyInv, Index, Location
  <1>6. \A i \in 1..n : o[i].key \in Keys
    <2> TAKE i \in 1..n
    <2>1. o[i] \in Record BY <1>1, ElementOfSeq
    <2>2. QED BY <2>1 DEF Record
  <1>7. Merging => of(rec) OBVIOUS
  <1>8. Merging' = Merging BY DEF Merging
  <1> HIDE DEF n, mv, nv, o, q, of
  <1>9. ASSUME NEW i \in 1..(n + 1)
        PROVE  /\ q[i].val # Absent /\ nv[q[i].key] = [id |-> s, off |-> i - 1]
               /\ Merging => of(q[i])
    <2>1. CASE i = n + 1
      <3>1. q[i] = rec /\ i - 1 = n BY <1>1, <1>2, <2>1
      <3>2. QED BY <1>4, <1>7, <3>1
    <2>2. CASE i \in 1..n
      <3>1. q[i] = o[i] /\ o[i].key \in Keys /\ o[i].val # Absent
            /\ mv[o[i].key] = [id |-> s, off |-> i - 1]
        BY <1>2, <1>3, <1>6, <2>2
      <3>2. mv[o[i].key] # NoLoc BY <1>1, <3>1 DEF NoLoc
      <3>3. o[i].key # k BY <3>2 DEF mv
      <3>4. Merging => of(o[i]) BY <1>3, <2>2
      <3>5. QED BY <1>4, <3>1, <3>3, <3>4
    <2>3. QED BY <1>1, <2>1, <2>2
  <1>10. ASSUME NEW j \in Keys, nv[j] # NoLoc PROVE q[nv[j].off + 1].key = j
    <2>1. CASE j = k BY <1>2, <1>4, <2>1
    <2>2. CASE j # k
      <3>1. nv[j] = mv[j] /\ mv[j] # NoLoc BY <1>4, <1>10, <2>2
      <3>2. mv[j].off \in Nat /\ mv[j].off < n /\ o[mv[j].off + 1].key = j BY <1>3, <1>5, <3>1
      <3>3. mv[j].off + 1 \in 1..n BY <1>1, <3>2
      <3>4. QED BY <1>2, <3>1, <3>2, <3>3
    <2>3. QED BY <2>1, <2>2
  <1>11. QED
    <2>1. \A i \in 1..Len(Out') :
              /\ Out'[i].val # Absent
              /\ merge'.moved[Out'[i].key] = [id |-> merge'.id, off |-> i - 1]
      <3> TAKE i \in 1..Len(Out')
      <3>1. q[i].val # Absent /\ nv[q[i].key] = [id |-> s, off |-> i - 1] BY <1>2, <1>9 DEF q
      <3>2. merge'.id = s OBVIOUS
      <3> HIDE DEF s
      <3>3. QED BY <3>1, <3>2, Zenon DEF q, nv
    <2>2. \A i \in 1..Len(Out') : Merging' =>
                    LET loc == merge'.view[Out'[i].key]
                    IN  loc # NoLoc /\ Out'[i] = Old'[loc.id][loc.off + 1]
      <3> TAKE i \in 1..Len(Out')
      <3>1. Merging => of(q[i]) BY <1>2, <1>9 DEF q
      <3>2. of(q[i]) <=> LET loc == merge'.view[Out'[i].key]
                         IN  loc # NoLoc /\ Out'[i] = Old'[loc.id][loc.off + 1]
        BY Zenon DEF q, of
      <3>3. QED BY <1>8, <3>1, <3>2, Zenon
    <2>3. \A j \in Keys : merge'.moved[j] # NoLoc => Out'[merge'.moved[j].off + 1].key = j
      BY <1>10, Zenon DEF q, nv
    <2>4. QED BY <2>1, <2>2, <2>3 DEF OutInv

LEMMA AddToPartKeepsRec ==
    ASSUME Inv, Inv', RecInv, up, merge.kind \in {"background", "restore"}, merge.stage = "copy",
           NEW k \in Keys, NEW rec \in Record, rec.key = k, rec.val # Absent,
           merge.moved[k] = NoLoc, AddToPart(k, rec),
           merge.kind = "background" =>
               /\ merge.view[k] # NoLoc
               /\ rec = Old[merge.view[k].id][merge.view[k].off + 1]
    PROVE  RecInv'
  <1>1. /\ merge' = [merge EXCEPT !.part = Append(@, rec),
                        !.moved[k] = [id |-> merge.id, off |-> Len(merge.part)]]
        /\ UNCHANGED <<dir, data, durable, up, keydir, w, history, kern>>
    BY DEF AddToPart, disk, index, ghost
  <1>2. /\ merge'.kind = merge.kind /\ merge'.stage = "copy" /\ merge'.id = merge.id
        /\ merge'.old = merge.old /\ merge'.cur = merge.cur /\ merge'.view = merge.view
        /\ merge'.part = Append(merge.part, rec)
        /\ merge'.moved = [merge.moved EXCEPT ![k] = [id |-> merge.id, off |-> Len(merge.part)]]
    BY <1>1 DEF Inv, TypeOK, Merge
  <1>3. merge.id \in Id /\ TypeOK /\ CopyInv /\ FilesOK BY FilesAre DEF Inv, MergeInv
  <1>4. Out = merge.part /\ Out' = Append(Out, rec) BY <1>2 DEF Out
  <1>5. Old' = Old BY <1>1, <1>2 DEF Old
  <1>6. OutInv'
    <2>1. OutInv /\ merge.kind # "none" BY DEF RecInv
    <2>2. Merging => merge.view[k] # NoLoc
                      /\ rec = Old[merge.view[k].id][merge.view[k].off + 1]
      BY DEF Merging
    <2>3. QED BY <1>2, <1>3, <1>4, <1>5, <2>1, <2>2, OutGrows
  <1>7. Kernel' = Kernel BY <1>1 DEF Kernel, Held
  <1>8. Standing' = Standing /\ Indexed' = Indexed
    <2>1. Standing' = Kernel /\ Standing = Kernel BY <1>2, <1>7 DEF Standing
    <2>2. QED BY <1>2, <2>1 DEF Indexed
  <1>9. ServingInv'
    <2>1. Serving' => Serving BY <1>1, <1>2 DEF Serving, RestoreInPlace
    <2>2. QED BY <1>1, <1>8, <2>1, ServingSame DEF RecInv
  <1>10. ViewInv' /\ DeadInv' /\ SlotInv' /\ RestoreInv'
    <2>1. ViewInv' BY <1>2, <1>5 DEF RecInv, ViewInv, Merging
    <2>2. DeadInv' BY <1>2 DEF DeadInv
    <2>3. SlotInv' BY <1>1, <1>2 DEF RecInv, SlotInv
    <2>4. RestoreInv' BY <1>1, <1>2 DEF RecInv, RestoreInv
    <2>5. QED BY <2>1, <2>2, <2>3, <2>4
  <1>11. CompactInv' /\ DownInv' BY <1>1, <1>2 DEF CompactInv, DownInv
  <1>12. QED BY <1>6, <1>9, <1>10, <1>11 DEF RecInv

LEMMA JobCopyKeepsRec == ASSUME Inv, Inv', RecInv, NEW k \in Keys, JobCopy(k) PROVE RecInv'
  <1> DEFINE l == merge.view[k]
             rec == data[l.id][l.off + 1]
  <1>1. /\ up /\ merge.kind = "background" /\ merge.stage = "copy"
        /\ l # NoLoc /\ merge.moved[k] = NoLoc /\ AddToPart(k, rec)
    BY DEF JobCopy, Compacting
  <1>2. merge.id \in Id /\ FilesOK BY <1>1, FilesAre DEF Inv, MergeInv
  <1>3. Points(Old, k, l) BY <1>1, SMTT(40) DEF RecInv, ViewInv, Merging
  <1>4. /\ Old[l.id] = data[l.id] /\ Old[l.id][l.off + 1] \in Record
        /\ Old[l.id][l.off + 1].key = k /\ Old[l.id][l.off + 1].val # Absent
    BY <1>1, <1>2, <1>3, ViewRecord
  <1>5. rec \in Record /\ rec.key = k /\ rec.val # Absent /\ rec = Old[l.id][l.off + 1] BY <1>4
  <1> HIDE DEF rec
  <1>6. QED BY <1>1, <1>5, AddToPartKeepsRec

LEMMA RestorePushKeepsRec ==
    ASSUME Inv, Inv', RecInv, NEW k \in Keys, NEW v \in Values, RestorePush(k, v) PROVE RecInv'
  <1> DEFINE rec == [key |-> k, val |-> v]
  <1>1. /\ up /\ merge.kind = "restore" /\ merge.stage = "copy"
        /\ merge.moved[k] = NoLoc /\ AddToPart(k, rec)
    BY DEF RestorePush, Restoring
  <1>2. rec \in Record /\ rec.key = k /\ rec.val # Absent BY AbsentAssumption DEF Record
  <1> HIDE DEF rec
  <1>3. QED BY <1>1, <1>2, AddToPartKeepsRec

LEMMA CopyRecordKeepsRec == ASSUME Inv, Inv', RecInv, NEW k \in Keys, CopyRecord(k) PROVE RecInv'
  <1> DEFINE m == merge.id
             d == data[m]
             p == merge.part
             l == merge.view[k]
             rec == data[l.id][l.off + 1]
             full == Len(p) + 1 >= MaxPending
             f == IF full THEN d \o Append(p, rec) ELSE d
             q == IF full THEN <<>> ELSE Append(p, rec)
             mv == [merge.moved EXCEPT ![k] = [id |-> m, off |-> Len(d) + Len(p)]]
  <1>1. /\ up /\ merge.kind = "compact" /\ merge.stage = "copy"
        /\ l # NoLoc /\ merge.moved[k] = NoLoc
        /\ UNCHANGED <<dir, durable, up, keydir, w, history, kern>>
    BY DEF CopyRecord, LiveKeys, index, ghost
  <1>2. /\ TypeOK /\ m \in Id /\ merge \in Merge /\ p \in Seq(Record) /\ d \in Seq(Record)
        /\ Out = d \o p /\ Len(Out) = Len(d) + Len(p)
    BY <1>1, CopyingFacts
  <1>3. FilesOK /\ CopyInv /\ OutInv /\ merge.kind # "none" BY <1>1, FilesAre DEF Inv, RecInv
  <1>4. data \in [Id -> Seq(Record)] BY <1>2 DEF TypeOK
  <1>5. data' = [data EXCEPT ![m] = f] /\ merge' = [merge EXCEPT !.part = q, !.moved = mv]
    BY <1>2, <1>4 DEF CopyRecord, Merge
  <1>6. Points(Old, k, l) BY <1>1 DEF RecInv, ViewInv, Merging
  <1>7. /\ Old[l.id] = data[l.id] /\ Old[l.id][l.off + 1] \in Record
        /\ Old[l.id][l.off + 1].key = k /\ Old[l.id][l.off + 1].val # Absent
    BY <1>1, <1>2, <1>3, <1>6, ViewRecord
  <1>8. rec \in Record /\ rec.key = k /\ rec.val # Absent /\ rec = Old[l.id][l.off + 1] BY <1>7
  <1> HIDE DEF rec
  <1>9. f \o q = Append(Out, rec)
    <2>1. /\ d \o Append(p, rec) = Append(d \o p, rec)
          /\ (d \o Append(p, rec)) \o <<>> = d \o Append(p, rec)
      BY <1>2, <1>8, AppendToTail
    <2>2. CASE full
      <3>1. f = d \o Append(p, rec) /\ q = <<>> BY <2>2
      <3>2. QED BY <1>2, <2>1, <3>1
    <2>3. CASE ~full
      <3>1. f = d /\ q = Append(p, rec) BY <2>3
      <3>2. QED BY <1>2, <2>1, <3>1
    <2>4. QED BY <2>2, <2>3
  <1> HIDE DEF f, q, mv
  <1>10. /\ merge'.kind = "compact" /\ merge'.stage = "copy" /\ merge'.id = m
         /\ merge'.old = merge.old /\ merge'.cur = merge.cur /\ merge'.view = merge.view
         /\ merge'.part = q /\ merge'.moved = mv
    BY <1>1, <1>2, <1>5 DEF Merge
  <1>11. data'[m] = f /\ \A id \in Id : id < m => data'[id] = data[id]
    <2>1. \A id \in Id : id < m => id # m BY <1>2, BoundsAssumption DEF Id
    <2>2. QED BY <1>2, <1>4, <1>5, <2>1
  <1>12. Out' = Append(Out, rec) BY <1>9, <1>10, <1>11 DEF Out
  <1>13. Old' = Old
    <2>1. Old' = Under(data', m) BY <1>10 DEF Old
    <2>2. QED BY <1>11, <2>1 DEF Old, Under
  <1>14. OutInv'
    <2>1. merge'.moved = [merge.moved EXCEPT ![k] = [id |-> merge.id, off |-> Len(Out)]]
      BY <1>2, <1>10 DEF mv
    <2>2. QED BY <1>1, <1>2, <1>3, <1>8, <1>10, <1>12, <1>13, <2>1, OutGrows, Zenon
  <1>15. ViewInv' BY <1>1, <1>10, <1>13 DEF RecInv, ViewInv, Merging
  <1>16. SlotInv' BY <1>1, <1>10 DEF RecInv, SlotInv
  <1>17. CompactInv' BY <1>1, <1>10, <1>13 DEF RecInv, CompactInv
  <1>18. ServingInv' /\ DeadInv' /\ RestoreInv' /\ DownInv'
    BY <1>1, <1>10 DEF ServingInv, Serving, DeadInv, RestoreInv, DownInv
  <1>19. QED BY <1>14, <1>15, <1>16, <1>17, <1>18 DEF RecInv

(* No merge any more, and nothing before its slot.                         *)
LEMMA NoMergeKeeps ==
    ASSUME merge' = NoMerge
    PROVE  /\ ViewInv' /\ DeadInv' /\ OutInv' /\ SlotInv' /\ RestoreInv' /\ CompactInv'
           /\ Standing' = Kernel'
           /\ (\A id \in Id : Indexed'[id] = Kernel'[id])
           /\ (Serving' <=> up')
  <1>1. merge'.kind = "none" /\ merge'.stage = "idle" BY DEF NoMerge
  <1>2. /\ ViewInv' /\ DeadInv' /\ OutInv' /\ SlotInv' /\ RestoreInv' /\ CompactInv'
    BY <1>1 DEF ViewInv, DeadInv, OutInv, SlotInv, RestoreInv, CompactInv, Merging
  <1>3. Standing' = Kernel' BY <1>1 DEF Standing
  <1>4. \A id \in Id : Indexed'[id] = Kernel'[id] BY <1>1, <1>3 DEF Indexed
  <1>5. Serving' <=> up' BY <1>1 DEF Serving, RestoreInPlace
  <1>6. QED BY <1>2, <1>3, <1>4, <1>5

LEMMA AbandonKeepsRec == ASSUME Inv, Inv', RecInv, Abandon PROVE RecInv'
  <1>1. /\ up /\ merge.kind \in {"background", "restore"} /\ merge.stage = "copy"
        /\ merge' = NoMerge /\ UNCHANGED <<dir, data, durable, up, keydir, w, history, kern>>
    BY DEF Abandon, Compacting, Restoring, disk, index, ghost
  <1>2. Kernel' = Kernel BY <1>1 DEF Kernel, Held
  <1>3. Standing' = Standing /\ Indexed' = Indexed
    <2>1. Standing = Kernel /\ Standing' = Kernel BY <1>1, <1>2, NoMergeKeeps DEF Standing
    <2>2. QED BY <1>1, <2>1 DEF Indexed, NoMerge
  <1>4. Serving BY <1>1 DEF Serving, RestoreInPlace
  <1>5. ServingInv' BY <1>1, <1>3, <1>4, ServingSame DEF RecInv
  <1>6. DownInv' BY <1>1 DEF DownInv
  <1>7. QED BY <1>1, <1>5, <1>6, NoMergeKeeps DEF RecInv

LEMMA FinishRestoreKeepsRec == ASSUME Inv, Inv', RecInv, FinishRestore PROVE RecInv'
  <1>1. /\ up /\ merge.kind = "restore" /\ merge.stage = "placed"
        /\ merge' = [merge EXCEPT !.stage = "unlink"]
        /\ UNCHANGED <<dir, data, durable, up, keydir, w, history, kern>>
    BY DEF FinishRestore, Restoring, disk, index, ghost
  <1>2. /\ merge'.kind = "restore" /\ merge'.stage = "unlink" /\ merge'.id = merge.id
        /\ merge'.old = merge.old /\ merge'.cur = merge.cur
        /\ merge'.moved = merge.moved /\ merge'.part = merge.part
    BY <1>1 DEF Inv, TypeOK, Merge
  <1>3. ServingInv' /\ CompactInv' /\ DownInv' /\ ViewInv' /\ DeadInv'
    BY <1>1, <1>2 DEF ServingInv, Serving, RestoreInPlace, CompactInv, DownInv,
                      ViewInv, DeadInv, Merging
  <1>4. OutInv'
    <2>1. Out' = Out BY <1>1, <1>2 DEF Out
    <2>2. ~Merging' BY <1>2 DEF Merging
    <2>3. QED BY <1>1, <1>2, <2>1, <2>2 DEF RecInv, OutInv
  <1>5. SlotInv' /\ RestoreInv' BY <1>1, <1>2 DEF RecInv, SlotInv, RestoreInv
  <1>6. QED BY <1>3, <1>4, <1>5 DEF RecInv

-----------------------------------------------------------------------------
(* Unlinking.                                                              *)

LEMMA UnlinkHintKeepsRec == ASSUME Inv, Inv', RecInv, NEW id \in Id, UnlinkHint(id) PROVE RecInv'
  <1>1. /\ up /\ merge.stage = "unlink" /\ merge.cur = 0 /\ id \in merge.old
        /\ merge' = [merge EXCEPT !.cur = id, !.old = @ \ {id}]
        /\ UNCHANGED <<dir, data, durable, up, keydir, w, history, kern>>
    BY DEF UnlinkHint, index, ghost
  <1>2. /\ merge'.kind = merge.kind /\ merge'.stage = "unlink" /\ merge'.id = merge.id
        /\ merge'.old = merge.old \ {id} /\ merge'.cur = id /\ merge'.gone = merge.gone
        /\ merge'.moved = merge.moved /\ merge'.part = merge.part
    BY <1>1 DEF Inv, TypeOK, Merge
  <1>3. Kernel' = Kernel /\ Old' = Old /\ Out' = Out BY <1>1, <1>2 DEF Kernel, Held, Old, Out
  <1>4. Standing' = Standing BY <1>1, <1>2, <1>3 DEF Standing
  <1>5. Indexed' = Indexed BY <1>1, <1>2, <1>4 DEF Indexed
  <1>6. ServingInv'
    <2>1. Serving' => Serving BY <1>1, <1>2 DEF Serving, RestoreInPlace
    <2>2. QED BY <1>1, <1>4, <1>5, <2>1, ServingSame DEF RecInv
  <1>7. CompactInv' BY <1>1, <1>2 DEF RecInv, CompactInv
  <1>8. ViewInv' BY <1>2 DEF ViewInv
  <1>9. DeadInv'
    <2>1. Merging' = Merging BY <1>2 DEF Merging
    <2>2. QED BY <1>1, <1>2, <1>3, <2>1 DEF RecInv, DeadInv
  <1>10. OutInv' BY <1>1, <1>2, <1>3 DEF RecInv, OutInv
  <1>11. SlotInv'
    <2>1. dir \subseteq Id /\ 0 \notin Id BY MergeFields DEF Inv, TypeOK
    <2>2. QED BY <1>1, <1>2, <2>1 DEF RecInv, SlotInv
  <1>12. RestoreInv' /\ DownInv' BY <1>1, <1>2 DEF RecInv, RestoreInv, DownInv
  <1>13. QED BY <1>6, <1>7, <1>8, <1>9, <1>10, <1>11, <1>12 DEF RecInv

LEMMA UnlinkDataKeepsRec == ASSUME Inv, Inv', RecInv, UnlinkData PROVE RecInv'
  <1> DEFINE c == merge.cur
             s == merge.id
  <1>1. /\ up /\ merge.stage = "unlink" /\ c # 0 /\ dir' = dir \ {c}
        /\ data' = [data EXCEPT ![c] = <<>>] /\ durable' = [durable EXCEPT ![c] = 0]
        /\ merge' = [merge EXCEPT !.cur = 0, !.gone = @ \cup {c}]
        /\ UNCHANGED <<up, keydir, w, history, kern>>
    BY DEF UnlinkData, index, ghost
  <1>2. /\ merge'.kind = merge.kind /\ merge'.stage = "unlink" /\ merge'.id = s
        /\ merge'.old = merge.old /\ merge'.cur = 0 /\ merge'.gone = merge.gone \cup {c}
        /\ merge'.moved = merge.moved /\ merge'.part = merge.part
    BY <1>1 DEF Inv, TypeOK, Merge
  <1>3. merge.kind # "none" BY <1>1 DEF Inv, MergeInv, NoMerge
  <1>4. TypeOK /\ FilesOK /\ FilesOK' /\ s \in Id /\ c \in Id /\ c < s /\ s # c
    <2>1. TypeOK /\ s \in Id /\ c < s /\ c \in 0..MaxId BY <1>3, MergeFields DEF Inv, MergeInv
    <2>2. c \in Id /\ s # c BY <1>1, <2>1, BoundsAssumption DEF Id
    <2>3. QED BY <2>1, <2>2, FilesAre, FilesAreNext DEF Inv
  <1>5. data \in [Id -> Seq(Record)] /\ durable \in [Id -> Nat] /\ dir \subseteq Id
    BY <1>4 DEF TypeOK
  <1> HIDE DEF c, s
  <1>6. /\ data'[c] = <<>> /\ \A id \in Id \ {c} : data'[id] = data[id] /\ durable'[id] = durable[id]
    BY <1>1, <1>4, <1>5
  <1>7. \A id \in Id : ~(id < s) => id # c BY <1>4
  <1>8. From(data', s) = From(data, s) BY <1>6, <1>7 DEF From
  <1>9. Standing' = Standing
    <2>1. \A id \in Id : ~(id < s) => Kernel'[id] = Kernel[id] BY <1>1, <1>6, <1>7 DEF Kernel, Held
    <2>2. Standing = From(Kernel, s) /\ Standing' = From(Kernel', s) BY <1>1, <1>2 DEF Standing, s
    <2>3. QED BY <2>1, <2>2 DEF From
  <1>10. Indexed' = Indexed BY <1>1, <1>2, <1>9 DEF Indexed
  <1>11. ServingInv'
    <2>1. Serving' => Serving BY <1>1, <1>2 DEF Serving, RestoreInPlace
    <2>2. CASE Serving'
      <3>1. ActiveOK BY <2>1, <2>2, ActiveFile DEF Serving
      <3>2. w.id \in Id /\ s < w.id BY <1>3, <3>1 DEF ActiveOK, s
      <3>3. w.id # c BY <1>4, <3>2, BoundsAssumption DEF Id
      <3>4. QED BY <1>1, <1>6, <1>9, <1>10, <2>1, <3>2, <3>3, ServingSame DEF RecInv
    <2>3. CASE ~Serving' BY <2>3 DEF ServingInv
    <2>4. QED BY <2>2, <2>3
  <1>12. CompactInv'
    <2>1. data'[s] = data[s] /\ durable'[s] = durable[s] BY <1>4, <1>6
    <2>2. QED BY <1>1, <1>2, <1>8, <2>1 DEF RecInv, CompactInv, s
  <1>13. ViewInv' BY <1>2 DEF ViewInv
  <1>14. DeadInv'
    <2> SUFFICES ASSUME Merging, NEW k \in Keys, NEW a, NEW i,
                        Place(Old', k, a, i), Old'[a][i].val # Absent
                 PROVE  \/ \E b, j : /\ Place(Old', k, b, j) /\ Old'[b][j].val = Absent
                                     /\ Before(a, i, b, j)
                        \/ \E j : Place(data', k, merge'.id, j)
                        \/ \E g \in merge'.gone : g > a
      BY <1>2 DEF DeadInv, Merging
    <2>1. /\ Old' = Under(data', s) /\ Old = Under(data, s) BY <1>2 DEF Old, s
    <2>2. \A id \in Id \ {c} : Old'[id] = Old[id] BY <1>6, <2>1 DEF Under
    <2>3. Old'[c] = <<>> BY <1>4, <1>6, <2>1 DEF Under
    <2>4. \A b, j : b # c => (Place(Old', k, b, j) <=> Place(Old, k, b, j)) BY <2>2 DEF Place
    <2>5. a # c /\ a \in Id /\ a \in Nat
      <3>1. a \in Id /\ i \in 1..Len(Old'[a]) BY DEF Place
      <3>2. \A j : j \notin 1..Len(<<>>) OBVIOUS
      <3>3. QED BY <2>3, <3>1, <3>2, BoundsAssumption DEF Id
    <2>6. Place(Old, k, a, i) /\ Old[a][i].val # Absent BY <2>2, <2>4, <2>5
    <2>7. \/ \E b, j : Place(Old, k, b, j) /\ Old[b][j].val = Absent /\ Before(a, i, b, j)
          \/ \E j : Place(data, k, s, j)
          \/ \E g \in merge.gone : g > a
      BY <1>1, <2>6 DEF RecInv, DeadInv, s
    <2>8. CASE \E b, j : Place(Old, k, b, j) /\ Old[b][j].val = Absent /\ Before(a, i, b, j)
      <3>1. PICK b, j : Place(Old, k, b, j) /\ Old[b][j].val = Absent /\ Before(a, i, b, j) BY <2>8
      <3>2. b \in Id BY <3>1 DEF Place
      <3>3. CASE b # c BY <2>2, <2>4, <3>1, <3>2, <3>3
      <3>4. CASE b = c
        <4>1. c > a BY <1>4, <2>5, <3>1, <3>4, BoundsAssumption DEF Before, Id
        <4>2. QED BY <1>2, <4>1
      <3>5. QED BY <3>3, <3>4
    <2>9. CASE \E j : Place(data, k, s, j) BY <1>2, <1>4, <1>6, <2>9 DEF Place
    <2>10. CASE \E g \in merge.gone : g > a BY <1>2, <2>10
    <2>11. QED BY <2>7, <2>8, <2>9, <2>10
  <1>15. OutInv'
    <2>1. Out' = Out BY <1>2, <1>4, <1>6 DEF Out, s
    <2>2. QED BY <1>1, <1>2, <1>3, <2>1 DEF RecInv, OutInv, s
  <1>16. SlotInv'
    <2>1. data'[s] = data[s] BY <1>4, <1>6
    <2>2. QED BY <1>1, <1>2, <1>3, <2>1 DEF RecInv, SlotInv, s, c
  <1>17. RestoreInv' /\ DownInv' BY <1>1, <1>2 DEF RecInv, RestoreInv, DownInv, s
  <1>18. QED BY <1>11, <1>12, <1>13, <1>14, <1>15, <1>16, <1>17 DEF RecInv

-----------------------------------------------------------------------------
(* Ending a merge.                                                         *)

(* A merge's file, however much of it there is, shows what is before it.   *)
LEMMA CopiesHold ==
    ASSUME TypeOK, FilesOK, OutInv, ViewInv, Merging, merge.stage # "unlink", merge.id \in Id,
           NEW F \in [Id -> Seq(Record)], NEW G \in [Id -> Seq(Record)],
           F[merge.id] = <<>>, \A id \in Id \ {merge.id} : F[id] = G[id],
           \A id \in Id : id < merge.id => F[id] = data[id],
           Grows(G[merge.id], Out), NEW c, Holds(F, c)
    PROVE  Holds(G, c)
  <1> DEFINE s == merge.id
             o == Out
             v(k) == merge.view[k]
  <1>1. o \in Seq(Record) /\ Len(o) \in Nat /\ G[s] \in Seq(Record) /\ Len(G[s]) \in Nat
    BY OutIsSeq, LenProperties DEF Merging
  <1>2. /\ Len(G[s]) <= Len(o)
        /\ \A i \in 1..Len(G[s]) : o[i] = G[s][i]
    BY DEF Grows
  <1>3. \A i \in 1..Len(o) :
              /\ merge.moved[o[i].key] = [id |-> s, off |-> i - 1]
              /\ v(o[i].key) # NoLoc /\ o[i] = Old[v(o[i].key).id][v(o[i].key).off + 1]
    BY DEF OutInv, Merging
  <1>4. Under(F, s) = Old BY DEF Under, Old
  <1>5. s \in Id /\ F[s] = <<>> /\ \A id \in Id \ {s} : F[id] = G[id] OBVIOUS
  <1>6. \A k \in Keys : Points(Old, k, v(k)) BY DEF ViewInv
  <1> HIDE DEF s, o, v
  <1>7. ASSUME NEW k \in Keys PROVE Reads(G, k, c[k])
    <2>1. Points(Under(F, s), k, v(k)) BY <1>4, <1>6
    <2>2. ASSUME NEW i, Place(G, k, s, i)
          PROVE  /\ i \in 1..Len(o) /\ o[i] = G[s][i] /\ o[i].key = k
                 /\ v(k) # NoLoc /\ G[s][i] = F[v(k).id][v(k).off + 1]
      <3>1. i \in 1..Len(G[s]) /\ G[s][i].key = k BY <2>2 DEF Place
      <3>2. i \in 1..Len(o) /\ o[i] = G[s][i] BY <1>1, <1>2, <3>1
      <3>3. v(k) # NoLoc /\ G[s][i] = Old[v(k).id][v(k).off + 1] BY <1>3, <3>1, <3>2
      <3>4. v(k).id \in Id /\ v(k).id < s /\ Old[v(k).id] = data[v(k).id]
        <4>1. Points(Old, k, v(k)) BY <1>6
        <4>2. QED BY <3>3, <4>1, ViewRecord DEF s
      <3>5. F[v(k).id] = data[v(k).id] BY <3>4 DEF s
      <3>6. QED BY <3>1, <3>2, <3>3, <3>4, <3>5
    <2>3. \A i : Place(G, k, s, i) => v(k) # NoLoc /\ G[s][i] = F[v(k).id][v(k).off + 1] BY <2>2
    <2>4. ASSUME NEW i, NEW j, Place(G, k, s, i), Place(G, k, s, j) PROVE i = j
      <3>1. i \in 1..Len(o) /\ j \in 1..Len(o) /\ o[i].key = k /\ o[j].key = k BY <2>2, <2>4
      <3>2. [id |-> s, off |-> i - 1] = [id |-> s, off |-> j - 1] BY <1>3, <3>1
      <3>3. i - 1 = j - 1 BY <3>2
      <3>4. QED BY <1>1, <3>1, <3>3
    <2>5. Reads(F, k, c[k]) BY DEF Holds
    <2>6. \A i, j : Place(G, k, s, i) /\ Place(G, k, s, j) => i = j BY <2>4
    <2> DEFINE l == v(k)
               x == c[k]
    <2>7. /\ Points(Under(F, s), k, l) /\ Reads(F, k, x)
          /\ \A i : Place(G, k, s, i) => l # NoLoc /\ G[s][i] = F[l.id][l.off + 1]
      BY <2>1, <2>3, <2>5
    <2> HIDE DEF l, x
    <2>8. Reads(G, k, x) BY <1>5, <2>6, <2>7, Overlay
    <2>9. QED BY <2>8 DEF x
  <1>8. QED BY <1>7 DEF Holds

(* Once everything in the view has been copied, a key is erased before the *)
(* slot or has its copy.                                                   *)
LEMMA ErasedOrCopied ==
    ASSUME TypeOK, CopyInv, OutInv, ViewInv, Merging, merge.stage # "unlink", merge.id \in Id,
           \A k \in LiveKeys(merge.view) : merge.moved[k] # NoLoc, NEW k \in Keys
    PROVE  Erased(Old, k) \/ \E j \in 1..Len(Out) : Out[j].key = k
  <1>1. Points(Old, k, merge.view[k]) BY DEF ViewInv
  <1>2. CASE merge.view[k] = NoLoc BY <1>1, <1>2 DEF Points
  <1>3. CASE merge.view[k] # NoLoc
    <2> DEFINE j == merge.moved[k].off + 1
    <2>1. merge.moved[k] # NoLoc /\ merge.moved[k] \in Location \cup {NoLoc} /\ merge.kind # "none"
      BY <1>3, MergeFields DEF LiveKeys, Index, Merging
    <2>2. merge.moved[k].off \in Nat /\ merge.moved[k].off < Len(Out) /\ Out[j].key = k
      BY <2>1 DEF CopyInv, OutInv, Location
    <2>3. j \in 1..Len(Out) BY <2>1, <2>2, OutIsSeq
    <2>4. QED BY <2>2, <2>3
  <1>4. QED BY <1>2, <1>3

LEMMA CopiesSuffice ==
    ASSUME TypeOK, FilesOK, merge.id \in Id,
           \A k \in Keys : Erased(Old, k) \/ \E j \in 1..Len(Out) : Out[j].key = k,
           NEW G \in [Id -> Seq(Record)], G[merge.id] = Out,
           \A id \in Id : id < merge.id => G[id] = data[id], NEW c, Holds(G, c)
    PROVE  Holds(From(G, merge.id), c)
  <1> DEFINE s == merge.id
  <1>1. Under(G, s) = Old /\ s \in Id /\ Old \in [Id -> Seq(Record)] BY DEF Under, Old, FilesOK
  <1> HIDE DEF s
  <1>2. ASSUME NEW k \in Keys PROVE Reads(From(G, s), k, c[k])
    <2>1. ASSUME NEW a, NEW i, Ends(Under(G, s), k, a, i) PROVE \E j : Place(G, k, s, j)
      <3>1. ~Erased(Old, k) BY <1>1, <2>1, EndIsNotErased
      <3>2. PICK j \in 1..Len(Out) : Out[j].key = k BY <3>1
      <3>3. Place(G, k, s, j) BY <3>2 DEF Place, s
      <3>4. QED BY <3>3
    <2>2. \A a, i : Ends(Under(G, s), k, a, i) => \E j : Place(G, k, s, j) BY <2>1
    <2> DEFINE x == c[k]
    <2>3. Reads(G, k, x) BY DEF Holds
    <2> HIDE DEF x
    <2>4. Reads(From(G, s), k, x) BY <1>1, <2>2, <2>3, Drop
    <2>5. QED BY <2>4 DEF x
  <1>3. QED BY <1>2 DEF Holds, s

(* Nothing before the slot comes back to life: its file has been made.     *)
LEMMA NoneIsAlive ==
    ASSUME merge'.id = merge.id, Old' = Old, data'[merge.id] = Out, merge.id \in Id,
           \A k \in Keys : Erased(Old, k) \/ \E j \in 1..Len(Out) : Out[j].key = k
    PROVE  DeadInv'
  <1>1. ASSUME NEW k \in Keys, NEW a, NEW i, Place(Old', k, a, i), Old'[a][i].val # Absent
        PROVE  \/ \E b, j : /\ Place(Old', k, b, j) /\ Old'[b][j].val = Absent
                            /\ Before(a, i, b, j)
               \/ \E j : Place(data', k, merge'.id, j)
    <2>1. CASE Erased(Old, k) BY <1>1, <2>1 DEF Erased
    <2>2. CASE \E j \in 1..Len(Out) : Out[j].key = k BY <2>2 DEF Place
    <2>3. QED BY <2>1, <2>2
  <1>2. QED BY <1>1 DEF DeadInv

(* The file of a merge, alone, is what the copies' places are places in.   *)
LEMMA OutPoints ==
    ASSUME TypeOK, CopyInv, OutInv, merge.kind # "none", merge.id \in Id,
           NEW G \in [Id -> Seq(Record)], G[merge.id] = Out,
           \A id \in Id \ {merge.id} : G[id] = <<>>, NEW k \in Keys
    PROVE  Points(G, k, merge.moved[k])
  <1> DEFINE s == merge.id
             o == Out
             m == merge.moved[k]
  <1>1. /\ o \in Seq(Record) /\ Len(o) \in Nat /\ G[s] = o /\ s \in Id
        /\ m \in Location \cup {NoLoc}
    BY OutIsSeq, MergeFields DEF Index
  <1>2. ASSUME NEW b, NEW j, Place(G, k, b, j)
        PROVE  /\ b = s /\ j \in 1..Len(o) /\ o[j].key = k /\ o[j].val # Absent
               /\ m = [id |-> s, off |-> j - 1]
    <2>1. b \in Id /\ j \in 1..Len(G[b]) /\ G[b][j].key = k BY <1>2 DEF Place
    <2>2. b = s
      <3>1. Len(<<>>) = 0 OBVIOUS
      <3>2. QED BY <2>1, <3>1
    <2>3. QED BY <1>1, <2>1, <2>2 DEF OutInv
  <1>3. m # NoLoc => m.id = s /\ m.off < Len(o) /\ o[m.off + 1].key = k BY DEF CopyInv, OutInv
  <1> HIDE DEF s, o, m
  <1>4. CASE m = NoLoc
    <2>1. \A b, j : ~Place(G, k, b, j)
      <3> SUFFICES ASSUME NEW b, NEW j, Place(G, k, b, j) PROVE FALSE OBVIOUS
      <3>1. [id |-> s, off |-> j - 1] = [id |-> 0, off |-> 0] BY <1>2, <1>4 DEF NoLoc
      <3>2. s = 0 BY <3>1
      <3>3. QED BY <1>1, <3>2, BoundsAssumption DEF Id
    <2>2. Erased(G, k) BY <2>1 DEF Erased
    <2>3. QED BY <1>4, <2>2 DEF Points, m
  <1>5. CASE m # NoLoc
    <2>1. m.off \in Nat /\ m.off + 1 \in 1..Len(o) /\ o[m.off + 1].key = k /\ m.id = s
      BY <1>1, <1>3, <1>5 DEF Location
    <2>2. Place(G, k, s, m.off + 1) BY <1>1, <2>1 DEF Place
    <2>3. G[s][m.off + 1].val # Absent BY <1>1, <1>2, <2>2
    <2>4. ASSUME NEW b, NEW j, Place(G, k, b, j) PROVE Before(b, j, s, m.off + 1)
      <3>1. b = s /\ m = [id |-> s, off |-> j - 1] /\ j \in Nat BY <1>1, <1>2, <2>4
      <3>2. m.off = j - 1 BY <3>1
      <3>3. j <= m.off + 1 BY <3>1, <3>2
      <3>4. QED BY <3>1, <3>3 DEF Before
    <2>5. Ends(G, k, m.id, m.off + 1) BY <2>1, <2>2, <2>3, <2>4 DEF Ends
    <2>6. QED BY <1>5, <2>5 DEF Points, m
  <1>6. QED BY <1>4, <1>5

(* The file that compact writes is the newest.                             *)
LEMMA MergedIsNewest ==
    ASSUME Inv, up, merge.kind = "compact"
    PROVE  \A id \in Id : id > merge.id => data[id] = <<>> /\ id \notin dir
  <1> TAKE id \in Id
  <1> HAVE id > merge.id
  <1>1. /\ FilesInv /\ merge.id \in Id /\ merge.old = readers /\ dir = readers \cup Unread
        /\ \A x \in merge.old \cup {merge.cur} : x < merge.id
    BY CopyingFacts
  <1>2. ASSUME id \in dir PROVE FALSE
    <2>1. id \in readers \/ id = merge.id \/ id = merge.cur BY <1>1, <1>2 DEF Unread
    <2>2. id < merge.id \/ id = merge.id BY <1>1, <2>1
    <2>3. QED BY <1>1, <2>2, BoundsAssumption DEF Id
  <1>3. QED BY <1>1, <1>2 DEF FilesInv

LEMMA SyncMergedKeepsRec ==
    ASSUME Inv, Inv', RecInv, NEW hinted \in BOOLEAN, SyncMerged(hinted) PROVE RecInv'
  <1> DEFINE s == merge.id
             o == Out
             G == data'
  <1>1. /\ up /\ merge.kind = "compact" /\ merge.stage = "copy"
        /\ \A k \in LiveKeys(merge.view) : merge.moved[k] # NoLoc
        /\ data' = [data EXCEPT ![s] = data[s] \o merge.part]
        /\ durable' = [durable EXCEPT ![s] = Len(data[s] \o merge.part)]
        /\ merge' = [merge EXCEPT !.part = <<>>, !.stage = "unlink"]
        /\ UNCHANGED <<dir, up, keydir, w, history, kern>>
    BY DEF SyncMerged, index, ghost
  <1>2. /\ TypeOK /\ s \in Id /\ merge \in Merge /\ o = data[s] \o merge.part
        /\ o \in Seq(Record)
    BY <1>1, CopyingFacts
  <1>3. FilesOK /\ FilesOK' /\ CopyInv /\ OutInv /\ ViewInv /\ Merging
    BY <1>1, <1>2, FilesAre, FilesAreNext DEF Inv, RecInv, Merging
  <1>4. /\ merge'.kind = "compact" /\ merge'.stage = "unlink" /\ merge'.id = s
        /\ merge'.old = merge.old /\ merge'.cur = merge.cur /\ merge'.part = <<>>
        /\ merge'.moved = merge.moved
    BY <1>1, <1>2 DEF Merge
  <1> HIDE DEF o
  <1>5. data \in [Id -> Seq(Record)] /\ durable \in [Id -> Nat] BY <1>2 DEF TypeOK
  <1>6. /\ G \in [Id -> Seq(Record)] /\ G[s] = o /\ \A id \in Id \ {s} : G[id] = data[id]
        /\ durable'[s] = Len(o)
    BY <1>1, <1>2, <1>5
  <1>7. Out' = o
    <2>1. o \o <<>> = o BY <1>2, ConcatEmptySeq
    <2>2. QED BY <1>4, <1>6, <2>1 DEF Out
  <1>8. \A id \in Id : (id < s => id # s) /\ (~(id < s) /\ id # s => id > s)
    BY <1>2, BoundsAssumption DEF Id
  <1>9. /\ Old \in [Id -> Seq(Record)] /\ Old[s] = <<>> /\ \A id \in Id \ {s} : Old[id] = G[id]
        /\ \A id \in Id : id < s => Old[id] = data[id]
    <2>1. \A id \in Id : Old[id] = IF id < s THEN data[id] ELSE <<>> BY DEF Old, Under
    <2>2. \A id \in Id : id > s => data[id] = <<>> BY <1>1, MergedIsNewest
    <2>3. QED BY <1>2, <1>3, <1>6, <1>8, <2>1, <2>2 DEF FilesOK
  <1>10. Old' = Old
    <2>1. Old' = Under(G, s) BY <1>4 DEF Old
    <2>2. QED BY <1>6, <1>8, <2>1 DEF Old, Under
  <1>11. \A k \in Keys : Erased(Old, k) \/ \E j \in 1..Len(Out) : Out[j].key = k
    BY <1>1, <1>2, <1>3, ErasedOrCopied
  <1> HIDE DEF G
  <1>12. Holds(G, Last(history))
    <2> DEFINE c == Last(history)
    <2>1. Holds(Old, c) BY <1>1 DEF RecInv, CompactInv
    <2>2. Grows(G[merge.id], Out) BY <1>2, <1>6, GrowsFacts DEF o
    <2> DEFINE F == Old
    <2>3. /\ F \in [Id -> Seq(Record)] /\ F[merge.id] = <<>>
          /\ \A id \in Id \ {merge.id} : F[id] = G[id]
          /\ \A id \in Id : id < merge.id => F[id] = data[id]
          /\ Holds(F, c)
      BY <1>9, <2>1
    <2> HIDE DEF c, F
    <2>4. Holds(G, c) BY <1>1, <1>2, <1>3, <1>6, <2>2, <2>3, CopiesHold
    <2>5. QED BY <2>4 DEF c
  <1>13. Holds(From(G, s), Last(history))
    <2> DEFINE c == Last(history)
    <2>1. G[merge.id] = Out /\ Holds(G, c) /\ \A id \in Id : id < merge.id => G[id] = data[id]
      BY <1>6, <1>8, <1>12 DEF o
    <2> HIDE DEF c
    <2>2. QED BY <1>2, <1>3, <1>6, <1>11, <2>1, CopiesSuffice DEF c
  <1>14. CompactInv' BY <1>1, <1>4, <1>6, <1>13 DEF CompactInv, G
  <1>15. DeadInv' BY <1>2, <1>4, <1>6, <1>10, <1>11, NoneIsAlive DEF o, G
  <1>16. OutInv' BY <1>1, <1>3, <1>4, <1>7 DEF OutInv, o
  <1>17. SlotInv' BY <1>1, <1>4 DEF RecInv, SlotInv
  <1>18. ServingInv' /\ ViewInv' /\ RestoreInv' /\ DownInv'
    BY <1>1, <1>4 DEF ServingInv, Serving, ViewInv, RestoreInv, DownInv
  <1>19. QED BY <1>14, <1>15, <1>16, <1>17, <1>18 DEF RecInv

LEMMA EndCompactKeepsRec == ASSUME Inv, Inv', RecInv, EndCompact PROVE RecInv'
  <1> DEFINE s == merge.id
             f == data[s]
             n == durable[s]
  <1>1. /\ up /\ merge.kind = "compact" /\ merge.stage = "unlink" /\ merge.cur = 0
        /\ merge.old = {}
        /\ keydir' = merge.moved /\ w' = Attach(s, OpenWriter(f, n)) /\ merge' = NoMerge
        /\ UNCHANGED <<dir, data, durable, up, history, kern>>
    BY DEF EndCompact, disk, ghost
  <1>2. /\ TypeOK /\ FilesInv /\ s \in Id /\ merge.old = readers /\ f \in Seq(Record)
        /\ Out = f /\ dir = readers \cup Unread
    BY <1>1, CopyingFacts
  <1>3. dir = {s} BY <1>1, <1>2 DEF Unread
  <1>4. w'.id = s /\ w'.offset = Len(f) /\ w'.pending = <<>> BY <1>1 DEF Attach, OpenWriter
  <1>5. FilesOK' /\ ActiveOK' /\ up' /\ CopyInv /\ OutInv /\ data \in [Id -> Seq(Record)]
    <2>1. (merge.kind # "compact")' BY <1>1 DEF NoMerge
    <2>2. QED BY <1>1, <1>2, <2>1, FilesAreNext, ActiveFileNext DEF Inv, RecInv, TypeOK
  <1>6. \A id \in Id \ {s} : data[id] = <<>> BY <1>2, <1>3 DEF FilesInv
  <1>7. \A id \in Id : Kernel'[id] = data[id]
    <2>1. Kernel'[s] = data[s]
      <3>1. Kernel'[s] = data[s] \o <<>> BY <1>1, <1>2, <1>4, <1>5 DEF ActiveOK
      <3>2. QED BY <1>2, <3>1, ConcatEmptySeq
    <2>2. \A id \in Id \ {s} : Kernel'[id] = data[id] BY <1>1, <1>4, <1>5 DEF ActiveOK
    <2>3. QED BY <2>1, <2>2
  <1>8. Kernel' = data /\ Standing' = data /\ Indexed' = data
    <2>1. Kernel' \in [Id -> Seq(Record)] /\ Indexed' \in [Id -> Seq(Record)] BY <1>5 DEF FilesOK
    <2>2. Standing' = Kernel' /\ \A id \in Id : Indexed'[id] = Kernel'[id] BY <1>1, NoMergeKeeps
    <2>3. Kernel' = data BY <1>5, <1>7, <2>1, SameFiles
    <2>4. QED BY <1>5, <1>7, <2>1, <2>2, <2>3, SameFiles
  <1>9. From(data, s) = data
    <2>1. \A id \in Id : id < s => id # s BY <1>2, BoundsAssumption DEF Id
    <2>2. \A id \in Id : From(data, s)[id] = data[id] BY <1>6, <2>1 DEF From
    <2>3. From(data, s) \in [Id -> Seq(Record)] BY <1>2, <1>5, UnderIs
    <2>4. QED BY <1>5, <2>2, <2>3, SameFiles
  <1>10. Holds(data, Last(history)) /\ n = Len(f) BY <1>1, <1>9 DEF RecInv, CompactInv
  <1>11. Promised'
    <2>1. Holds(Standing, Last(history))' BY <1>1, <1>8, <1>10
    <2>2. (durable[w.id] = w.offset)' BY <1>1, <1>4, <1>10
    <2>3. QED BY <1>5, <2>1, <2>2, PromisedWholeNext
  <1>12. \A k \in Keys : Points(Indexed', k, keydir'[k])
    <2> TAKE k \in Keys
    <2>1. merge.kind # "none" /\ data[merge.id] = Out /\ \A id \in Id \ {merge.id} : data[id] = <<>>
      BY <1>1, <1>2, <1>6
    <2> DEFINE G == data
    <2> HIDE DEF G
    <2>2. G \in [Id -> Seq(Record)] /\ G[merge.id] = Out /\ \A id \in Id \ {merge.id} : G[id] = <<>>
      BY <1>5, <2>1 DEF G
    <2>3. Points(G, k, merge.moved[k]) BY <1>2, <1>5, <2>1, <2>2, OutPoints
    <2>4. QED BY <1>1, <1>8, <2>3 DEF G
  <1>13. ServingInv' BY <1>11, <1>12 DEF ServingInv
  <1>14. DownInv' BY <1>5 DEF DownInv
  <1>15. QED BY <1>1, <1>13, <1>14, NoMergeKeeps DEF RecInv

LEMMA EndRestoreKeepsRec == ASSUME Inv, Inv', RecInv, EndRestore PROVE RecInv'
  <1> DEFINE s == merge.id
             c == ReadBack(merge.moved)
  <1>1. /\ up /\ merge.kind = "restore" /\ merge.stage = "unlink" /\ merge.cur = 0
        /\ merge.old = {}
        /\ keydir' = merge.moved /\ history' = <<c>> /\ kern' = 1 /\ merge' = NoMerge
        /\ UNCHANGED <<dir, data, durable, up, w>>
    BY DEF EndRestore, disk
  <1>2. /\ TypeOK /\ FilesInv /\ s \in Id /\ data[s] = merge.part /\ Out = data[s]
        /\ CopyInv /\ OutInv /\ data \in [Id -> Seq(Record)]
    BY <1>1 DEF Inv, MergeInv, Out, TypeOK, RecInv
  <1>3. ActiveOK /\ FilesOK /\ ActiveOK' /\ FilesOK' /\ up'
    <2>1. (merge.kind # "compact")' BY <1>1 DEF NoMerge
    <2>2. QED BY <1>1, <1>2, <2>1, FilesAreNext, ActiveFileNext, FilesAre, ActiveFile DEF Inv
  <1>4. w.offset = 0 /\ \A id \in dir : id > s => id = w.id BY <1>1 DEF RecInv, RestoreInv
  <1>5. /\ data[w.id] = <<>> /\ Kernel[w.id] = <<>> /\ durable[w.id] = 0 /\ w.id # s
    <2>1. Len(data[w.id]) = 0 /\ Len(Kernel[w.id]) = 0 /\ durable[w.id] = 0
      <3>1. /\ w.written \in Nat /\ durable[w.id] \in Nat /\ w.offset = Len(Kernel[w.id])
            /\ w.written = Len(data[w.id]) /\ durable[w.id] <= w.written /\ w.written <= w.offset
        BY <1>3 DEF ActiveOK
      <3>2. QED BY <1>4, <3>1
    <2>2. data[w.id] \in Seq(Record) /\ Kernel[w.id] \in Seq(Record) /\ w.id \in Id /\ s < w.id
      BY <1>1, <1>3 DEF ActiveOK, FilesOK
    <2>3. QED BY <2>1, <2>2, EmptySeq, BoundsAssumption DEF Id
  <1>6. \A id \in Id \ {s} : data[id] = <<>>
    <2> TAKE id \in Id \ {s}
    <2>1. CASE id \in dir /\ id < s
      <3>1. id \in {} \cup {0} BY <1>1, <2>1 DEF RecInv, SlotInv
      <3>2. QED BY <1>2, <3>1, MergeFields
    <2>2. CASE id \in dir /\ id > s BY <1>4, <1>5, <2>2
    <2>3. CASE id \notin dir BY <1>2, <2>3 DEF FilesInv
    <2>4. id < s \/ id > s BY <1>2, BoundsAssumption DEF Id
    <2>5. QED BY <2>1, <2>2, <2>3, <2>4
  <1>7. Kernel' = data /\ Standing' = data /\ Indexed' = data
    <2>1. Kernel' = Kernel BY <1>1 DEF Kernel, Held
    <2>2. Kernel' \in [Id -> Seq(Record)] /\ Indexed' \in [Id -> Seq(Record)] BY <1>3 DEF FilesOK
    <2>3. \A id \in Id : Kernel[id] = data[id] BY <1>3, <1>5 DEF ActiveOK
    <2>4. Standing' = Kernel' /\ \A id \in Id : Indexed'[id] = Kernel'[id] BY <1>1, NoMergeKeeps
    <2>5. Kernel' = data BY <1>2, <2>1, <2>2, <2>3, SameFiles
    <2>6. QED BY <1>2, <2>1, <2>2, <2>3, <2>4, <2>5, SameFiles
  <1>8. ASSUME NEW k \in Keys PROVE Points(data, k, merge.moved[k])
    <2>1. merge.kind # "none" /\ data[merge.id] = Out /\ \A id \in Id \ {merge.id} : data[id] = <<>>
      BY <1>1, <1>2, <1>6
    <2> DEFINE G == data
    <2> HIDE DEF G
    <2>2. G \in [Id -> Seq(Record)] /\ G[merge.id] = Out /\ \A id \in Id \ {merge.id} : G[id] = <<>>
      BY <1>2, <2>1 DEF G
    <2>3. Points(G, k, merge.moved[k]) BY <1>2, <2>1, <2>2, OutPoints
    <2>4. QED BY <2>3 DEF G
  <1>9. Holds(data, c) /\ c \in Contents
    <2> DEFINE G == data
               x == merge.moved
    <2>1. /\ G \in [Id -> Seq(Record)] /\ x \in Index /\ \A k \in Keys : Points(G, k, x[k])
          /\ \A id \in Id : Grows(G[id], data[id])
      BY <1>2, <1>8, MergeFields, GrowsFacts
    <2> HIDE DEF G, x
    <2>2. Holds(G, ReadBack(x)) /\ ReadBack(x) \in Contents BY <1>2, <2>1, ReplayHolds
    <2>3. QED BY <2>2 DEF G, x
  <1> HIDE DEF c
  <1>10. Promised'
    <2>1. Holds(Standing, Last(history))'
      <3>1. Last(<<c>>) = c BY <1>9, OneContents
      <3>2. QED BY <1>1, <1>7, <1>9, <3>1
    <2>2. (durable[w.id] = w.offset)' BY <1>1, <1>4, <1>5
    <2>3. QED BY <1>3, <2>1, <2>2, PromisedWholeNext
  <1>11. ServingInv' BY <1>1, <1>7, <1>8, <1>10 DEF ServingInv
  <1>12. DownInv' BY <1>3 DEF DownInv
  <1>13. QED BY <1>1, <1>11, <1>12, NoMergeKeeps DEF RecInv

LEMMA EndCompactionKeepsRec == ASSUME Inv, Inv', RecInv, EndCompaction PROVE RecInv'
  <1> DEFINE s == merge.id
  <1>1. /\ up /\ merge.kind = "background" /\ merge.stage = "unlink" /\ merge.cur = 0
        /\ merge.old = {} /\ merge' = NoMerge
        /\ UNCHANGED <<dir, data, durable, up, keydir, w, history, kern>>
    BY DEF EndCompaction, disk, index, ghost
  <1>2. TypeOK /\ FilesInv /\ s \in Id /\ FilesOK /\ FilesOK' /\ ActiveOK
    <2>1. TypeOK /\ FilesInv /\ s \in Id BY <1>1 DEF Inv, MergeInv
    <2>2. QED BY <1>1, <2>1, FilesAre, FilesAreNext, ActiveFile DEF Inv
  <1>3. \A id \in Id : id < s => Kernel[id] = <<>>
    <2> TAKE id \in Id
    <2> HAVE id < s
    <2>1. id \notin dir
      <3>1. id \in dir => id \in {} \cup {0} BY <1>1 DEF RecInv, SlotInv
      <3>2. QED BY <1>2, <3>1, MergeFields
    <2>2. s < w.id /\ w.id \in Id BY <1>1, <1>2 DEF ActiveOK
    <2>3. id # w.id BY <1>2, <2>2, BoundsAssumption DEF Id
    <2>4. QED BY <1>2, <2>1, <2>3 DEF ActiveOK, FilesInv
  <1>4. Kernel' = Kernel BY <1>1 DEF Kernel, Held
  <1>5. Standing' = Standing
    <2>1. Standing = From(Kernel, s) /\ Standing' = Kernel BY <1>1, <1>4, NoMergeKeeps DEF Standing
    <2>2. \A id \in Id : From(Kernel, s)[id] = Kernel[id] BY <1>3 DEF From
    <2>3. QED BY <1>2, <2>1, <2>2, SameFiles DEF FilesOK
  <1>6. Indexed' = Indexed BY <1>1, <1>5 DEF Indexed, NoMerge
  <1>7. Serving BY <1>1 DEF Serving, RestoreInPlace
  <1>8. ServingInv' BY <1>1, <1>5, <1>6, <1>7, ServingSame DEF RecInv
  <1>9. DownInv' BY <1>1 DEF DownInv
  <1>10. QED BY <1>1, <1>8, <1>9, NoMergeKeeps DEF RecInv

LEMMA PlacePartKeepsRec ==
    ASSUME Inv, Inv', RecInv, NEW hinted \in BOOLEAN, PlacePart(hinted) PROVE RecInv'
  <1> DEFINE s == merge.id
             p == merge.part
  <1>1. /\ up /\ merge.kind \in {"background", "restore"} /\ merge.stage = "copy"
        /\ \A k \in LiveKeys(merge.view) : merge.moved[k] # NoLoc
        /\ dir' = dir \cup {s} /\ data' = [data EXCEPT ![s] = p]
        /\ durable' = [durable EXCEPT ![s] = Len(p)]
        /\ merge' = [merge EXCEPT !.stage = "placed"]
        /\ UNCHANGED <<up, keydir, w, history, kern>>
    BY DEF PlacePart, Compacting, Restoring, index, ghost
  <1>2. /\ merge'.kind = merge.kind /\ merge'.stage = "placed" /\ merge'.id = s
        /\ merge'.old = merge.old /\ merge'.cur = merge.cur /\ merge'.view = merge.view
        /\ merge'.moved = merge.moved /\ merge'.part = p
    BY <1>1 DEF Inv, TypeOK, Merge
  <1>3. TypeOK /\ FilesInv /\ FilesOK /\ FilesOK' /\ ActiveOK /\ OutInv /\ ViewInv /\ merge.kind # "none"
    BY <1>1, FilesAre, FilesAreNext, ActiveFile DEF Inv, RecInv
  <1>4. s \in Id /\ w.id \in Id /\ s # w.id /\ p \in Seq(Record) /\ s \notin dir /\ data[s] = <<>>
    <2>1. s \in Id /\ s < w.id /\ w.id \in Id BY <1>3 DEF ActiveOK
    <2>2. s # w.id BY <2>1, BoundsAssumption DEF Id
    <2>3. p \in Seq(Record) BY <1>3, MergeFields
    <2>4. s \notin dir BY <1>1 DEF RecInv, SlotInv
    <2>5. data[s] = <<>> BY <1>3, <2>1, <2>4 DEF FilesInv
    <2>6. QED BY <2>1, <2>2, <2>3, <2>4, <2>5
  <1>5. data \in [Id -> Seq(Record)] /\ durable \in [Id -> Nat] BY <1>3 DEF TypeOK
  <1>6. /\ data'[s] = p /\ \A id \in Id \ {s} : data'[id] = data[id] /\ durable'[id] = durable[id]
    BY <1>1, <1>4, <1>5
  <1>7. Kernel'[s] = p /\ Kernel[s] = <<>> /\ \A id \in Id \ {s} : Kernel'[id] = Kernel[id]
    BY <1>1, <1>4, <1>6 DEF Kernel, Held
  <1>8. Out = p /\ Out' = Out BY <1>1, <1>2 DEF Out
  <1>9. Old' = Old
    <2>1. Old' = Under(data', s) BY <1>2 DEF Old
    <2>2. \A id \in Id : id < s => id # s BY <1>4, BoundsAssumption DEF Id
    <2>3. QED BY <1>6, <2>1, <2>2 DEF Old, Under
  <1>10. ASSUME merge.kind = "background" PROVE ServingInv'
    <2>1. Serving /\ Merging BY <1>1, <1>10 DEF Serving, RestoreInPlace, Merging
    <2>2. Promised /\ \A k \in Keys : Points(Indexed, k, keydir[k]) BY <2>1 DEF RecInv, ServingInv
    <2>3. Standing = Kernel /\ Standing' = Kernel' BY <1>1, <1>2 DEF Standing
    <2>4. Indexed' = Indexed
      <3>1. \A id \in Id : Indexed'[id] = Indexed[id] BY <1>1, <1>2, <1>7, <2>3 DEF Indexed
      <3>2. QED BY <1>3, <3>1, SameFiles DEF FilesOK
    <2> DEFINE a == w.id
               lo == durable[a]
               hi == w.offset
               K == Kernel
               L == Kernel'
    <2>5. /\ a \in Id /\ lo \in Nat /\ hi \in Nat /\ lo <= hi /\ hi = Len(K[a]) /\ K[a] = L[a]
          /\ K \in [Id -> Seq(Record)] /\ L \in [Id -> Seq(Record)]
          /\ w.written \in Nat /\ history \in Seq(Contents)
      BY <1>3, <1>4, <1>7 DEF ActiveOK, FilesOK
    <2>6. Promises(history, kern, K, a, lo, w.written, hi) BY <2>2, <2>3 DEF Promised
    <2>7. K[s] = <<>> /\ L[s] = p /\ a # s /\ \A id \in Id \ {s} : L[id] = K[id] BY <1>4, <1>7
    <2>8. \A id \in Id : id < s => K[id] = data[id] /\ id # a
      <3>1. s < a /\ s \in Id /\ a \in Id BY <1>3 DEF ActiveOK
      <3>2. \A id \in Id : id < s => id # a BY <3>1, BoundsAssumption DEF Id
      <3>3. QED BY <1>3, <3>2 DEF ActiveOK
    <2> HIDE DEF K, L, a, lo, hi
    <2>9. ASSUME NEW n \in lo..hi, NEW c \in Contents, Holds(Cut(K, a, n), c)
          PROVE  Holds(Cut(L, a, n), c)
      <3> DEFINE F == Cut(K, a, n)
                 G == Cut(L, a, n)
      <3>1. n \in 0..Len(K[a]) /\ n \in 0..Len(L[a]) BY <2>5
      <3>2. /\ F \in [Id -> Seq(Record)] /\ F[a] = SubSeq(K[a], 1, n)
            /\ \A id \in Id \ {a} : F[id] = K[id]
        BY <2>5, <3>1, CutIs
      <3>3. /\ G \in [Id -> Seq(Record)] /\ G[a] = SubSeq(L[a], 1, n)
            /\ \A id \in Id \ {a} : G[id] = L[id]
        BY <2>5, <3>1, CutIs
      <3> HIDE DEF F, G
      <3>4. F[s] = <<>> /\ G[s] = Out /\ \A id \in Id \ {s} : F[id] = G[id]
        BY <1>4, <1>8, <2>5, <2>7, <3>2, <3>3
      <3>5. \A id \in Id : id < s => F[id] = data[id] BY <2>8, <3>2
      <3>6. Grows(Out, Out) BY <1>4, <1>8, GrowsFacts
      <3>7. Holds(G, c)
        <4>1. Holds(F, c) /\ merge.stage # "unlink" BY <1>1, <2>9 DEF F
        <4>2. QED BY <1>3, <1>4, <2>1, <3>2, <3>3, <3>4, <3>5, <3>6, <4>1, CopiesHold
      <3>8. QED BY <3>7 DEF G
    <2>10. lo \in lo..hi /\ w.written <= w.written BY <2>5
    <2>11. Promises(history, kern, L, a, lo, w.written, hi)
      <3> DEFINE z == w.written
      <3> HIDE DEF z
      <3>1. z \in Nat /\ z <= z /\ Promises(history, kern, K, a, lo, z, hi)
        BY <2>5, <2>6, <2>10 DEF z
      <3>2. \A n \in lo..hi : \A c \in Contents :
               Holds(Cut(K, a, n), c) => Holds(Cut(L, a, n), c)
        BY <2>9
      <3>3. Promises(history, kern, L, a, lo, z, hi) BY <2>5, <2>10, <3>1, <3>2, PromisesKept
      <3>4. QED BY <3>3 DEF z
    <2>12. Promised'
      <3>1. durable'[w.id] = durable[w.id] BY <1>4, <1>6
      <3>2. QED BY <1>1, <2>3, <2>11, <3>1 DEF Promised, L, a, lo, hi
    <2>13. QED BY <1>1, <2>2, <2>4, <2>12 DEF ServingInv
  <1>11. ServingInv'
    <2>1. CASE merge.kind = "restore" BY <1>2, <2>1 DEF ServingInv, Serving, RestoreInPlace
    <2>2. QED BY <1>1, <1>10, <2>1
  <1>12. ViewInv' BY <1>1, <1>2, <1>9 DEF RecInv, ViewInv, Merging
  <1>13. OutInv'
    <2> DEFINE P(o, mv, m, vw, d) ==
            /\ \A i \in 1..Len(o) :
                  /\ o[i].val # Absent
                  /\ mv[o[i].key] = [id |-> m, off |-> i - 1]
                  /\ Merging => LET loc == vw[o[i].key]
                                IN  loc # NoLoc /\ o[i] = d[loc.id][loc.off + 1]
            /\ \A k \in Keys : mv[k] # NoLoc => o[mv[k].off + 1].key = k
    <2>1. Merging' = Merging BY <1>2, SMTT(40) DEF Merging
    <2>2. P(Out, merge.moved, s, merge.view, Old) BY <1>1, <1>3 DEF OutInv
    <2> HIDE DEF P
    <2>3. P(Out', merge'.moved, merge'.id, merge'.view, Old') BY <1>2, <1>8, <1>9, <2>2
    <2>4. QED BY <2>1, <2>3 DEF OutInv, P
  <1>14. SlotInv'
    <2>1. ~(s < s) BY <1>4, BoundsAssumption DEF Id
    <2>2. QED BY <1>1, <1>2, <1>3, <2>1 DEF RecInv, SlotInv
  <1>15. RestoreInv'
    <2>1. ~(s > s) BY <1>4, BoundsAssumption DEF Id
    <2>2. QED BY <1>1, <1>2, <2>1 DEF RecInv, RestoreInv
  <1>16. CompactInv' /\ DeadInv' /\ DownInv' BY <1>1, <1>2 DEF CompactInv, DeadInv, DownInv
  <1>17. QED BY <1>11, <1>12, <1>13, <1>14, <1>15, <1>16 DEF RecInv

(* What finish_compaction makes of the index: l is a key's place in it, v  *)
(* the one it had when the merge began, m its copy's.                      *)
LEMMA Repoint ==
    ASSUME NEW F \in [Id -> Seq(Record)], NEW G \in [Id -> Seq(Record)], NEW s \in Id,
           F[s] = <<>>, \A id \in Id \ {s} : F[id] = G[id], NEW k,
           NEW l, Points(F, k, l),
           NEW v, Points(Under(F, s), k, v),
           l # NoLoc => l \in Location, v # NoLoc => v \in Location,
           NEW m, v # NoLoc <=> m # NoLoc,
           m # NoLoc => m.id = s /\ Place(G, k, s, m.off + 1) /\ G[s][m.off + 1].val # Absent,
           \A i : Place(G, k, s, i) => m # NoLoc /\ i = m.off + 1 /\ m.off \in Nat
    PROVE  Points(From(G, s), k, IF m # NoLoc /\ l = v THEN m ELSE l)
  <1> DEFINE H == From(G, s)
             U == Under(F, s)
             pF(a, i) == Place(F, k, a, i)
             pG(a, i) == Place(G, k, a, i)
             pH(a, i) == Place(H, k, a, i)
             pU(a, i) == Place(U, k, a, i)
  <1>1. /\ H \in [Id -> Seq(Record)] /\ U \in [Id -> Seq(Record)]
        /\ \A a, i : pU(a, i) <=> pF(a, i) /\ a < s
        /\ \A a, i : pH(a, i) <=> pG(a, i) /\ ~(a < s)
        /\ \A a \in Id : a < s => U[a] = F[a]
        /\ \A a \in Id : ~(a < s) => H[a] = G[a]
    BY UnderIs
  <1>2. \A a, i : a # s => (pF(a, i) <=> pG(a, i)) BY DEF Place
  <1>3. \A i : ~pF(s, i)
    <2>1. Len(<<>>) = 0 OBVIOUS
    <2>2. QED BY <2>1 DEF Place
  <1>4. \A a, i : pF(a, i) \/ pG(a, i) => a \in Id /\ a \in Nat /\ i \in Nat
    <2> TAKE a, i
    <2>1. pF(a, i) => a \in Id /\ a \in Nat /\ i \in Nat BY PlaceIsBounded
    <2>2. pG(a, i) => a \in Id /\ a \in Nat /\ i \in Nat BY PlaceIsBounded
    <2>3. QED BY <2>1, <2>2
  <1>5. s \in Nat BY BoundsAssumption DEF Id
  <1>6. /\ l = NoLoc => \A a, i : pF(a, i) /\ F[a][i].val # Absent =>
               \E b, j : pF(b, j) /\ F[b][j].val = Absent /\ Before(a, i, b, j)
        /\ l # NoLoc => /\ pF(l.id, l.off + 1) /\ F[l.id][l.off + 1].val # Absent
                        /\ \A b, j : pF(b, j) => Before(b, j, l.id, l.off + 1)
    BY DEF Points, Ends, Erased
  <1>7. v # NoLoc => /\ pU(v.id, v.off + 1) /\ U[v.id][v.off + 1].val # Absent
                     /\ \A b, j : pU(b, j) => Before(b, j, v.id, v.off + 1)
    BY DEF Points, Ends
  <1> HIDE DEF H, U, pF, pG, pH, pU
  <1>8. CASE m # NoLoc /\ l = v
    <2> DEFINE e == m.off + 1
    <2>1. v # NoLoc /\ pU(v.id, v.off + 1) BY <1>7, <1>8
    <2>2. v.id < s /\ v.id \in Nat BY <1>1, <1>4, <2>1
    <2>3. pH(s, e) /\ H[s][e].val # Absent /\ m.id = s BY <1>1, <1>5, <1>8 DEF pG
    <2> HIDE DEF e
    <2>4. ASSUME NEW b, NEW j, pH(b, j) PROVE Before(b, j, s, e)
      <3>1. pG(b, j) /\ ~(b < s) /\ b \in Nat /\ j \in Nat BY <1>1, <1>4, <2>4
      <3>2. b = s
        <4>1. ASSUME b # s PROVE FALSE
          <5>1. pF(b, j) BY <1>2, <3>1, <4>1
          <5>2. Before(b, j, v.id, v.off + 1) BY <1>6, <1>8, <2>1, <5>1
          <5>3. b <= v.id BY <2>2, <3>1, <5>2 DEF Before
          <5>4. QED BY <1>5, <2>2, <3>1, <5>3
        <4>2. QED BY <4>1
      <3>3. j = e BY <3>1, <3>2 DEF pG, e
      <3>4. QED BY <3>1, <3>2, <3>3 DEF Before
    <2>5. Ends(H, k, m.id, m.off + 1) BY <2>3, <2>4 DEF Ends, pH, e
    <2>6. QED BY <1>8, <2>5 DEF Points, H
  <1>9. CASE ~(m # NoLoc /\ l = v) /\ l = NoLoc
    <2>1. ASSUME NEW a, NEW i, pH(a, i), H[a][i].val # Absent
          PROVE  \E b, j : pH(b, j) /\ H[b][j].val = Absent /\ Before(a, i, b, j)
      <3>1. pG(a, i) /\ ~(a < s) /\ a \in Id /\ a \in Nat /\ i \in Nat /\ H[a] = G[a]
        BY <1>1, <1>4, <2>1
      <3>2. CASE a # s
        <4>1. pF(a, i) /\ F[a] = G[a] /\ F[a][i].val # Absent BY <1>2, <2>1, <3>1, <3>2
        <4>2. PICK b, j : pF(b, j) /\ F[b][j].val = Absent /\ Before(a, i, b, j) BY <1>6, <1>9, <4>1
        <4>3. b \in Id /\ b \in Nat /\ b # s BY <1>3, <1>4, <4>2
        <4>4. ~(b < s) BY <1>5, <3>1, <4>2, <4>3 DEF Before
        <4>5. pH(b, j) /\ H[b][j].val = Absent BY <1>1, <1>2, <4>2, <4>3, <4>4
        <4>6. QED BY <4>2, <4>5
      <3>3. CASE a = s
        <4> DEFINE x == v.id
                   y == v.off + 1
        <4>1. v # NoLoc BY <3>1, <3>3 DEF pG
        <4>2. pU(x, y) /\ U[x][y].val # Absent /\ \A b, j : pU(b, j) => Before(b, j, x, y)
          BY <1>7, <4>1
        <4> HIDE DEF x, y
        <4>3. pF(x, y) /\ x < s /\ x \in Id /\ x \in Nat /\ y \in Nat /\ U[x] = F[x]
          BY <1>1, <1>4, <4>2
        <4>4. PICK b, j : pF(b, j) /\ F[b][j].val = Absent /\ Before(x, y, b, j)
          BY <1>6, <1>9, <4>2, <4>3
        <4>5. b \in Id /\ b \in Nat /\ j \in Nat /\ b # s BY <1>3, <1>4, <4>4
        <4>6. ~(b < s)
          <5>1. ASSUME b < s PROVE FALSE
            <6>1. Before(b, j, x, y) BY <1>1, <4>2, <4>4, <5>1
            <6>2. b = x /\ j = y BY <4>3, <4>4, <4>5, <6>1 DEF Before
            <6>3. QED BY <4>2, <4>3, <4>4, <6>2
          <5>2. QED BY <5>1
        <4>7. pH(b, j) /\ H[b][j].val = Absent BY <1>1, <1>2, <4>4, <4>5, <4>6
        <4>8. Before(a, i, b, j) BY <1>5, <3>3, <4>5, <4>6 DEF Before
        <4>9. QED BY <4>7, <4>8
      <3>4. QED BY <3>2, <3>3
    <2>2. Erased(H, k) BY <2>1 DEF Erased, pH
    <2>3. QED BY <1>9, <2>2 DEF Points, H
  <1>10. CASE ~(m # NoLoc /\ l = v) /\ l # NoLoc
    <2> DEFINE x == l.id
               y == l.off + 1
    <2>1. pF(x, y) /\ F[x][y].val # Absent /\ \A b, j : pF(b, j) => Before(b, j, x, y)
      BY <1>6, <1>10
    <2>2. x \in Id /\ x \in Nat /\ y \in Nat /\ x # s BY <1>3, <1>4, <2>1
    <2>3. ~(x < s)
      <3>1. ASSUME x < s PROVE FALSE
        <4> HIDE DEF x, y
        <4>1. pU(x, y) /\ U[x][y].val # Absent BY <1>1, <2>1, <2>2, <3>1
        <4>2. \A b, j : pU(b, j) => Before(b, j, x, y) BY <1>1, <2>1
        <4>3. Ends(U, k, x, y) BY <4>1, <4>2 DEF Ends, pU
        <4>4. v # NoLoc /\ Ends(U, k, v.id, v.off + 1) BY <1>1, <4>3, EndIsNotErased DEF Points, U
        <4>5. x = v.id /\ y = v.off + 1 BY <1>1, <4>3, <4>4, OneEnd
        <4>6. l = v
          <5>1. l \in Location /\ v \in Location /\ l.id = v.id /\ l.off + 1 = v.off + 1
            BY <1>10, <4>4, <4>5 DEF x, y
          <5>2. l.off = v.off BY <5>1 DEF Location
          <5>3. QED BY <5>1, <5>2 DEF Location
        <4>7. QED BY <1>10, <4>4, <4>6
      <3>2. QED BY <3>1
    <2> HIDE DEF x, y
    <2>4. pH(x, y) /\ H[x][y].val # Absent BY <1>1, <1>2, <2>1, <2>2, <2>3
    <2>5. ASSUME NEW b, NEW j, pH(b, j) PROVE Before(b, j, x, y)
      <3>1. pG(b, j) /\ b \in Nat /\ ~(b < s) BY <1>1, <1>4, <2>5
      <3>2. CASE b = s BY <1>5, <2>2, <2>3, <3>2 DEF Before
      <3>3. CASE b # s BY <1>2, <2>1, <3>1, <3>3
      <3>4. QED BY <3>2, <3>3
    <2>6. Ends(H, k, l.id, l.off + 1) BY <2>4, <2>5 DEF Ends, pH, x, y
    <2>7. QED BY <1>10, <2>6 DEF Points, H
  <1>11. QED BY <1>8, <1>9, <1>10

LEMMA FinishCompactionKeepsRec == ASSUME Inv, Inv', RecInv, FinishCompaction PROVE RecInv'
  <1> DEFINE s == merge.id
             K == Kernel
             a == w.id
             lo == durable[a]
             hi == w.offset
             wr == w.written
  <1>1. /\ up /\ merge.kind = "background" /\ merge.stage = "placed" /\ keydir' = Repointed
        /\ merge' = [merge EXCEPT !.stage = "unlink"]
        /\ UNCHANGED <<dir, data, durable, up, w, history, kern>>
    BY DEF FinishCompaction, Compacting, disk, ghost
  <1>2. /\ merge'.kind = "background" /\ merge'.stage = "unlink" /\ merge'.id = s
        /\ merge'.old = merge.old /\ merge'.cur = merge.cur
        /\ merge'.moved = merge.moved /\ merge'.part = merge.part
    BY <1>1 DEF Inv, TypeOK, Merge
  <1>3. /\ TypeOK /\ FilesOK /\ FilesOK' /\ ActiveOK /\ OutInv /\ ViewInv /\ CopyInv
        /\ merge.kind # "none" /\ Merging /\ merge.stage # "unlink"
    BY <1>1, FilesAre, FilesAreNext, ActiveFile DEF Inv, RecInv, Merging
  <1>4. s \in Id /\ a \in Id /\ s < a /\ s # a /\ ~(a < s)
    <2>1. s \in Id /\ s < a /\ a \in Id BY <1>3 DEF ActiveOK
    <2>2. QED BY <2>1, BoundsAssumption DEF Id
  <1>5. data[s] = Out /\ Out' = Out BY <1>1, <1>2 DEF Inv, MergeInv, Out
  <1>6. Kernel' = K /\ Old' = Old BY <1>1, <1>2 DEF Kernel, Held, Old
  <1>7. Standing = K /\ Standing' = From(K, s) BY <1>1, <1>2, <1>6 DEF Standing
  <1>8. \A k \in LiveKeys(merge.view) : merge.moved[k] # NoLoc BY <1>1, <1>3 DEF CopyInv, LiveKeys
  <1>9. \A k \in Keys : Erased(Old, k) \/ \E j \in 1..Len(Out) : Out[j].key = k
    BY <1>3, <1>4, <1>8, ErasedOrCopied
  <1>10. /\ K \in [Id -> Seq(Record)] /\ K[s] = Out /\ \A id \in Id : id < s => K[id] = data[id]
    <2>1. \A id \in Id \ {a} : K[id] = data[id] BY <1>3 DEF ActiveOK
    <2>2. \A id \in Id : id < s => id # a BY <1>4, BoundsAssumption DEF Id
    <2>3. QED BY <1>3, <1>4, <1>5, <2>1, <2>2 DEF FilesOK
  <1>11. Promised /\ \A k \in Keys : Points(Indexed, k, keydir[k])
    BY <1>1 DEF RecInv, ServingInv, Serving, RestoreInPlace
  <1>12. /\ lo \in Nat /\ hi \in Nat /\ lo <= hi /\ hi = Len(K[a]) /\ wr \in Nat
         /\ history \in Seq(Contents)
    BY <1>3 DEF ActiveOK, FilesOK
  <1>13. Promises(history, kern, K, a, lo, wr, hi) BY <1>7, <1>11 DEF Promised
  <1> HIDE DEF K, a, lo, hi, wr
  <1>14. ASSUME NEW n \in lo..hi, NEW c \in Contents, Holds(Cut(K, a, n), c)
         PROVE  Holds(Cut(From(K, s), a, n), c)
    <2> DEFINE G == Cut(K, a, n)
    <2>1. n \in 0..Len(K[a]) BY <1>12
    <2>2. G \in [Id -> Seq(Record)] /\ \A id \in Id \ {a} : G[id] = K[id]
      BY <1>4, <1>10, <2>1, CutIs
    <2>3. From(G, s) = Cut(From(K, s), a, n) BY <1>4, CutAndSplit
    <2>4. \A id \in Id : id < s => id # a BY <1>4, BoundsAssumption DEF Id
    <2>5. Holds(G, c) BY <1>14
    <2> HIDE DEF G
    <2>6. G[merge.id] = Out /\ \A id \in Id : id < merge.id => G[id] = data[id]
      BY <1>4, <1>10, <2>2, <2>4
    <2>7. Holds(From(G, merge.id), c) BY <1>3, <1>4, <1>9, <2>2, <2>5, <2>6, CopiesSuffice
    <2>8. QED BY <2>3, <2>7
  <1>15. Promised'
    <2>1. lo \in lo..hi /\ wr <= wr BY <1>12
    <2> DEFINE L == From(K, s)
    <2>2. \A n \in lo..hi : \A c \in Contents : Holds(Cut(K, a, n), c) => Holds(Cut(L, a, n), c)
      BY <1>14
    <2> HIDE DEF L
    <2>3. Promises(history, kern, L, a, lo, wr, hi) BY <1>12, <1>13, <2>1, <2>2, PromisesKept
    <2>4. QED BY <1>1, <1>7, <2>3 DEF Promised, L, a, lo, hi, wr
  <1>16. Indexed' = From(K, s)
    <2>1. \A id \in Id : Indexed'[id] = From(K, s)[id] BY <1>2, <1>7 DEF Indexed
    <2>2. From(K, s) \in [Id -> Seq(Record)] /\ Indexed' \in [Id -> Seq(Record)]
      BY <1>3, <1>4, <1>10, UnderIs DEF FilesOK
    <2>3. QED BY <2>1, <2>2, SameFiles
  <1>17. ASSUME NEW k \in Keys PROVE Points(From(K, s), k, keydir'[k])
    <2> DEFINE F == Indexed
               l == keydir[k]
               v == merge.view[k]
               m == merge.moved[k]
               o == Out
    <2>1. /\ l \in Location \cup {NoLoc} /\ v \in Location \cup {NoLoc}
          /\ m \in Location \cup {NoLoc} /\ o \in Seq(Record) /\ Len(o) \in Nat
      BY <1>3, <1>4, MergeFields, OutIsSeq
    <2>2. keydir'[k] = IF m # NoLoc /\ l = v THEN m ELSE l BY <1>1 DEF Repointed
    <2>3. F \in [Id -> Seq(Record)] /\ F[s] = <<>> /\ \A id \in Id \ {s} : F[id] = K[id]
      BY <1>1, <1>3, <1>4, <1>7 DEF Indexed, FilesOK
    <2>4. Points(F, k, l) BY <1>11
    <2>5. Points(Under(F, s), k, v)
      <3>1. Points(Old, k, v) BY <1>3 DEF ViewInv
      <3>2. \A id \in Id : id < s => F[id] = data[id]
        <4>1. \A id \in Id : id < s => id # s BY <1>4, BoundsAssumption DEF Id
        <4>2. QED BY <1>10, <2>3, <4>1
      <3>3. Under(F, s) = Old BY <3>2 DEF Under, Old
      <3>4. QED BY <3>1, <3>3
    <2>6. v # NoLoc <=> m # NoLoc BY <1>1, <1>3 DEF CopyInv
    <2>7. /\ m # NoLoc => m.id = s /\ m.off < Len(o) /\ o[m.off + 1].key = k
          /\ \A i \in 1..Len(o) : o[i].val # Absent /\ merge.moved[o[i].key] = [id |-> s, off |-> i - 1]
      BY <1>3 DEF CopyInv, OutInv
    <2>8. \A i : Place(K, k, s, i) <=> i \in 1..Len(o) /\ o[i].key = k BY <1>4, <1>10 DEF Place
    <2>9. \A i : Place(K, k, s, i) => m = [id |-> s, off |-> i - 1] /\ i \in Nat /\ i >= 1
      <3> TAKE i
      <3> HAVE Place(K, k, s, i)
      <3>1. i \in 1..Len(o) /\ o[i].key = k BY <2>8
      <3>2. QED BY <2>1, <2>7, <3>1
    <2> HIDE DEF F, l, v, m, o, s
    <2>10. m # NoLoc => m.id = s /\ Place(K, k, s, m.off + 1) /\ K[s][m.off + 1].val # Absent
      <3> HAVE m # NoLoc
      <3>1. m.off \in Nat /\ m.off < Len(o) BY <2>1, <2>7 DEF Location
      <3>2. m.off + 1 \in 1..Len(o) BY <2>1, <3>1
      <3>3. QED BY <1>10, <2>7, <2>8, <3>2 DEF s, o
    <2>11. \A i : Place(K, k, s, i) => m # NoLoc /\ i = m.off + 1 /\ m.off \in Nat
      <3> TAKE i
      <3> HAVE Place(K, k, s, i)
      <3>1. m = [id |-> s, off |-> i - 1] /\ i \in Nat /\ i >= 1 BY <2>9
      <3>2. m.off = i - 1 /\ m.id = s BY <3>1
      <3>3. s # 0 BY <1>4, BoundsAssumption DEF Id
      <3>4. m # NoLoc BY <3>2, <3>3 DEF NoLoc
      <3>5. QED BY <3>1, <3>2, <3>4
    <2>12. Points(From(K, s), k, IF m # NoLoc /\ l = v THEN m ELSE l)
      BY <1>4, <1>10, <2>1, <2>3, <2>4, <2>5, <2>6, <2>10, <2>11, Repoint
    <2>13. QED BY <2>2, <2>12
  <1>18. ServingInv' BY <1>15, <1>16, <1>17 DEF ServingInv
  <1>19. DeadInv' BY <1>1, <1>2, <1>4, <1>5, <1>6, <1>9, NoneIsAlive
  <1>20. OutInv' BY <1>2, <1>3, <1>5 DEF OutInv
  <1>21. SlotInv' BY <1>1, <1>2, <1>5 DEF RecInv, SlotInv, Out
  <1>22. CompactInv' /\ ViewInv' /\ RestoreInv' /\ DownInv'
    BY <1>1, <1>2 DEF CompactInv, ViewInv, RestoreInv, DownInv
  <1>23. QED BY <1>18, <1>19, <1>20, <1>21, <1>22 DEF RecInv

-----------------------------------------------------------------------------
(* Stopping.                                                               *)

(* What is left of the old files shows nothing, if they went in order.     *)
LEMMA ShadowHolds ==
    ASSUME TypeOK, FilesInv, FilesOK, DeadInv, SlotInv, Merging, merge.stage = "unlink",
           ~UnlinkedOutOfOrder, merge.id \in Id, NEW G \in [Id -> Seq(Record)],
           \A id \in Id : id <= merge.id => G[id] = data[id],
           NEW c, Holds(From(G, merge.id), c)
    PROVE  Holds(G, c)
  <1> DEFINE s == merge.id
  <1>1. s \in Id /\ s \in Nat /\ Id \subseteq Nat /\ dir \subseteq Id /\ 0 \notin Id
    <2>1. Id \subseteq Nat /\ 0 \notin Id BY MergeFields
    <2>2. QED BY <2>1 DEF TypeOK
  <1>2. \A id \in Id : (id < s => id <= s) /\ s <= s BY <1>1
  <1>3. \A k, a, i : Place(Old, k, a, i) <=> Place(G, k, a, i) /\ a < s
    <2>1. Old = Under(G, s) BY <1>2 DEF Old, Under
    <2>2. \A k, a, i : Place(Under(G, s), k, a, i) <=> Place(G, k, a, i) /\ a < s BY UnderIs
    <2>3. QED BY <2>1, <2>2
  <1>4. \A a \in Id : a < s => Old[a] = G[a] BY <1>2 DEF Old, Under
  <1>5. \A k, j : Place(data, k, s, j) <=> Place(G, k, s, j) BY <1>1, <1>2 DEF Place
  <1>6. \A k, a, i : Place(G, k, a, i) => a \in Id BY DEF Place
  <1>7. ASSUME NEW a \in Id, a < s, NEW i, NEW k, Place(G, k, a, i), NEW g \in merge.gone, g > a
        PROVE  FALSE
    <2>1. a \in dir
      <3>1. i \in 1..Len(data[a]) BY <1>2, <1>7 DEF Place
      <3>2. Len(<<>>) = 0 OBVIOUS
      <3>3. QED BY <3>1, <3>2 DEF FilesInv
    <2>2. merge.kind # "none" BY DEF Merging
    <2>3. a \in merge.old \cup {merge.cur} BY <1>7, <2>1, <2>2 DEF SlotInv
    <2>4. a \in merge.old \cup ({merge.cur} \ {0}) BY <1>1, <2>3
    <2>5. QED BY <1>7, <2>4 DEF UnlinkedOutOfOrder, Merging
  <1> HIDE DEF s
  <1>8. ASSUME NEW k \in Keys PROVE Reads(G, k, c[k])
    <2>1. ASSUME NEW a, NEW i, Place(G, k, a, i), a < s, G[a][i].val # Absent
          PROVE  \/ \E b, j : Place(G, k, b, j) /\ G[b][j].val = Absent /\ Before(a, i, b, j)
                 \/ \E j : Place(G, k, s, j)
      <3>1. a \in Id /\ Place(Old, k, a, i) /\ Old[a][i].val # Absent BY <1>3, <1>4, <1>6, <2>1
      <3>2. \/ \E b, j : Place(Old, k, b, j) /\ Old[b][j].val = Absent /\ Before(a, i, b, j)
            \/ \E j : Place(data, k, merge.id, j)
            \/ \E g \in merge.gone : g > a
        BY <3>1 DEF DeadInv
      <3>3. CASE \E b, j : Place(Old, k, b, j) /\ Old[b][j].val = Absent /\ Before(a, i, b, j)
        <4>1. PICK b, j : Place(Old, k, b, j) /\ Old[b][j].val = Absent /\ Before(a, i, b, j)
          BY <3>3
        <4>2. Place(G, k, b, j) /\ b < s /\ b \in Id BY <1>3, <1>6, <4>1
        <4>3. G[b][j].val = Absent BY <1>4, <4>1, <4>2
        <4>4. QED BY <4>1, <4>2, <4>3
      <3>4. CASE \E j : Place(data, k, merge.id, j) BY <1>5, <3>4 DEF s
      <3>5. CASE \E g \in merge.gone : g > a BY <1>7, <2>1, <3>1, <3>5
      <3>6. QED BY <3>2, <3>3, <3>4, <3>5
    <2> DEFINE x == c[k]
    <2>2. Reads(From(G, s), k, x) BY DEF Holds, s
    <2> HIDE DEF x
    <2>3. \A a, i : Place(G, k, a, i) /\ a < s /\ G[a][i].val # Absent =>
               \/ \E b, j : Place(G, k, b, j) /\ G[b][j].val = Absent /\ Before(a, i, b, j)
               \/ \E j : Place(G, k, s, j)
      BY <2>1
    <2>4. Reads(G, k, x) BY <1>1, <2>2, <2>3, Shadow
    <2>5. QED BY <2>4 DEF x
  <1>9. QED BY <1>8 DEF Holds

(* The files with all of a write that is in flight, and what they promise. *)
Whole == [id \in Id |-> IF id = InFlight THEN data[id] \o InFlightBuffer ELSE data[id]]
WholeOK ==
    /\ Whole \in [Id -> Seq(Record)] /\ InFlight \in Id /\ InFlight = Tip /\ dir # {}
    /\ durable[InFlight] \in Nat /\ durable[InFlight] <= Len(data[InFlight])
    /\ Len(data[InFlight]) \in Nat /\ Len(Whole[InFlight]) \in Nat
    /\ Promises(history, kern, Whole, InFlight, durable[InFlight], Len(data[InFlight]),
                Len(Whole[InFlight]))

LEMMA ServingIsWhole ==
    ASSUME Inv, RecInv, up, merge.kind # "compact", ~UnlinkedOutOfOrder, ~RestoreInPlace
    PROVE  WholeOK
  <1> DEFINE a == w.id
             lo == durable[a]
             wr == w.written
             hi == w.offset
             K == Kernel
             s == merge.id
  <1>1. TypeOK /\ FilesInv /\ FilesOK /\ ActiveOK /\ Promised
    BY FilesAre, ActiveFile DEF Inv, RecInv, ServingInv, Serving
  <1>2. InFlight = a /\ Whole = K
    <2>1. InFlight = a /\ InFlightBuffer = w.pending BY DEF InFlight, InFlightBuffer
    <2>2. QED BY <2>1 DEF Whole, Kernel, Held
  <1>3. /\ a \in Id /\ a \in dir /\ lo \in Nat /\ wr \in Nat /\ hi \in Nat /\ hi = Len(K[a])
        /\ wr = Len(data[a]) /\ lo <= wr /\ wr <= hi /\ K \in [Id -> Seq(Record)]
        /\ dir \subseteq 1..a /\ history \in Seq(Contents) /\ lo <= hi
    BY <1>1 DEF ActiveOK, FilesOK
  <1>4. a = Tip /\ dir # {}
    <2>1. a \in Nat /\ \A y \in dir : y <= a
      <3>1. a \in Nat BY <1>3, BoundsAssumption DEF Id
      <3>2. QED BY <1>3, <3>1
    <2>2. Newest = a BY <1>1, <1>3, <2>1, NewestIs
    <2>3. QED BY <1>3, <2>2 DEF Tip
  <1>5. Promises(history, kern, K, a, lo, wr, hi)
    <2>1. CASE merge.stage # "unlink" BY <1>1, <2>1 DEF Promised, Standing
    <2>2. CASE merge.stage = "unlink"
      <3>1. merge.kind = "background" /\ Merging
        <4>1. merge.kind # "none" BY <2>2 DEF Inv, MergeInv, NoMerge
        <4>2. merge.kind # "restore" BY <2>2 DEF RestoreInPlace
        <4>3. QED BY <1>1, <4>1, <4>2, MergeFields DEF Merging
      <3>2. s \in Id /\ s < a /\ ~(a < s) /\ \A id \in Id : id <= s => id # a
        <4>1. s \in Id /\ s < a BY <1>1, <3>1 DEF ActiveOK
        <4>2. QED BY <1>3, <4>1, BoundsAssumption DEF Id
      <3> DEFINE L == From(K, s)
      <3>3. Promises(history, kern, L, a, lo, wr, hi) BY <1>1, <2>2 DEF Promised, Standing
      <3>4. \A id \in Id \ {a} : K[id] = data[id] BY <1>1 DEF ActiveOK
      <3> HIDE DEF a, lo, wr, hi, K
      <3>5. ASSUME NEW n \in lo..hi, NEW c \in Contents, Holds(Cut(L, a, n), c)
            PROVE  Holds(Cut(K, a, n), c)
        <4> DEFINE G == Cut(K, a, n)
        <4>1. n \in 0..Len(K[a]) BY <1>3
        <4>2. G \in [Id -> Seq(Record)] /\ \A id \in Id \ {a} : G[id] = K[id] BY <1>3, <4>1, CutIs
        <4>3. From(G, s) = Cut(L, a, n)
          <5> HIDE DEF s
          <5>1. From(Cut(K, a, n), s) = Cut(From(K, s), a, n) BY <1>3, <3>2, CutAndSplit
          <5>2. QED BY <5>1
        <4> HIDE DEF G
        <4>4. \A id \in Id : id <= merge.id => G[id] = data[id] BY <3>2, <3>4, <4>2
        <4>5. DeadInv /\ SlotInv /\ Holds(From(G, merge.id), c) BY <3>5, <4>3 DEF RecInv
        <4>6. Holds(G, c) BY <1>1, <2>2, <3>1, <3>2, <4>2, <4>4, <4>5, ShadowHolds
        <4>7. QED BY <4>6 DEF G
      <3>6. lo \in lo..hi /\ wr <= wr BY <1>3
      <3> HIDE DEF L
      <3>7. \A n \in lo..hi : \A c \in Contents : Holds(Cut(L, a, n), c) => Holds(Cut(K, a, n), c)
        BY <3>5
      <3>8. QED BY <1>3, <3>3, <3>6, <3>7, PromisesKept
    <2>3. QED BY <2>1, <2>2
  <1>6. QED BY <1>2, <1>3, <1>4, <1>5 DEF WholeOK

LEMMA CompactIsWhole ==
    ASSUME Inv, RecInv, up, merge.kind = "compact", ~UnlinkedOutOfOrder PROVE WholeOK
  <1> DEFINE s == merge.id
             lo == durable[s]
             o == Out
             hi == Len(o)
             W == Whole
             c == Last(history)
  <1>1. /\ TypeOK /\ FilesInv /\ s \in Id /\ s \in dir /\ o = data[s] \o merge.part
        /\ o \in Seq(Record) /\ merge.stage \in {"copy", "unlink"}
        /\ data[s] \in Seq(Record) /\ merge.part \in Seq(Record)
        /\ merge.stage = "unlink" => o = data[s]
    BY CopyingFacts
  <1>2. /\ FilesOK /\ OutInv /\ ViewInv /\ DeadInv /\ SlotInv /\ CompactInv /\ Merging
        /\ data \in [Id -> Seq(Record)]
    BY <1>1, FilesAre DEF RecInv, Merging, TypeOK
  <1>3. InFlight = s /\ InFlightBuffer = merge.part BY DEF InFlight, InFlightBuffer
  <1>4. /\ \A id \in Id : id > s => data[id] = <<>> /\ id \notin dir BY MergedIsNewest
  <1>5. s = Tip /\ dir # {}
    <2>1. \A y \in dir : y <= s
      <3> TAKE y \in dir
      <3>1. y \in Id /\ y \in Nat /\ s \in Nat BY <1>1, MergeFields DEF TypeOK
      <3>2. ~(y > s) BY <1>4, <3>1
      <3>3. QED BY <3>1, <3>2
    <2>2. Newest = s BY <1>1, <2>1, NewestIs
    <2>3. QED BY <1>1, <2>2 DEF Tip
  <1>6. W = [id \in Id |-> IF id = s THEN o ELSE data[id]] BY <1>1, <1>3 DEF Whole
  <1> HIDE DEF o, W
  <1>7. W \in [Id -> Seq(Record)] /\ W[s] = o /\ \A id \in Id \ {s} : W[id] = data[id]
    BY <1>1, <1>2, <1>6
  <1>8. /\ lo \in Nat /\ lo <= Len(data[s]) /\ Len(data[s]) \in Nat /\ hi \in Nat
        /\ Len(data[s]) <= hi /\ lo <= hi
    <2>1. lo \in Nat /\ lo <= Len(data[s]) /\ Len(data[s]) \in Nat /\ hi \in Nat
      BY <1>1, LenProperties DEF FilesInv, FileOK, TypeOK
    <2>2. Grows(data[s], o) BY <1>1, GrowsFacts
    <2>3. Len(data[s]) <= hi BY <2>2 DEF Grows
    <2>4. QED BY <2>1, <2>3
  <1>9. \A id \in Id : (id < s => id # s) /\ (~(id < s) /\ id # s => id > s) /\ (id <= s \/ id > s)
    BY <1>1, BoundsAssumption DEF Id
  <1>10. ASSUME NEW n \in lo..hi PROVE Holds(Cut(W, s, n), c)
    <2> DEFINE G == Cut(W, s, n)
               F == Old
    <2>1. n \in 0..Len(W[s]) BY <1>7, <1>8
    <2>2. /\ G \in [Id -> Seq(Record)] /\ \A id \in Id \ {s} : G[id] = W[id]
          /\ \A id \in Id : Grows(G[id], W[id])
          /\ n = Len(W[s]) => G = W
      BY <1>1, <1>7, <2>1, CutIs
    <2> HIDE DEF G
    <2>3. CASE merge.stage = "copy"
      <3>1. \A id \in Id : F[id] = IF id < s THEN data[id] ELSE <<>> BY DEF Old, Under
      <3>2. /\ F \in [Id -> Seq(Record)] /\ F[s] = <<>> /\ \A id \in Id \ {s} : F[id] = G[id]
            /\ \A id \in Id : id < s => F[id] = data[id]
        BY <1>1, <1>2, <1>4, <1>7, <1>9, <2>2, <3>1 DEF FilesOK
      <3>3. Grows(G[s], Out) BY <1>1, <1>7, <2>2 DEF o
      <3>4. Holds(F, c) /\ merge.stage # "unlink" BY <1>2, <2>3 DEF CompactInv
      <3> HIDE DEF F, c
      <3>5. Holds(G, c) BY <1>1, <1>2, <2>2, <3>2, <3>3, <3>4, CopiesHold
      <3>6. QED BY <3>5 DEF G
    <2>4. CASE merge.stage = "unlink"
      <3>1. lo = Len(data[s]) /\ Holds(From(data, s), c) /\ o = data[s]
        BY <1>1, <1>2, <2>4 DEF CompactInv
      <3>2. n = Len(W[s]) BY <1>7, <1>8, <3>1
      <3>3. G = data
        <4>1. W = data BY <1>2, <1>7, <3>1
        <4>2. QED BY <2>2, <3>2, <4>1
      <3> HIDE DEF c
      <3>4. /\ Holds(From(G, merge.id), c) /\ \A id \in Id : id <= merge.id => G[id] = data[id]
        BY <3>1, <3>3
      <3>5. Holds(G, c) BY <1>1, <1>2, <2>2, <2>4, <3>4, ShadowHolds
      <3>6. QED BY <3>5 DEF G
    <2>5. QED BY <1>1, <2>3, <2>4
  <1>11. history \in Seq(Contents) /\ history # <<>> /\ kern \in 1..Len(history) BY <1>1 DEF TypeOK
  <1>12. Promises(history, kern, W, s, lo, Len(data[s]), hi)
    <2> DEFINE z == Len(data[s])
    <2> HIDE DEF z, lo, hi, s
    <2>1. Promises(history, kern, W, s, lo, z, hi) BY <1>1, <1>7, <1>8, <1>10, <1>11, PromisesAfresh
    <2>2. QED BY <2>1 DEF z
  <1>13. QED BY <1>1, <1>3, <1>5, <1>7, <1>8, <1>12 DEF WholeOK, W

LEMMA PrefixOfConcat ==
    ASSUME NEW S, NEW d \in Seq(S), NEW e \in Seq(S), NEW n \in 0..Len(e)
    PROVE  /\ d \o SubSeq(e, 1, n) = SubSeq(d \o e, 1, Len(d) + n)
           /\ Len(d \o SubSeq(e, 1, n)) = Len(d) + n
           /\ Len(d \o e) = Len(d) + Len(e) /\ Len(d) + n \in 0..Len(d \o e)
  <1> DEFINE p == SubSeq(e, 1, n)
             x == d \o p
             c == d \o e
             m == Len(d) + n
             y == SubSeq(c, 1, m)
  <1>1. Len(d) \in Nat /\ Len(e) \in Nat /\ n \in Nat
    <2>1. Len(d) \in Nat /\ Len(e) \in Nat BY LenProperties
    <2>2. QED BY <2>1
  <1>2. p \in Seq(S) /\ Len(p) = n /\ \A i \in 1..n : p[i] = e[i] BY PrefixIs
  <1> HIDE DEF p
  <1>3. /\ x \in Seq(S) /\ Len(x) = Len(d) + n
        /\ \A i \in 1..(Len(d) + n) : x[i] = IF i <= Len(d) THEN d[i] ELSE p[i - Len(d)]
    BY <1>2, ConcatProperties
  <1>4. /\ c \in Seq(S) /\ Len(c) = Len(d) + Len(e)
        /\ \A i \in 1..(Len(d) + Len(e)) : c[i] = IF i <= Len(d) THEN d[i] ELSE e[i - Len(d)]
    BY ConcatProperties
  <1> HIDE DEF x, c
  <1>5. m \in 0..Len(c) /\ m \in Nat BY <1>1, <1>4
  <1>6. y \in Seq(S) /\ Len(y) = m /\ \A i \in 1..m : y[i] = c[i]
    <2> HIDE DEF m
    <2>1. QED BY <1>4, <1>5, PrefixIs
  <1> HIDE DEF y
  <1>7. ASSUME NEW i \in 1..m PROVE x[i] = y[i]
    <2>1. i \in Nat /\ i \in 1..(Len(d) + n) /\ i \in 1..(Len(d) + Len(e)) BY <1>1
    <2>2. CASE i <= Len(d) BY <1>3, <1>4, <1>6, <2>1, <2>2
    <2>3. CASE ~(i <= Len(d))
      <3>1. i - Len(d) \in 1..n BY <1>1, <2>1, <2>3
      <3>2. QED BY <1>2, <1>3, <1>4, <1>6, <2>1, <2>3, <3>1
    <2>4. QED BY <2>2, <2>3
  <1>8. x = y BY <1>3, <1>6, <1>7, SeqEqual
  <1>9. QED BY <1>3, <1>4, <1>5, <1>8 DEF x, y, p, c

(* Less of the newest file.                                                *)
LEMMA BacksLess ==
    ASSUME NEW F \in [Id -> Seq(Record)], NEW a \in Id, NEW lo \in Nat, NEW hi \in Nat,
           hi <= Len(F[a]), NEW h \in Seq(Contents), NEW f, Backs(f, h, F, a, lo, hi),
           NEW m \in lo..hi, NEW lo2 \in lo..m, NEW g, g = [n \in lo2..m |-> f[n]]
    PROVE  Backs(g, h, Cut(F, a, m), a, lo2, m) /\ g[m] = f[m]
  <1>1. \A n \in lo2..m : n \in lo..hi /\ n \in Nat /\ n \in 0..m OBVIOUS
  <1>2. m \in 0..Len(F[a]) /\ m \in lo2..m BY LenProperties
  <1>3. \A n \in lo2..m : g[n] = f[n] OBVIOUS
  <1>4. \A n \in lo2..m : f[n] \in 1..Len(h) /\ Holds(Cut(F, a, n), h[f[n]]) BY <1>1 DEF Backs
  <1>5. g \in [lo2..m -> 1..Len(h)] BY <1>4
  <1>6. \A i, n \in lo2..m : i <= n => g[i] <= g[n] BY <1>1, <1>3 DEF Backs
  <1>7. ASSUME NEW n \in lo2..m PROVE Holds(Cut(Cut(F, a, m), a, n), h[g[n]])
    <2>1. n \in 0..m BY <1>1
    <2>2. Cut(Cut(F, a, m), a, n) = Cut(F, a, n) BY <1>2, <2>1, CutTwice
    <2>3. QED BY <1>3, <1>4, <2>2
  <1>8. QED BY <1>2, <1>3, <1>5, <1>6, <1>7 DEF Backs

(* A stop that leaves m records of the newest file.                        *)
LEMMA StopCuts ==
    ASSUME NEW F \in [Id -> Seq(Record)], NEW t \in Id, NEW lo \in Nat, NEW hi \in Nat,
           hi <= Len(F[t]), history \in Seq(Contents), NEW f, Backs(f, history, F, t, lo, hi),
           NEW m \in lo..hi, data' = Cut(F, t, m), Tip' = t, history' = history,
           durable'[t] \in lo..m, crash' # "power" => kern' <= f[m],
           crash' = "power" => \A id \in Id : durable'[id] = Len(data'[id]),
           merge' = NoMerge, ~up'
    PROVE  RecInv'
  <1> DEFINE e == durable'[t]
             g == [n \in e..m |-> f[n]]
             h == history
  <1>1. Len(data'[t]) = m
    <2>1. m \in 0..Len(F[t]) BY LenProperties
    <2>2. QED BY <2>1, CutIs
  <1>0. /\ h \in Seq(Contents) /\ Backs(f, h, F, t, lo, hi) /\ e \in lo..m
        /\ g = [n \in e..m |-> f[n]]
    OBVIOUS
  <1> HIDE DEF e, g, h
  <1>2. Backs(g, h, Cut(F, t, m), t, e, m) /\ g[m] = f[m] BY <1>0, BacksLess
  <1>3. /\ Backs(g, history', data', Tip', durable'[Tip'], Len(data'[Tip']))
        /\ crash' # "power" => kern' <= g[Len(data'[Tip'])]
    BY <1>1, <1>2 DEF h, e
  <1>4. DownInv' BY <1>3 DEF DownInv
  <1>5. ServingInv' BY DEF ServingInv, Serving
  <1>6. QED BY <1>4, <1>5, NoMergeKeeps DEF RecInv

LEMMA CloseKeepsRec == ASSUME Inv, Inv', RecInv, Close PROVE RecInv'
  <1> DEFINE t == w.id
             lo == durable[t]
             hi == w.offset
             K == Kernel
  <1>1. /\ up /\ merge.kind = "none" /\ data' = [data EXCEPT ![t] = Flush(Active).file]
        /\ crash' = "close" /\ up' = FALSE /\ kern' = Len(history)
        /\ UNCHANGED <<dir, durable, merge, history>>
    BY DEF Close
  <1>2. /\ TypeOK /\ ActiveInv /\ merge = NoMerge /\ FilesOK /\ ActiveOK
        /\ ~UnlinkedOutOfOrder /\ ~RestoreInPlace /\ merge.kind # "compact"
    BY <1>1, OpenFacts, FilesAre, ActiveFile DEF Inv, MergeInv, UnlinkedOutOfOrder, RestoreInPlace
  <1>3. WholeOK BY <1>1, <1>2, ServingIsWhole
  <1>4. InFlight = t /\ t = Tip BY <1>2, <1>3 DEF InFlight, WholeOK
  <1>5. Flush(Active).file = K[t]
    <2>1. Flush(Active).file = Held(t) BY <1>2, ActiveFacts, FlushKeeps DEF ActiveInv
    <2>2. QED BY <1>2, <2>1 DEF FilesOK, ActiveOK
  <1>6. /\ t \in Id /\ lo \in Nat /\ hi \in Nat /\ lo <= hi /\ hi = Len(K[t])
        /\ K \in [Id -> Seq(Record)] /\ \A id \in Id \ {t} : K[id] = data[id]
        /\ history \in Seq(Contents) /\ data \in [Id -> Seq(Record)]
    BY <1>2 DEF ActiveOK, FilesOK
  <1>7. data' = K
    <2>1. \A id \in Id : data'[id] = K[id] BY <1>1, <1>5, <1>6
    <2>2. data' \in [Id -> Seq(Record)] BY <1>1, <1>5, <1>6
    <2>3. QED BY <1>6, <2>1, <2>2, SameFiles
  <1>8. Promised BY <1>1, <1>2 DEF RecInv, ServingInv, Serving
  <1>9. Standing = K BY <1>2 DEF Standing, NoMerge
  <1>10. PICK f : Backs(f, history, K, t, lo, hi) /\ f[hi] = Len(history)
    BY <1>8, <1>9 DEF Promised, Promises
  <1>11. Tip' = t BY <1>1, <1>4 DEF Tip, Newest
  <1> HIDE DEF t, lo, hi, K
  <1>12. /\ hi \in lo..hi /\ hi <= Len(K[t]) /\ durable'[t] \in lo..hi BY <1>1, <1>6 DEF lo
  <1>13. data' = Cut(K, t, hi)
    <2>1. hi \in 0..Len(K[t]) BY <1>6
    <2>2. QED BY <1>6, <1>7, <2>1, CutIs
  <1>14. kern' <= f[hi]
    <2>1. Len(history) \in Nat BY <1>6, LenProperties
    <2>2. QED BY <1>1, <1>10, <2>1
  <1>15. crash' # "power" /\ merge' = NoMerge /\ ~up' /\ history' = history BY <1>1, <1>2
  <1>16. QED BY <1>6, <1>10, <1>11, <1>12, <1>13, <1>14, <1>15, StopCuts

LEMMA UpIsWhole == ASSUME Inv, RecInv, up, ~UnlinkedOutOfOrder, ~RestoreInPlace PROVE WholeOK
  BY ServingIsWhole, CompactIsWhole

LEMMA KillKeepsRec == ASSUME Inv, Inv', RecInv, Kill PROVE RecInv'
  <1> DEFINE t == InFlight
             b == InFlightBuffer
             W == Whole
             lo == durable[t]
             wr == Len(data[t])
             hi == Len(W[t])
  <1>1. /\ up /\ crash' = "kill" /\ excused' = Windows /\ ~up' /\ merge' = NoMerge
        /\ UNCHANGED <<dir, durable, history, kern>>
    BY DEF Kill, Forget
  <1>2. PICK n \in 0..Len(b) : data' = [data EXCEPT ![t] = @ \o SubSeq(b, 1, n)] BY DEF Kill
  <1>3. CASE excused' # {}
    <2>1. DownInv' BY <1>3 DEF DownInv
    <2>2. ServingInv' BY <1>1 DEF ServingInv, Serving
    <2>3. QED BY <1>1, <2>1, <2>2, NoMergeKeeps DEF RecInv
  <1>4. CASE excused' = {}
    <2>1. ~UnlinkedOutOfOrder /\ ~RestoreInPlace BY <1>1, <1>4 DEF Windows
    <2>2. WholeOK /\ TypeOK BY <1>1, <2>1, UpIsWhole DEF Inv
    <2>3. /\ W \in [Id -> Seq(Record)] /\ t \in Id /\ t = Tip /\ lo \in Nat /\ lo <= wr
          /\ wr \in Nat /\ hi \in Nat /\ Promises(history, kern, W, t, lo, wr, hi)
      BY <2>2 DEF WholeOK
    <2>4. /\ data \in [Id -> Seq(Record)] /\ data[t] \in Seq(Record) /\ history \in Seq(Contents)
      BY <2>2, <2>3 DEF TypeOK
    <2>5. b \in Seq(Record) BY <1>1, InFlightFacts
    <2>6. W[t] = data[t] \o b /\ \A id \in Id \ {t} : W[id] = data[id] BY <2>3 DEF Whole
    <2>7. Tip' = t BY <1>1, <2>3 DEF Tip, Newest
    <2>8. durable'[t] = lo BY <1>1
    <2> DEFINE d == data[t]
               m == wr + n
    <2>9. data' = [data EXCEPT ![t] = d \o SubSeq(b, 1, n)] BY <1>2, <2>3, <2>4
    <2>10. d \in Seq(Record) /\ wr = Len(d) /\ W[t] = d \o b BY <2>4, <2>6
    <2> HIDE DEF d, wr, b, t, W, hi
    <2>11. /\ d \o SubSeq(b, 1, n) = SubSeq(d \o b, 1, m) /\ m \in 0..Len(d \o b)
      BY <2>5, <2>10, PrefixOfConcat
    <2>12. hi = Len(W[t]) /\ n \in Nat /\ m \in Nat /\ m <= hi /\ wr <= m
      <3>1. n \in Nat BY <2>5, LenProperties
      <3>2. hi = Len(W[t]) BY DEF hi
      <3>3. QED BY <2>3, <2>10, <2>11, <3>1, <3>2
    <2> HIDE DEF m
    <2>13. m \in lo..hi /\ hi <= Len(W[t]) /\ durable'[t] \in lo..m /\ m \in 0..Len(W[t])
      <3> HIDE DEF lo
      <3>1. QED BY <2>3, <2>8, <2>12
    <2>14. data' = Cut(W, t, m)
      <3> DEFINE G == Cut(W, t, m)
      <3>1. /\ G \in [Id -> Seq(Record)] /\ G[t] = SubSeq(W[t], 1, m)
            /\ \A id \in Id \ {t} : G[id] = W[id]
        BY <2>3, <2>13, CutIs
      <3> HIDE DEF G
      <3>2. \A id \in Id : data'[id] = G[id] BY <2>3, <2>4, <2>6, <2>9, <2>10, <2>11, <3>1
      <3>3. data' \in [Id -> Seq(Record)] BY DEF Inv, TypeOK
      <3>4. data' = G BY <3>1, <3>2, <3>3, SameFiles
      <3>5. QED BY <3>4 DEF G
    <2> HIDE DEF lo
    <2>15. PICK f : /\ Backs(f, history, W, t, lo, hi)
                    /\ \A i \in lo..hi : wr <= i => kern <= f[i]
      BY <2>3 DEF Promises
    <2>16. kern' <= f[m] BY <1>1, <2>12, <2>13, <2>15
    <2>17. crash' # "power" /\ merge' = NoMerge /\ ~up' /\ history' = history BY <1>1
    <2>18. QED BY <2>3, <2>4, <2>7, <2>13, <2>14, <2>15, <2>16, <2>17, StopCuts
  <1>5. QED BY <1>3, <1>4

LEMMA PowerCutKeepsRec == ASSUME Inv, Inv', RecInv, PowerCut PROVE RecInv'
  <1> DEFINE most == Max({Len(data[id]) : id \in Id})
             t == Tip
  <1>1. /\ up \/ crash # "power"
        /\ crash' = "power" /\ ~up' /\ merge' = NoMerge /\ UNCHANGED <<dir, history, kern>>
        /\ excused' = excused \cup Windows \cup {x \in {"sealed"} : SealedUnsynced}
    BY DEF PowerCut, Forget
  <1>2. PICK keep \in [Volatile -> 0..most] :
        /\ \A id \in Volatile : durable[id] <= keep[id] /\ keep[id] <= Len(data[id])
        /\ data' = [id \in Id |-> IF id \in Volatile
                                  THEN SubSeq(data[id], 1, keep[id]) ELSE data[id]]
        /\ durable' = [id \in Id |-> Len(data'[id])]
    BY DEF PowerCut
  <1> HIDE DEF most
  <1>3. CASE excused' # {}
    <2>1. DownInv' BY <1>3 DEF DownInv
    <2>2. ServingInv' BY <1>1 DEF ServingInv, Serving
    <2>3. QED BY <1>1, <2>1, <2>2, NoMergeKeeps DEF RecInv
  <1>4. CASE excused' = {}
    <2>1. excused = {} /\ Windows = {} /\ ~SealedUnsynced BY <1>1, <1>4
    <2>2. ~UnlinkedOutOfOrder /\ ~RestoreInPlace BY <2>1 DEF Windows
    <2>3. TypeOK /\ FilesInv BY DEF Inv
    <2>4. /\ t \in Id /\ (dir # {} => t = Newest) BY <2>3, TipIs DEF TypeOK
    <2>5. \A id \in Volatile : id = t BY <2>1, <2>4 DEF Volatile, SealedUnsynced
    <2> DEFINE d == data[t]
               k == IF t \in Volatile THEN keep[t] ELSE Len(d)
               e == durable[t]
    <2>6. /\ data \in [Id -> Seq(Record)] /\ d \in Seq(Record) /\ Len(d) \in Nat
          /\ e \in Nat /\ e <= Len(d) /\ history \in Seq(Contents)
      BY <2>3, <2>4, LenProperties DEF TypeOK, FilesInv, FileOK
    <2>7. k \in e..Len(d)
      <3>1. t \in Volatile => keep[t] \in Int /\ e <= keep[t] /\ keep[t] <= Len(d) BY <1>2
      <3> HIDE DEF d, e
      <3>2. QED BY <2>6, <3>1
    <2>8. Tip' = t BY <1>1 DEF Tip, Newest
    <2>9. \A id \in Id : durable'[id] = Len(data'[id]) BY <1>2
    <2>10. data' = Cut(data, t, k)
      <3> DEFINE G == Cut(data, t, k)
      <3>1. k \in 0..Len(d)
        <4> HIDE DEF d, e, k
        <4>1. QED BY <2>6, <2>7
      <3>2. /\ G \in [Id -> Seq(Record)] /\ G[t] = SubSeq(d, 1, k)
            /\ \A id \in Id \ {t} : G[id] = data[id]
            /\ k = Len(d) => G = data
        <4> HIDE DEF k
        <4>1. QED BY <2>4, <2>6, <3>1, CutIs
      <3>3. data' \in [Id -> Seq(Record)] BY DEF Inv, TypeOK
      <3>4. \A id \in Id \ {t} : data'[id] = data[id] BY <1>2, <2>5
      <3>5. data'[t] = IF t \in Volatile THEN SubSeq(d, 1, keep[t]) ELSE d BY <1>2, <2>4
      <3> HIDE DEF G
      <3>6. data'[t] = G[t]
        <4>1. CASE t \in Volatile BY <3>2, <3>5, <4>1
        <4>2. CASE t \notin Volatile BY <3>2, <3>5, <4>2
        <4>3. QED BY <4>1, <4>2
      <3>7. \A id \in Id : data'[id] = G[id] BY <3>2, <3>4, <3>6
      <3>8. data' = G BY <3>2, <3>3, <3>7, SameFiles
      <3>9. QED BY <3>8 DEF G
    <2> HIDE DEF k
    <2>11. durable'[t] = k /\ Len(data'[t]) = k
      <3>1. k \in 0..Len(d)
        <4> HIDE DEF d, e
        <4>1. QED BY <2>6, <2>7
      <3>2. Len(Cut(data, t, k)[t]) = k BY <2>4, <2>6, <3>1, CutIs, ZenonT(40)
      <3>3. Len(data'[t]) = k BY <2>10, <3>2
      <3>4. QED BY <2>4, <2>9, <3>3
    <2>12. crash' = "power" /\ merge' = NoMerge /\ ~up' /\ history' = history BY <1>1
    <2>13. CASE up
      <3> DEFINE W == Whole
                 hi == Len(W[t])
      <3>1. WholeOK BY <2>2, <2>13, UpIsWhole
      <3>2. InFlight = t /\ W \in [Id -> Seq(Record)] /\ hi \in Nat
            /\ Promises(history, kern, W, t, e, Len(d), hi)
        BY <3>1 DEF WholeOK
      <3>3. /\ W[t] = d \o InFlightBuffer /\ InFlightBuffer \in Seq(Record)
            /\ \A id \in Id \ {t} : W[id] = data[id]
        BY <2>4, <2>13, <3>2, InFlightFacts DEF Whole
      <3> HIDE DEF W
      <3>4. PICK f : Backs(f, history, W, t, e, hi) BY <3>2 DEF Promises
      <3>5. Grows(d, W[t]) BY <2>6, <3>3, GrowsFacts
      <3>6. Len(d) <= hi /\ \A i \in 1..Len(d) : W[t][i] = d[i] BY <3>5 DEF Grows
      <3> HIDE DEF d, e, t
      <3>7. hi = Len(W[t]) OBVIOUS
      <3> HIDE DEF hi
      <3>8. k \in e..hi /\ hi <= Len(W[t]) /\ durable'[t] \in e..k /\ k \in 0..Len(W[t]) /\ k \in 0..Len(d)
        BY <2>6, <2>7, <2>11, <3>2, <3>6, <3>7
      <3>9. data' = Cut(W, t, k)
        <4> DEFINE D == data
        <4>1. D \in [Id -> Seq(Record)] /\ D[t] = d /\ \A id \in Id \ {t} : D[id] = W[id]
          BY <2>6, <3>3 DEF d
        <4>2. data' = Cut(D, t, k) BY <2>10
        <4>3. \A i \in 1..k : i \in 1..Len(d) BY <2>6, <3>8
        <4> HIDE DEF D
        <4>4. \A i \in 1..k : D[t][i] = W[t][i] BY <3>6, <4>1, <4>3
        <4>5. QED BY <2>4, <3>2, <3>8, <4>1, <4>2, <4>4, SameCut
      <3>10. QED BY <2>4, <2>6, <2>8, <2>9, <2>12, <3>2, <3>4, <3>8, <3>9, StopCuts
    <2>14. CASE ~up
      <3> DEFINE D == data
                 hi == Len(d)
      <3>1. PICK f : Backs(f, history, D, t, e, hi) BY <2>1, <2>14 DEF RecInv, DownInv
      <3>2. D \in [Id -> Seq(Record)] /\ hi = Len(D[t]) /\ hi \in Nat /\ data' = Cut(D, t, k)
        BY <2>6, <2>10
      <3> HIDE DEF D, hi, d, e, t
      <3>3. k \in e..hi /\ hi <= Len(D[t]) /\ durable'[t] \in e..k BY <2>6, <2>7, <2>11, <3>2 DEF hi
      <3>4. QED BY <2>4, <2>6, <2>8, <2>9, <2>12, <3>1, <3>2, <3>3, StopCuts
    <2>15. QED BY <2>13, <2>14
  <1>5. QED BY <1>3, <1>4

-----------------------------------------------------------------------------
(* Opening.                                                                *)

(* Contents that the last stop may leave are kept, and all before them.    *)
LEMMA KeptAbove ==
    ASSUME TypeOK, NEW c \in Contents, NEW i \in 1..Len(history), history[i] = c,
           crash # "power" => kern <= i
    PROVE  Kept(c) # 0 /\ i <= Kept(c)
  <1> DEFINE floor == IF crash = "power" THEN 1 ELSE kern
             same == {j \in floor..Len(history) : history[j] = c}
  <1>1. kern \in 1..Len(history) /\ Len(history) \in Nat BY LenProperties DEF TypeOK
  <1>2. floor \in Nat /\ floor >= 1 /\ floor <= i BY <1>1
  <1> HIDE DEF floor
  <1>3. same \in SUBSET Nat /\ \A x \in same : x <= Len(history) /\ x # 0 BY <1>1, <1>2
  <1>4. i \in same BY <1>1, <1>2
  <1>5. Kept(c) = IF same = {} THEN 0 ELSE Max(same) BY DEF Kept, floor
  <1> HIDE DEF same
  <1>6. Max(same) \in same /\ \A x \in same : x <= Max(same) BY <1>1, <1>3, <1>4, MaxFacts
  <1>7. QED BY <1>3, <1>4, <1>5, <1>6

(* The history is cut after contents that all of the files hold.           *)
LEMMA PromisesPrefix ==
    ASSUME NEW F \in [Id -> Seq(Record)], NEW a \in Id, NEW lo \in Nat, NEW hi \in Nat,
           hi <= Len(F[a]), NEW h \in Seq(Contents), NEW f, Backs(f, h, F, a, lo, hi),
           NEW k \in 1..Len(h), f[hi] <= k, Holds(Cut(F, a, hi), h[k]),
           NEW low \in lo..hi, NEW h2, h2 = SubSeq(h, 1, k)
    PROVE  Promises(h2, Len(h2), F, a, low, hi, hi)
  <1> DEFINE g == [n \in low..hi |-> IF n = hi THEN k ELSE f[n]]
  <1>1. Len(h) \in Nat /\ k \in Nat /\ k >= 1 /\ k \in 0..Len(h) /\ k \in 1..k
    <2>1. Len(h) \in Nat BY LenProperties
    <2>2. QED BY <2>1
  <1>2. Len(h2) = k /\ \A i \in 1..k : h2[i] = h[i] BY <1>1, PrefixIs
  <1>3. low \in Nat /\ hi \in low..hi /\ hi \in lo..hi /\ \A n \in low..hi : n \in lo..hi /\ n <= hi
    OBVIOUS
  <1>4. \A n \in lo..hi : f[n] \in Nat /\ f[n] >= 1 /\ f[n] <= k
    <2> TAKE n \in lo..hi
    <2>1. f[n] \in 1..Len(h) /\ f[hi] \in 1..Len(h) /\ f[n] <= f[hi] BY <1>3 DEF Backs
    <2>2. QED BY <1>1, <2>1
  <1>5. \A n \in low..hi : g[n] = IF n = hi THEN k ELSE f[n] OBVIOUS
  <1>6. g \in [low..hi -> 1..k] BY <1>1, <1>3, <1>4
  <1> HIDE DEF g
  <1>7. \A m, n \in low..hi : m <= n => g[m] <= g[n]
    <2> SUFFICES ASSUME NEW m \in low..hi, NEW n \in low..hi, m <= n PROVE g[m] <= g[n] OBVIOUS
    <2>1. f[m] <= f[n] BY <1>3 DEF Backs
    <2>2. CASE n = hi BY <1>1, <1>3, <1>4, <1>5, <2>2
    <2>3. CASE n # hi
      <3>1. m # hi BY <1>3, <2>3
      <3>2. QED BY <1>5, <2>1, <2>3, <3>1
    <2>4. QED BY <2>2, <2>3
  <1>8. \A n \in low..hi : Holds(Cut(F, a, n), h2[g[n]])
    <2> TAKE n \in low..hi
    <2>1. CASE n = hi BY <1>1, <1>2, <1>5, <2>1
    <2>2. CASE n # hi
      <3>1. g[n] = f[n] /\ f[n] \in 1..k /\ n \in lo..hi BY <1>1, <1>3, <1>4, <1>5, <2>2
      <3>2. QED BY <1>2, <3>1 DEF Backs
    <2>3. QED BY <2>1, <2>2
  <1>9. Backs(g, h2, F, a, low, hi) BY <1>2, <1>6, <1>7, <1>8 DEF Backs
  <1>10. g[hi] = Len(h2) BY <1>2, <1>3, <1>5
  <1>11. \A n \in low..hi : hi <= n => Len(h2) <= g[n]
    <2> SUFFICES ASSUME NEW n \in low..hi, hi <= n PROVE Len(h2) <= g[n] OBVIOUS
    <2>1. n = hi BY <1>3
    <2>2. QED BY <1>1, <1>2, <1>10, <2>1
  <1>12. QED BY <1>9, <1>10, <1>11 DEF Promises

(* A history with the contents of the file after each of its records.      *)
LEMMA PromisesEach ==
    ASSUME NEW F, NEW a, NEW lo \in Nat, NEW hi \in Nat, lo <= hi, NEW h2,
           Len(h2) = hi - lo + 1,
           \A n \in lo..hi : Holds(Cut(F, a, n), h2[n - lo + 1])
    PROVE  Promises(h2, Len(h2), F, a, lo, hi, hi)
  <1> DEFINE g == [n \in lo..hi |-> n - lo + 1]
             L == Len(h2)
  <1>1. \A n \in lo..hi : g[n] = n - lo + 1 /\ n - lo + 1 \in 1..L /\ n \in Nat /\ n <= hi OBVIOUS
  <1>2. g \in [lo..hi -> 1..L] BY <1>1
  <1>3. hi \in lo..hi /\ L \in Nat /\ L = hi - lo + 1 OBVIOUS
  <1> HIDE DEF g, L
  <1>4. \A m, n \in lo..hi : m <= n => g[m] <= g[n] BY <1>1
  <1>5. \A n \in lo..hi : Holds(Cut(F, a, n), h2[g[n]]) BY <1>1
  <1>6. Backs(g, h2, F, a, lo, hi) BY <1>2, <1>4, <1>5 DEF Backs, L
  <1>7. g[hi] = L /\ \A n \in lo..hi : hi <= n => L <= g[n] BY <1>1, <1>3
  <1>8. QED BY <1>6, <1>7 DEF Promises, L

LEMMA OpenKeepsRec ==
    ASSUME Inv, Inv', RecInv, NEW verify \in BOOLEAN, NEW hinted \in BOOLEAN,
           Open(verify, hinted)
    PROVE  RecInv'
  <1> DEFINE t == Tip
             sealed == {id \in dir : Len(Believed(id, verify)) < Len(data[id])} \ {t}
             found == Recovered(verify)
             kept == IF excused # {} \/ crash = "power" THEN 0 ELSE Kept(found)
             hi == Len(data[t])
             lo == durable[t]
             low == durable'[t]
  <1>1. /\ ~up /\ up' = TRUE /\ durable' = SyncedAtOpen(sealed)
        /\ keydir' = Replayed(verify) /\ w' = Attach(t, OpenWriter(data[t], durable[t]))
        /\ UNCHANGED <<data, merge>>
    BY DEF Open, TornAfterOpen, bound, Tip
  <1>2. /\ history' = IF kept # 0 THEN SubSeq(history, 1, kept)
                      ELSE [i \in 1..(Len(data[t]) - durable'[t] + 1) |->
                               FoundUpTo(durable'[t] + i - 1, verify)]
        /\ kern' = Len(history')
    BY <1>1 DEF Open, Tip, Recovered
  <1>3. TypeOK /\ FilesInv /\ merge' = NoMerge /\ dir \subseteq Id
    BY <1>1 DEF Inv, StoppedInv, TypeOK
  <1>4. t \in Id BY <1>3, TipIs
  <1>5. FilesOK /\ FilesOK' BY <1>3, FilesAre, FilesAreNext DEF Inv
  <1>6. w'.id = t BY <1>1 DEF Attach
  <1>7. w'.pending = <<>> BY <1>1 DEF Attach, OpenWriter
  <1>8. merge'.kind # "compact" BY <1>3 DEF NoMerge
  <1>9. ActiveOK' BY <1>1, <1>8, ActiveFileNext
  <1>10. Kernel' = data
    <2>1. \A id \in Id : Kernel'[id] = data[id]
      <3> TAKE id \in Id
      <3>1. data[id] \in Seq(Record) /\ data' = data BY <1>1, <1>5 DEF FilesOK
      <3>2. data[id] \o <<>> = data[id] BY <3>1, ConcatEmptySeq
      <3>3. Kernel'[id] = Held(id)' BY <1>5 DEF FilesOK
      <3>4. QED BY <1>7, <3>1, <3>2, <3>3 DEF Held
    <2>2. QED BY <1>5, <2>1, SameFiles DEF FilesOK
  <1>11. w'.offset = hi /\ w'.written = hi BY <1>1, <1>6, <1>9, <1>10 DEF ActiveOK
  <1>12. lo \in Nat /\ hi \in Nat /\ lo <= hi BY <1>3, <1>4, <1>5 DEF FilesOK, FilesInv, FileOK
  <1>13. low = lo \/ low = hi BY <1>1, <1>4 DEF SyncedAtOpen
  <1>14. data \in [Id -> Seq(Record)] /\ history \in Seq(Contents) /\ Len(history) \in Nat
    BY <1>5 DEF FilesOK
  <1>15. Holds(data, found) /\ found \in Contents BY <1>3, ReplayedFacts
  <1> HIDE DEF t, found, hi, lo, low, sealed
  <1>16. low \in lo..hi /\ low \in Nat /\ hi \in 0..hi BY <1>12, <1>13
  <1>17. Promises(history', Len(history'), data, t, low, hi, hi)
    <2>1. CASE kept # 0
      <3>1. kept = Kept(found) /\ excused = {} /\ crash # "power" BY <2>1
      <3>2. PICK f : Backs(f, history, data, t, lo, hi) /\ kern <= f[hi]
        BY <1>1, <3>1 DEF RecInv, DownInv, t, lo, hi
      <3>3. hi \in lo..hi /\ hi <= Len(data[t]) /\ hi \in 0..Len(data[t]) BY <1>12 DEF hi
      <3>4. f[hi] \in 1..Len(history) /\ history[f[hi]] \in Contents
            /\ Holds(Cut(data, t, hi), history[f[hi]])
        BY <1>4, <1>12, <1>14, <3>2, <3>3, BacksFacts
      <3>5. Cut(data, t, hi) = data BY <1>4, <1>14, <3>3, CutIs DEF hi
      <3>6. history[f[hi]] = found BY <1>14, <1>15, <3>4, <3>5, OneHolding
      <3>7. f[hi] <= Kept(found) BY <1>3, <1>15, <3>2, <3>4, <3>6, KeptAbove
      <3>8. Kept(found) # 0 BY <2>1, <3>1
      <3>9. /\ Kept(found) \in 1..Len(history)
            /\ Len(SubSeq(history, 1, Kept(found))) = Kept(found)
            /\ Last(SubSeq(history, 1, Kept(found))) = found
        BY <1>3, <1>15, <3>8, KeptIs
      <3> DEFINE k == Kept(found)
      <3>10. k \in 1..Len(history) /\ k \in 1..k /\ k \in 0..Len(history) BY <1>14, <3>9
      <3>11. history' = SubSeq(history, 1, k) BY <1>2, <3>1, <3>8
      <3> HIDE DEF k
      <3>12. history[k] = found
        <4>1. SubSeq(history, 1, k)[k] = history[k] BY <1>14, <3>10, PrefixIs
        <4>2. QED BY <3>9, <4>1 DEF Last, k
      <3>13. f[hi] <= k BY <3>7 DEF k
      <3>14. Holds(Cut(data, t, hi), history[k]) BY <1>15, <3>5, <3>12
      <3>15. QED
        BY <1>4, <1>12, <1>14, <1>16, <3>2, <3>3, <3>10, <3>11, <3>13, <3>14, PromisesPrefix
    <2>2. CASE kept = 0
      <3> DEFINE size == hi - low + 1
                 at(i) == FoundUpTo(low + i - 1, verify)
      <3>1. history' = [i \in 1..size |-> at(i)] BY <1>2, <2>2 DEF hi, low
      <3>2. size \in Nat BY <1>12, <1>16
      <3>3. Len(history') = size
        <4> HIDE DEF size, at
        <4>1. \A i \in 1..size : at(i) \in {at(j) : j \in 1..size} OBVIOUS
        <4>2. QED BY <3>1, <3>2, <4>1, IsASeq
      <3>4. \A n \in low..hi : Holds(Cut(data, t, n), history'[n - low + 1])
        <4> TAKE n \in low..hi
        <4>1. n \in 0..hi /\ n - low + 1 \in 1..size /\ low + (n - low + 1) - 1 = n BY <1>12, <1>16
        <4>2. Holds(Cut(data, t, n), FoundUpTo(n, verify)) BY <1>3, <4>1, FoundIs DEF t, hi
        <4> HIDE DEF size
        <4>3. history'[n - low + 1] = at(n - low + 1) BY <3>1, <4>1
        <4>4. QED BY <4>1, <4>2, <4>3
      <3>5. low <= hi BY <1>12, <1>16
      <3>6. Len(history') = hi - low + 1 BY <3>3
      <3>7. QED BY <1>12, <1>16, <3>4, <3>5, <3>6, PromisesEach
    <2>3. QED BY <2>1, <2>2
  <1>18. Standing' = data /\ \A id \in Id : Indexed'[id] = data[id] BY <1>3, <1>10, NoMergeKeeps
  <1>19. Promised' BY <1>2, <1>6, <1>11, <1>17, <1>18 DEF Promised, low
  <1>20. Indexed' = data BY <1>5, <1>14, <1>18, SameFiles DEF FilesOK
  <1>21. \A k \in Keys : Points(Indexed', k, keydir'[k]) BY <1>1, <1>3, <1>20, ReplayedFacts
  <1>22. ServingInv' BY <1>19, <1>21 DEF ServingInv
  <1>23. DownInv' BY <1>1 DEF DownInv
  <1>24. QED BY <1>3, <1>22, <1>23, NoMergeKeeps DEF RecInv

-----------------------------------------------------------------------------
(* What the files promise holds throughout.                                *)

LEMMA InitRec == ASSUME Init PROVE RecInv
  <1>1. /\ dir = {} /\ data = [id \in Id |-> <<>>] /\ durable = [id \in Id |-> 0]
        /\ up = FALSE /\ merge = NoMerge /\ history = <<[k \in Keys |-> Absent]>>
        /\ kern = 1 /\ crash = "close"
    BY DEF Init
  <1>2. Inv BY InitHolds
  <1>3. merge.kind = "none" /\ merge.stage = "idle" BY <1>1 DEF NoMerge
  <1>4. ServingInv /\ CompactInv BY <1>1 DEF ServingInv, CompactInv, Serving
  <1>5. ViewInv /\ DeadInv /\ OutInv /\ SlotInv /\ RestoreInv
    BY <1>3 DEF ViewInv, DeadInv, OutInv, SlotInv, RestoreInv, Merging
  <1>6. DownInv
    <2> DEFINE t == Tip
               f == [n \in 0..0 |-> 1]
               none == [k \in Keys |-> Absent]
    <2>1. t \in Id BY <1>1, TipIs
    <2>2. durable[t] = 0 /\ data[t] = <<>> /\ Len(data[t]) = 0 BY <1>1, <2>1, EmptySeq
    <2>3. none \in Contents BY DEF Contents
    <2>4. Len(history) = 1 /\ history[1] = none BY <1>1, <2>3, OneContents
    <2>5. data \in [Id -> Seq(Record)] /\ \A id \in Id : Len(data[id]) = 0 BY <1>1, EmptySeq
    <2>6. Cut(data, t, 0) = data
      <3>1. 0 \in 0..Len(data[t]) /\ 0 = Len(data[t]) BY <2>2
      <3>2. QED BY <2>1, <2>5, <3>1, CutIs
    <2>7. Holds(data, none)
      <3> SUFFICES ASSUME NEW k \in Keys PROVE Reads(data, k, none[k]) BY DEF Holds
      <3>1. \A a, i : ~Place(data, k, a, i) BY <2>5 DEF Place
      <3>2. Erased(data, k) BY <3>1 DEF Erased
      <3>3. QED BY <3>2 DEF Reads
    <2> HIDE DEF none
    <2>8. \A n \in 0..0 : n = 0 OBVIOUS
    <2>9. \A n \in 0..0 : f[n] = 1 OBVIOUS
    <2>10. f \in [0..0 -> 1..1] /\ 0 \in 0..0 OBVIOUS
    <2> HIDE DEF f
    <2>11. Backs(f, history, data, t, 0, 0)
      <3>1. \A n \in 0..0 : Holds(Cut(data, t, n), history[f[n]]) BY <2>4, <2>6, <2>7, <2>8, <2>9
      <3>2. \A m, n \in 0..0 : m <= n => f[m] <= f[n] BY <2>9
      <3>3. QED BY <2>4, <2>10, <3>1, <3>2 DEF Backs
    <2>12. kern <= f[0] BY <1>1, <2>9, <2>10
    <2>13. QED BY <1>1, <2>2, <2>11, <2>12 DEF DownInv
  <1>7. QED BY <1>4, <1>5, <1>6 DEF RecInv

LEMMA StutterKeepsRec == ASSUME RecInv, UNCHANGED vars PROVE RecInv'
  <1>1. UNCHANGED <<dir, data, durable, torn, hints, up, keydir, live_bytes, readers, w,
                    activeHints, disk_bytes, merge, history, kern, crash, excused,
                    writes, crashes, merges>>
    BY DEF vars, disk, index, ghost, bound
  <1>2. Kernel' = Kernel BY <1>1 DEF Kernel, Held
  <1>3. Standing' = Standing BY <1>1, <1>2 DEF Standing
  <1>4. Indexed' = Indexed /\ Old' = Old BY <1>1, <1>3 DEF Indexed, Old
  <1>5. ServingInv'
    <2>1. Serving' = Serving BY <1>1 DEF Serving, RestoreInPlace
    <2>2. Promised' = Promised BY <1>1, <1>3 DEF Promised
    <2>3. QED BY <1>1, <1>4, <2>1, <2>2 DEF RecInv, ServingInv
  <1>6. CompactInv' BY <1>1, <1>4 DEF RecInv, CompactInv
  <1>7. ViewInv' BY <1>1, <1>4 DEF RecInv, ViewInv, Merging
  <1>8. DeadInv'
    <2> SUFFICES DeadInv' = DeadInv BY DEF RecInv
    <2>1. Merging' = Merging BY <1>1 DEF Merging
    <2>2. QED BY <1>1, <1>4, <2>1 DEF DeadInv
  <1>9. OutInv'
    <2> SUFFICES OutInv' = OutInv BY DEF RecInv
    <2>1. Merging' = Merging /\ Out' = Out BY <1>1 DEF Merging, Out
    <2>2. QED BY <1>1, <1>4, <2>1 DEF OutInv
  <1>10. SlotInv' /\ RestoreInv' BY <1>1 DEF RecInv, SlotInv, RestoreInv
  <1>11. DownInv'
    <2>1. Tip' = Tip BY <1>1 DEF Tip, Newest
    <2>2. QED BY <1>1, <2>1 DEF RecInv, DownInv
  <1>12. QED BY <1>5, <1>6, <1>7, <1>8, <1>9, <1>10, <1>11 DEF RecInv

LEMMA NextKeepsRec == ASSUME Inv, Inv', RecInv, [Next]_vars PROVE RecInv'
  <1>1. CASE UNCHANGED vars BY <1>1, StutterKeepsRec
  <1>2. CASE ClientStep
    <2>1. Reaches \subseteq Reach BY PolicyAssumption DEF Reaches, Reach
    <2>2. QED BY <1>2, <2>1, PutKeepsRec, DeleteKeepsRec, SyncKeepsRec DEF ClientStep
  <1>3. CASE CompactStep
    BY <1>3, BeginCompactKeepsRec, CopyRecordKeepsRec, SyncMergedKeepsRec, EndCompactKeepsRec
       DEF CompactStep
  <1>4. CASE UnlinkStep BY <1>4, UnlinkHintKeepsRec, UnlinkDataKeepsRec DEF UnlinkStep
  <1>5. CASE JobStep
    <2>1. CASE BeginCompaction \/ BeginRestore
      BY <2>1, SealLeavingASlotKeepsRec DEF BeginCompaction, BeginRestore
    <2>2. CASE FinishCompaction \/ EndCompaction \/ FinishRestore \/ EndRestore \/ Abandon
      BY <2>2, FinishCompactionKeepsRec, EndCompactionKeepsRec, FinishRestoreKeepsRec,
         EndRestoreKeepsRec, AbandonKeepsRec
    <2>3. CASE \E k \in Keys : JobCopy(k) BY <2>3, JobCopyKeepsRec
    <2>4. CASE \E k \in Keys, v \in Values : RestorePush(k, v) BY <2>4, RestorePushKeepsRec
    <2>5. CASE \E hinted \in BOOLEAN : PlacePart(hinted) BY <2>5, PlacePartKeepsRec
    <2>6. QED BY <1>5, <2>1, <2>2, <2>3, <2>4, <2>5 DEF JobStep
  <1>6. CASE StopStep
    BY <1>6, KillKeepsRec, PowerCutKeepsRec, CloseKeepsRec, OpenKeepsRec DEF StopStep
  <1>7. QED BY <1>1, <1>2, <1>3, <1>4, <1>5, <1>6 DEF Next

LEMMA RecHolds == Spec => []RecInv
  <1>1. Init => RecInv BY InitRec
  <1>2. Inv /\ Inv' /\ RecInv /\ [Next]_vars => RecInv' BY NextKeepsRec
  <1>3. QED BY <1>1, <1>2, InvHolds, PTL DEF Spec

(* README "Recovery is a replay": in any state a close, a kill of the      *)
(* process or a power cut can leave, whatever writes, merges, restores and *)
(* earlier stops came before and however much of the unsynced tail was     *)
(* taken, what open_with would rebuild, from the data files or through     *)
(* their hints, is the contents after some prefix of the writes, and the   *)
(* prefix has every write promised to survive that kind of stop. Only a    *)
(* stop inside one of the windows `excused' names is left out.             *)
THEOREM PromisesAreAlwaysKept == Spec => []RecoveryKeepsPromises
  <1>1. ASSUME Inv, RecInv PROVE RecoveryKeepsPromises
    <2> SUFFICES ASSUME ~up, excused = {}, NEW verify \in BOOLEAN PROVE Kept(Recovered(verify)) # 0
      BY DEF RecoveryKeepsPromises
    <2> DEFINE t == Tip
               hi == Len(data[t])
               lo == durable[t]
               found == Recovered(verify)
    <2>1. TypeOK /\ FilesInv /\ dir \subseteq Id /\ FilesOK BY <1>1, FilesAre DEF Inv, TypeOK
    <2>2. t \in Id BY <2>1, TipIs
    <2>3. lo \in Nat /\ hi \in Nat /\ lo <= hi BY <2>1, <2>2 DEF FilesOK, FilesInv, FileOK
    <2>4. data \in [Id -> Seq(Record)] /\ history \in Seq(Contents) BY <2>1 DEF FilesOK
    <2>5. Holds(data, found) /\ found \in Contents BY <2>1, ReplayedFacts
    <2>6. PICK f : Backs(f, history, data, t, lo, hi) /\ (crash # "power" => kern <= f[hi])
      BY <1>1 DEF RecInv, DownInv
    <2> HIDE DEF t, found, lo, hi
    <2>7. hi \in lo..hi /\ hi <= Len(data[t]) /\ hi \in 0..Len(data[t]) BY <2>3 DEF hi
    <2>8. f[hi] \in 1..Len(history) /\ history[f[hi]] \in Contents
          /\ Holds(Cut(data, t, hi), history[f[hi]])
      BY <2>2, <2>3, <2>4, <2>6, <2>7, BacksFacts
    <2>9. Cut(data, t, hi) = data BY <2>2, <2>4, <2>7, CutIs DEF hi
    <2>10. history[f[hi]] = found BY <2>4, <2>5, <2>8, <2>9, OneHolding
    <2>11. Kept(found) # 0 BY <2>1, <2>5, <2>6, <2>8, <2>10, KeptAbove
    <2>12. QED BY <2>11 DEF found
  <1>2. QED BY <1>1, InvHolds, RecHolds, PTL

=============================================================================
