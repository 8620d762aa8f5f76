----------------------------- MODULE LogWriter -----------------------------
(***************************************************************************)
(* src/log.rs: the append end of one data file.                            *)
(*                                                                         *)
(* A LogWriter buffers records in memory (pending), hands them to the      *)
(* kernel (file) and asks the kernel to put them on the disk.  What the    *)
(* kernel would lose if the power went is everything after the first       *)
(* `durable' records; that field is the environment's, the program never   *)
(* reads it.  Its own account of the same thing is `synced'.               *)
(*                                                                         *)
(* Every record is one unit long, so an offset is a number of records.     *)
(***************************************************************************)
EXTENDS Naturals, Sequences

CONSTANTS
    Keys,        \* keys a client may use
    Values,      \* values a client may store
    Absent,      \* no value: a tombstone in a record, a missing key in a map
    MaxPending   \* log.rs MAX_PENDING: buffered records that force a flush

ASSUME AbsentAssumption == Absent \notin Values
ASSUME MaxPendingAssumption == MaxPending \in Nat \ {0}

Record == [key : Keys, val : Values \cup {Absent}]

(* log.rs Reach: how far an append has to get before it returns.           *)
Reach == {"Buffer", "Kernel", "Disk"}

Writer == [file    : Seq(Record),
           durable : Nat,
           offset  : Nat,
           written : Nat,
           synced  : Nat,
           pending : Seq(Record)]

(* LogWriter::open.  Whatever the file holds counts as synced.             *)
OpenWriter(file, durable) ==
    [file    |-> file,
     durable |-> durable,
     offset  |-> Len(file),
     written |-> Len(file),
     synced  |-> Len(file),
     pending |-> <<>>]

(* LogWriter::flush: the buffer goes to the kernel in one write.           *)
Flush(lw) ==
    [lw EXCEPT !.file    = @ \o lw.pending,
               !.written = IF lw.pending = <<>> THEN @ ELSE lw.offset,
               !.pending = <<>>]

(* File::sync_data on the writer's own file.                               *)
SyncData(lw) == [lw EXCEPT !.durable = Len(lw.file), !.synced = lw.offset]

(* LogWriter::sync.                                                        *)
SyncWriter(lw) == SyncData(Flush(lw))

(* The direct path of LogWriter::append: nothing is buffered ahead of the  *)
(* record, so it goes straight to the kernel.                              *)
AppendDirect(lw, rec) ==
    [lw EXCEPT !.file    = Append(@, rec),
               !.offset  = @ + 1,
               !.written = lw.offset + 1]

(* The buffered path.                                                      *)
Buffered(lw, rec) ==
    [lw EXCEPT !.pending = Append(@, rec), !.offset = @ + 1]

(* LogWriter::append.                                                      *)
AppendRecord(lw, rec, reach) ==
    LET direct == reach # "Buffer" /\ lw.pending = <<>>
        after  == IF direct THEN AppendDirect(lw, rec) ELSE Buffered(lw, rec)
    IN  IF reach = "Disk" THEN SyncWriter(after)
        ELSE IF reach = "Kernel" \/ Len(after.pending) >= MaxPending
        THEN Flush(after)
        ELSE after

(* Whether LogWriter::buffered finds the record at an offset in the buffer *)
(* rather than in the file, and the record it then returns.                *)
InBuffer(lw, off) == off >= lw.written /\ off - lw.written < Len(lw.pending)
BufferedAt(lw, off) == lw.pending[off - lw.written + 1]

(***************************************************************************)
(* What the rest of the store relies on: the buffer starts where the       *)
(* kernel's file ends, and the disk holds no more than the kernel.         *)
(***************************************************************************)
WriterOK(lw) ==
    /\ lw \in Writer
    /\ lw.written = Len(lw.file)
    /\ lw.offset = lw.written + Len(lw.pending)
    /\ lw.durable <= lw.written
    /\ lw.synced <= lw.offset
=============================================================================
