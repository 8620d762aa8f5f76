---------------------------- MODULE GroupCommit ----------------------------
(***************************************************************************)
(* src/server.rs: connections that append under the store's lock, hold     *)
(* their replies, and share fsyncs (GroupCommit::wait).  One process per   *)
(* connection thread; a step is what happens between two lock operations   *)
(* or during one system call.                                              *)
(*                                                                         *)
(* The store is reduced to how far its log has got.  A point is a file id  *)
(* and an offset in it; files before the active one are durable, which is  *)
(* Store's SealedFilesAreDurable.  A point is in the kernel once flushed   *)
(* and on the disk once an fsync of its file has covered it.               *)
(***************************************************************************)
EXTENDS Integers, FiniteSets

CONSTANTS
    Conns,         \* connections
    MaxFile,       \* Options::max_file_bytes, in records
    FailureDrops,  \* a failed fsync leaves pages clean that are not on disk
    MaxWrites,     \* bound: commands that write
    MaxFailures,   \* bound: failed fsyncs
    MaxKills       \* bound: kills of the server

ASSUME ConnsAssumption == IsFiniteSet(Conns)
ASSUME MaxFileAssumption == MaxFile \in Nat \ {0}
ASSUME FailureAssumption == FailureDrops \in BOOLEAN
ASSUME BoundsAssumption == {MaxWrites, MaxFailures, MaxKills} \subseteq Nat

VARIABLES
    policy,    \* the store's Options::sync: "Disk" or "Kernel"
    appended,  \* Store::append_point
    flushed,   \* how far the kernel has the log
    disk,      \* how far the disk has it
    noted,     \* LogWriter::synced of the active file
    dropped,   \* a failed fsync has left a hole that no later one fills
    point, syncing,  \* Durable
    pc,        \* where each connection's thread is
    by,        \* durable_by: what its held replies wait for
    own,       \* the last record it appended whose reply is held
    handle,    \* the point of the SyncHandle it took
    acked,     \* the last of its records it has acknowledged
    writes, failures, kills

log    == <<policy, appended, flushed, disk, noted, dropped>>
commit == <<point, syncing>>
conn   == <<pc, by, own, handle, acked>>
bound  == <<writes, failures, kills>>
vars   == <<log, commit, conn, bound>>

Point == [id : Nat, off : Nat]
Start == [id |-> 0, off |-> 0]     \* before everything
Leq(p, q) == p.id < q.id \/ (p.id = q.id /\ p.off <= q.off)
Later(p, q) == IF Leq(p, q) THEN q ELSE p

States == {"serving",   \* reading and running commands
           "check",     \* woken or arriving, about to take the mutex in wait
           "sleep",     \* in Condvar::wait
           "handle",    \* chosen to sync, about to take a handle
           "fsync",     \* handle taken, store let go
           "note",      \* fsync returned, about to tell the store
           "settle",    \* about to take the mutex back
           "failed",    \* the same, with an error
           "gone"}      \* hung up

Init ==
    /\ policy \in {"Disk", "Kernel"}
    /\ appended = [id |-> 1, off |-> 0] /\ flushed = appended
    /\ disk = appended /\ noted = 0 /\ dropped = FALSE
    /\ point = appended /\ syncing = FALSE
    /\ pc = [c \in Conns |-> "serving"]
    /\ by = [c \in Conns |-> Start] /\ own = [c \in Conns |-> Start]
    /\ handle = [c \in Conns |-> Start]
    /\ acked = [c \in Conns |-> Start]
    /\ writes = 0 /\ failures = 0 /\ kills = 0

Goto(c, label) == pc' = [pc EXCEPT ![c] = label]
(* The disk takes everything up to p, unless a hole stops it short.        *)
Reach(p) == IF dropped THEN disk ELSE Later(disk, p)

-----------------------------------------------------------------------------
(* dispatch and must_reach: a write command, under the store's lock.       *)

(* put or put_deferred by the policy.  roll_if_needed syncs the file it    *)
(* seals, which makes everything before the new one durable.               *)
MustRoll_OneLate == appended.off # 0 /\ appended.off > MaxFile
MustRoll == appended.off # 0 /\ appended.off + 1 > MaxFile
Append ==
    LET roll == MustRoll
        next == IF roll THEN [id |-> appended.id + 1, off |-> 1]
                ELSE [id |-> appended.id, off |-> appended.off + 1]
        head == [id |-> next.id, off |-> 0]
    IN  /\ appended' = next
        /\ flushed' = IF policy = "Kernel" THEN next
                      ELSE IF roll THEN head ELSE flushed
        /\ disk' = IF roll THEN Reach(head) ELSE disk
        /\ noted' = IF roll THEN 0 ELSE noted
        /\ UNCHANGED <<policy, dropped>>

(* must_reach; a reply that waits for nothing acknowledges at once.        *)
MustReach_Forgotten(c) == UNCHANGED by
MustReach(c) ==
    by' = [by EXCEPT ![c] = IF policy = "Disk" THEN Later(@, appended') ELSE @]

Write(c) ==
    /\ pc[c] = "serving" /\ writes < MaxWrites
    /\ Append
    /\ MustReach(c)
    /\ own' = [own EXCEPT ![c] = appended']
    /\ writes' = writes + 1
    /\ UNCHANGED <<commit, pc, handle, acked, failures, kills>>

(* A write command that finds nothing to do (DEL of a missing key, SET NX  *)
(* of a present one) appends nothing, and waits for what it saw.           *)
WriteNothing(c) ==
    /\ pc[c] = "serving" /\ writes < MaxWrites
    /\ UNCHANGED log
    /\ MustReach(c)
    /\ writes' = writes + 1
    /\ UNCHANGED <<commit, pc, own, handle, acked, failures, kills>>

(* The held replies go out, and acknowledge what the connection appended.  *)
Reply(c) ==
    /\ Goto(c, "serving")
    /\ acked' = [acked EXCEPT ![c] = Later(@, own[c])]
    /\ by' = [by EXCEPT ![c] = Start] /\ own' = [own EXCEPT ![c] = Start]

(* send: there is nothing left to parse, or too many replies are held.     *)
(* Replies that wait for nothing leave at once.                            *)
Send(c) ==
    /\ pc[c] = "serving"
    /\ \/ by[c] # Start /\ Goto(c, "check") /\ UNCHANGED <<by, own, acked>>
       \/ by[c] = Start /\ own[c] # Start /\ Reply(c)
    /\ UNCHANGED <<log, commit, handle, bound>>

-----------------------------------------------------------------------------
(* GroupCommit::wait.                                                      *)

(* The thread that will fsync for everyone says so.                        *)
ClaimSync_Unsaid == UNCHANGED syncing
ClaimSync == syncing' = TRUE

(* The loop's body, under the mutex.                                       *)
Check(c) ==
    /\ pc[c] = "check"
    /\ \/ /\ Leq(by[c], point)
          /\ Reply(c)
          /\ UNCHANGED syncing
       \/ /\ ~Leq(by[c], point) /\ ~syncing
          /\ ClaimSync
          /\ Goto(c, "handle")
          /\ UNCHANGED <<by, own, acked>>
       \/ /\ ~Leq(by[c], point) /\ syncing
          /\ Goto(c, "sleep")
          /\ UNCHANGED <<syncing, by, own, acked>>
    /\ UNCHANGED <<log, point, handle, bound>>

(* Store::sync_handle, under the store's lock.                             *)
TakeHandle(c) ==
    /\ pc[c] = "handle"
    /\ flushed' = appended
    /\ handle' = [handle EXCEPT ![c] = appended]
    /\ Goto(c, "fsync")
    /\ UNCHANGED <<policy, appended, disk, noted, dropped, commit, by, own,
                   acked, bound>>

(* SyncHandle::sync, holding nothing.                                      *)
Fsync(c) ==
    /\ pc[c] = "fsync"
    /\ disk' = Reach(handle[c])
    /\ Goto(c, "note")
    /\ UNCHANGED <<policy, appended, flushed, noted, dropped, commit, by, own,
                   handle, acked, bound>>

FsyncFails(c) ==
    /\ pc[c] = "fsync" /\ failures < MaxFailures
    /\ failures' = failures + 1
    /\ dropped' = (dropped \/ (FailureDrops /\ ~Leq(handle[c], disk)))
    /\ Goto(c, "failed")
    /\ UNCHANGED <<policy, appended, flushed, disk, noted, commit, by, own,
                   handle, acked, writes, kills>>

(* Store::note_synced, under the store's lock: only for the active file.   *)
NoteSynced_AnyFile(c) ==
    /\ pc[c] = "note"
    /\ noted' = IF handle[c].off > noted THEN handle[c].off ELSE noted
    /\ Goto(c, "settle")
    /\ UNCHANGED <<policy, appended, flushed, disk, dropped, commit, by, own,
                   handle, acked, bound>>
NoteSynced(c) ==
    /\ pc[c] = "note"
    /\ noted' = IF handle[c].id = appended.id /\ handle[c].off > noted
                THEN handle[c].off ELSE noted
    /\ Goto(c, "settle")
    /\ UNCHANGED <<policy, appended, flushed, disk, dropped, commit, by, own,
                   handle, acked, bound>>

(* Condvar::notify_all.                                                    *)
Woken == [d \in Conns |-> IF pc[d] = "sleep" THEN "check" ELSE pc[d]]

(* The point the handle was taken at, not where the log has got to since.  *)
Raised_ToTheAppendPoint(c) == Later(point, appended)
Raised(c) == Later(point, handle[c])

(* Under the mutex again: stop syncing, wake everyone, raise the point and *)
(* go round the loop, which finds its own point reached.                   *)
Settle(c) ==
    LET raised == Raised(c)
        done   == Leq(by[c], raised)
    IN  /\ pc[c] = "settle"
        /\ syncing' = FALSE
        /\ point' = raised
        /\ pc' = [Woken EXCEPT ![c] = IF done THEN "serving" ELSE "check"]
        /\ acked' = [acked EXCEPT ![c] = IF done THEN Later(@, own[c]) ELSE @]
        /\ by' = [by EXCEPT ![c] = IF done THEN Start ELSE @]
        /\ own' = [own EXCEPT ![c] = IF done THEN Start ELSE @]
        /\ UNCHANGED <<log, handle, bound>>

(* The error is the caller's alone: the others are woken to try again.     *)
HangUp_WakingNobody(c) == Goto(c, "gone")
HangUp(c) == pc' = [Woken EXCEPT ![c] = "gone"]

(* The same with an error, which goes to the client instead of the replies.*)
SettleFailed(c) ==
    /\ pc[c] = "failed"
    /\ syncing' = FALSE
    /\ HangUp(c)
    /\ by' = [by EXCEPT ![c] = Start] /\ own' = [own EXCEPT ![c] = Start]
    /\ UNCHANGED <<log, point, handle, acked, bound>>

(* Condvar::wait may return without a notify.                              *)
SpuriousWake(c) ==
    /\ pc[c] = "sleep"
    /\ Goto(c, "check")
    /\ UNCHANGED <<log, commit, by, own, handle, acked, bound>>

(* The server is killed and started again: the kernel's files stay,        *)
(* everything in memory goes, and Server::bind takes the store's append    *)
(* point for durable.                                                      *)
Restart ==
    /\ kills < MaxKills
    /\ kills' = kills + 1
    /\ appended' = flushed
    /\ noted' = flushed.off
    /\ point' = flushed /\ syncing' = FALSE
    /\ pc' = [c \in Conns |-> "serving"]
    /\ by' = [c \in Conns |-> Start] /\ own' = [c \in Conns |-> Start]
    /\ handle' = [c \in Conns |-> Start]
    /\ UNCHANGED <<policy, flushed, disk, dropped, acked, writes, failures>>

-----------------------------------------------------------------------------
WaitStep(c) ==
    \/ Check(c) \/ TakeHandle(c) \/ Fsync(c) \/ FsyncFails(c)
    \/ NoteSynced(c) \/ Settle(c) \/ SettleFailed(c)
Next ==
    \/ \E c \in Conns : Write(c) \/ WriteNothing(c) \/ Send(c)
                        \/ WaitStep(c) \/ SpuriousWake(c)
    \/ Restart

Spec == Init /\ [][Next]_vars

(* A thread that can go on does: the mutex is never held across a system   *)
(* call, the store's lock only for short ones, and an fsync returns.       *)
FairSpec == Spec /\ \A c \in Conns : WF_vars(WaitStep(c))

-----------------------------------------------------------------------------
TypeOK ==
    /\ appended \in Point /\ flushed \in Point /\ disk \in Point
    /\ appended.off <= MaxFile /\ flushed.off <= MaxFile
    /\ noted \in Nat /\ dropped \in BOOLEAN
    /\ point \in Point /\ syncing \in BOOLEAN
    /\ pc \in [Conns -> States]
    /\ policy \in {"Disk", "Kernel"}
    /\ by \in [Conns -> Point] /\ own \in [Conns -> Point] /\ handle \in [Conns -> Point]
    /\ acked \in [Conns -> Point]
    /\ writes \in 0 .. MaxWrites /\ failures \in 0 .. MaxFailures
    /\ kills \in 0 .. MaxKills

(* send's "once the writes they acknowledge are durable": no reply to a    *)
(* write leaves before an fsync has covered its record, whoever ran the    *)
(* fsync and whichever file it landed in; for a store that does not sync   *)
(* every write, before the kernel has it.  Kills of the server included.   *)
AckedIsDurable ==
    \A c \in Conns : Leq(acked[c], IF policy = "Disk" THEN disk ELSE flushed)

(* What wait goes by: the shared point never passes what the disk holds.   *)
(* A server that was killed and started again may begin past it: bind      *)
(* takes for durable what the kernel gave open to read.                    *)
PointIsDurable == policy = "Disk" /\ kills = 0 => Leq(point, disk)

(* note_synced: the store's own account of what is on the disk, which      *)
(* is_synced reports, is never ahead of the truth before the first kill.   *)
NotedIsDurable == kills = 0 => Leq([id |-> appended.id, off |-> noted], disk)

(* One fsync at a time: syncing is set exactly while some thread is between*)
(* being chosen and settling, and never two.                               *)
Syncers == {c \in Conns : pc[c] \in {"handle", "fsync", "note", "settle", "failed"}}
OneSyncer ==
    /\ \A c, d \in Syncers : c = d
    /\ syncing <=> Syncers # {}

(* Every connection that waits for its writes is answered, with its        *)
(* replies or with an error, whatever the fsyncs others run return.        *)
EveryWaiterIsAnswered ==
    \A c \in Conns : pc[c] = "check" ~> pc[c] \in {"serving", "gone"}
=============================================================================
