------------------------- MODULE GroupCommitProofs -------------------------
(***************************************************************************)
(* GroupCommit proved for any number of connections, writes, failures and  *)
(* restarts.  AckedIsDurable needs that a failed fsync does not leave the  *)
(* kernel believing pages it never wrote (FailureDrops = FALSE).           *)
(***************************************************************************)
EXTENDS GroupCommit, TLAPS

(* Points are compared file first: the order is total and transitive.      *)
LEMMA LeqTransitive ==
    ASSUME NEW p \in Point, NEW q \in Point, NEW r \in Point,
           Leq(p, q), Leq(q, r)
    PROVE  Leq(p, r)
  BY DEF Point, Leq

LEMMA LeqReflexive ==
    ASSUME NEW p \in Point PROVE Leq(p, p)
  BY DEF Point, Leq

LEMMA LaterFacts ==
    ASSUME NEW p \in Point, NEW q \in Point
    PROVE  /\ Later(p, q) \in Point
           /\ Leq(p, Later(p, q)) /\ Leq(q, Later(p, q))
           /\ Later(p, q) = p \/ Later(p, q) = q
  BY DEF Point, Leq, Later

LEMMA StartIsFirst ==
    /\ Start \in Point
    /\ \A p \in Point : Leq(Start, p)
  BY DEF Start, Point, Leq

(* What the writer does to the log: it only moves forward, the record it   *)
(* appended is beyond everything, and the disk and kernel never overtake.  *)
LogOrder == Leq(disk, flushed) /\ Leq(flushed, appended)

LEMMA AppendFacts ==
    ASSUME appended \in Point, flushed \in Point, disk \in Point,
           appended.off <= MaxFile, flushed.off <= MaxFile,
           noted \in Nat, dropped \in BOOLEAN, LogOrder, Append
    PROVE  /\ appended'.off <= MaxFile /\ flushed'.off <= MaxFile
           /\ appended' \in Point /\ flushed' \in Point /\ disk' \in Point
           /\ noted' \in Nat /\ dropped' = dropped /\ policy' = policy
           /\ ~Leq(appended', appended)
           /\ Leq(disk, disk') /\ Leq(flushed, flushed')
           /\ LogOrder'
           /\ policy = "Kernel" => flushed' = appended'
  BY MaxFileAssumption DEF Append, MustRoll, Point, Leq, Later, Reach, LogOrder

(***************************************************************************)
(* The inductive invariant.  After a restart the shared point may be ahead *)
(* of the disk, so "the point is durable" is not invariant; what is, is    *)
(* that no connection's own record is between the two: it was appended     *)
(* after the point was set, or a sync that covered it raised the point.    *)
(***************************************************************************)
HandlesInv ==
    \A c \in Conns :
        /\ pc[c] = "fsync" => Leq(handle[c], flushed)
        /\ pc[c] \in {"note", "settle"} => Leq(handle[c], disk)
OwnInv ==
    \A c \in Conns :
        /\ policy = "Disk" => /\ Leq(own[c], by[c])
                              /\ Leq(own[c], point) => Leq(own[c], disk)
        /\ policy = "Kernel" => Leq(own[c], flushed)
IInv ==
    /\ TypeOK
    /\ ~dropped
    /\ LogOrder
    /\ Leq(point, appended)
    /\ HandlesInv
    /\ OwnInv
    /\ AckedIsDurable

(* Init establishes the invariant: nothing is appended, nothing held.      *)
LEMMA InitEstablishes == Init => IInv
  <1> SUFFICES ASSUME Init PROVE IInv
    OBVIOUS
  <1>1. TypeOK
    <2>1. dropped \in BOOLEAN /\ syncing \in BOOLEAN
      BY Zenon DEF Init
    <2>2. /\ appended \in Point /\ flushed \in Point /\ disk \in Point
          /\ appended.off <= MaxFile /\ flushed.off <= MaxFile
          /\ point \in Point /\ noted \in Nat /\ Start \in Point
      BY MaxFileAssumption DEF Init, Point, Start
    <2>3. /\ pc \in [Conns -> States]
          /\ by \in [Conns -> Point] /\ own \in [Conns -> Point]
          /\ handle \in [Conns -> Point] /\ acked \in [Conns -> Point]
      BY <2>2 DEF Init, States
    <2>4. QED
      BY <2>1, <2>2, <2>3, BoundsAssumption DEF Init, TypeOK
  <1>2. ~dropped /\ LogOrder /\ Leq(point, appended)
    BY <1>1, LeqReflexive DEF Init, TypeOK, LogOrder
  <1>3. HandlesInv
    BY DEF Init, HandlesInv
  <1>4. OwnInv
    BY <1>1, StartIsFirst DEF Init, TypeOK, OwnInv
  <1>5. AckedIsDurable
    BY <1>1, StartIsFirst DEF Init, TypeOK, AckedIsDurable
  <1>6. QED
    BY <1>1, <1>2, <1>3, <1>4, <1>5 DEF IInv

(* A write appends past the shared point, so its reply must wait.          *)
LEMMA WritePreserves ==
    ASSUME IInv, NEW c \in Conns, Write(c)
    PROVE  IInv'
  <1> USE DEF IInv
  <1>1. /\ appended'.off <= MaxFile /\ flushed'.off <= MaxFile
        /\ appended' \in Point /\ flushed' \in Point /\ disk' \in Point
        /\ noted' \in Nat /\ dropped' = dropped /\ policy' = policy
        /\ ~Leq(appended', appended)
        /\ Leq(disk, disk') /\ Leq(flushed, flushed')
        /\ LogOrder'
        /\ policy = "Kernel" => flushed' = appended'
    BY AppendFacts DEF Write, TypeOK
  <1>2. TypeOK'
    <2>1. by' \in [Conns -> Point] /\ own' \in [Conns -> Point]
      BY <1>1, LaterFacts DEF Write, MustReach, TypeOK
    <2>2. writes' \in 0 .. MaxWrites
      BY BoundsAssumption DEF Write, TypeOK
    <2>3. QED
      BY <1>1, <2>1, <2>2 DEF Write, TypeOK, commit
  <1>3. ~dropped' /\ Leq(point, appended') /\ ~Leq(appended', point)
    BY <1>1, LeqTransitive DEF TypeOK, Leq, Point
  <1>4. HandlesInv'
    BY <1>1, LeqTransitive DEF HandlesInv, TypeOK, Write
  <1>5. OwnInv'
    <2> SUFFICES ASSUME NEW d \in Conns
                 PROVE  /\ policy = "Disk" =>
                              /\ Leq(own'[d], by'[d])
                              /\ Leq(own'[d], point) => Leq(own'[d], disk')
                        /\ policy = "Kernel" => Leq(own'[d], flushed')
      BY <1>1 DEF OwnInv, Write, commit
    <2>1. CASE d = c
      <3>1. own'[d] = appended' /\ (policy = "Disk" => by'[d] = Later(by[d], appended'))
        BY <2>1 DEF Write, MustReach, TypeOK
      <3>2. QED
        BY <3>1, <1>1, <1>3, LaterFacts, LeqReflexive DEF TypeOK
    <2>2. CASE d # c
      <3>1. own'[d] = own[d] /\ by'[d] = by[d]
        BY <2>2 DEF Write, MustReach, TypeOK
      <3>2. QED
        BY <3>1, <1>1, LeqTransitive DEF TypeOK, OwnInv
    <2>3. QED
      BY <2>1, <2>2
  <1>6. AckedIsDurable'
    BY <1>1, LeqTransitive DEF AckedIsDurable, TypeOK, Write
  <1>7. QED
    BY <1>1, <1>2, <1>3, <1>4, <1>5, <1>6 DEF Write, commit

(* Held replies may go once the connection's own record is covered.        *)
LEMMA ReplyPreserves ==
    ASSUME IInv, NEW c \in Conns, Reply(c), UNCHANGED <<log, point, handle, bound>>,
           syncing' \in BOOLEAN,
           Leq(own[c], IF policy = "Disk" THEN disk ELSE flushed)
    PROVE  IInv'
  <1> USE DEF IInv
  <1>1. TypeOK'
    BY LaterFacts, StartIsFirst DEF TypeOK, Reply, Goto, States, log, bound
  <1>2. ~dropped' /\ LogOrder' /\ Leq(point, appended)'
    BY DEF log, LogOrder
  <1>3. HandlesInv'
    BY DEF HandlesInv, TypeOK, Reply, Goto, log
  <1>4. OwnInv'
    BY StartIsFirst DEF OwnInv, TypeOK, Reply, log
  <1>5. AckedIsDurable'
    BY LaterFacts DEF AckedIsDurable, TypeOK, Reply, log
  <1>6. QED
    BY <1>1, <1>2, <1>3, <1>4, <1>5

(* A step that moves one thread and nothing it relies on.                  *)
LEMMA MovePreserves ==
    ASSUME IInv, NEW c \in Conns, NEW label \in States, Goto(c, label),
           label \notin {"fsync", "note", "settle"},
           UNCHANGED <<log, point, by, own, handle, acked, bound>>,
           syncing' \in BOOLEAN
    PROVE  IInv'
  <1> USE DEF IInv
  <1>1. TypeOK'
    BY DEF TypeOK, Goto, log, bound
  <1>2. ~dropped' /\ LogOrder' /\ Leq(point, appended)'
    BY DEF log, LogOrder
  <1>3. HandlesInv'
    BY DEF HandlesInv, TypeOK, Goto, log
  <1>4. OwnInv'
    BY DEF OwnInv, TypeOK, log
  <1>5. AckedIsDurable'
    BY DEF AckedIsDurable, TypeOK, log
  <1>6. QED
    BY <1>1, <1>2, <1>3, <1>4, <1>5

(* A write that changes nothing only makes its connection wait for more.   *)
LEMMA WriteNothingPreserves ==
    ASSUME IInv, NEW c \in Conns, WriteNothing(c)
    PROVE  IInv'
  <1> USE DEF IInv
  <1>1. /\ by' \in [Conns -> Point]
        /\ \A d \in Conns : Leq(by[d], by'[d])
    BY LaterFacts, LeqReflexive DEF WriteNothing, MustReach, TypeOK, log
  <1>2. TypeOK'
    <2>1. writes' \in 0 .. MaxWrites
      BY BoundsAssumption DEF WriteNothing, TypeOK
    <2>2. QED
      BY <1>1, <2>1 DEF WriteNothing, TypeOK, commit, log
  <1>3. ~dropped' /\ LogOrder' /\ Leq(point, appended)'
    BY DEF WriteNothing, log, commit, LogOrder
  <1>4. HandlesInv'
    BY DEF WriteNothing, HandlesInv, TypeOK, log
  <1>5. OwnInv'
    BY <1>1, LeqTransitive DEF WriteNothing, OwnInv, TypeOK, log, commit
  <1>6. AckedIsDurable'
    BY DEF WriteNothing, AckedIsDurable, TypeOK, log
  <1>7. QED
    BY <1>2, <1>3, <1>4, <1>5, <1>6

(* Sending: only a connection that appended nothing, or one whose store    *)
(* syncs nothing, replies without waiting.                                 *)
LEMMA SendPreserves ==
    ASSUME IInv, NEW c \in Conns, Send(c)
    PROVE  IInv'
  <1>1. CASE by[c] # Start /\ Goto(c, "check") /\ UNCHANGED <<by, own, acked>>
    <2>1. syncing' \in BOOLEAN
      BY Zenon DEF Send, commit, IInv, TypeOK
    <2>2. QED
      BY <1>1, <2>1, MovePreserves DEF Send, commit, States
  <1>2. CASE by[c] = Start /\ own[c] # Start /\ Reply(c)
    <2>1. syncing' \in BOOLEAN
      BY Zenon DEF Send, commit, IInv, TypeOK
    <2>2. policy = "Kernel"
      BY <1>2, StartIsFirst DEF IInv, OwnInv, TypeOK, Leq, Point, Start
    <2>3. QED
      BY <1>2, <2>1, <2>2, ReplyPreserves DEF Send, commit, IInv, OwnInv
  <1>3. QED
    BY <1>1, <1>2 DEF Send

(* The loop of GroupCommit::wait: the reply leaves when the shared point   *)
(* has passed what the connection waits for, hence its own record.         *)
LEMMA CheckPreserves ==
    ASSUME IInv, NEW c \in Conns, Check(c)
    PROVE  IInv'
  <1> USE DEF IInv
  <1>1. CASE Leq(by[c], point) /\ Reply(c) /\ UNCHANGED syncing
    <2>1. policy = "Disk" => Leq(own[c], disk)
      BY <1>1, LeqTransitive DEF OwnInv, TypeOK
    <2>2. policy # "Disk" => Leq(own[c], flushed)
      BY DEF OwnInv, TypeOK
    <2>3. syncing' \in BOOLEAN
      BY <1>1, Zenon DEF TypeOK
    <2>4. QED
      BY <1>1, <2>1, <2>2, <2>3, ReplyPreserves DEF Check
  <1>2. CASE syncing' = TRUE /\ Goto(c, "handle") /\ UNCHANGED <<by, own, acked>>
    <2>1. syncing' \in BOOLEAN
      BY <1>2, Zenon
    <2>2. QED
      BY <1>2, <2>1, MovePreserves DEF Check, States
  <1>3. CASE Goto(c, "sleep") /\ UNCHANGED <<syncing, by, own, acked>>
    <2>1. syncing' \in BOOLEAN
      BY <1>3, Zenon DEF TypeOK
    <2>2. QED
      BY <1>3, <2>1, MovePreserves DEF Check, States
  <1>4. QED
    BY <1>1, <1>2, <1>3 DEF Check, ClaimSync

(* The handle covers what the kernel has just been given.                  *)
LEMMA TakeHandlePreserves ==
    ASSUME IInv, NEW c \in Conns, TakeHandle(c)
    PROVE  IInv'
  <1> USE DEF IInv
  <1>1. Leq(flushed, flushed') /\ flushed' = appended
    BY DEF TakeHandle, LogOrder
  <1>2. TypeOK'
    BY DEF TakeHandle, Goto, TypeOK, States, commit, bound
  <1>3. ~dropped' /\ LogOrder' /\ Leq(point, appended)'
    BY LeqTransitive, LeqReflexive DEF TakeHandle, TypeOK, commit, LogOrder
  <1>4. HandlesInv'
    BY <1>1, LeqTransitive, LeqReflexive
    DEF TakeHandle, Goto, HandlesInv, TypeOK, commit
  <1>5. OwnInv'
    BY <1>1, LeqTransitive DEF TakeHandle, OwnInv, TypeOK, commit
  <1>6. AckedIsDurable'
    BY <1>1, LeqTransitive DEF TakeHandle, AckedIsDurable, TypeOK
  <1>7. QED
    BY <1>2, <1>3, <1>4, <1>5, <1>6


(* An fsync that succeeds makes its handle durable: there is no hole.      *)
LEMMA FsyncPreserves ==
    ASSUME IInv, NEW c \in Conns, Fsync(c)
    PROVE  IInv'
  <1> USE DEF IInv
  <1>1. /\ disk' = Later(disk, handle[c]) /\ disk' \in Point
        /\ Leq(disk, disk') /\ Leq(handle[c], disk') /\ Leq(disk', flushed)
    BY LaterFacts DEF Fsync, Reach, TypeOK, HandlesInv, LogOrder
  <1>2. TypeOK'
    BY <1>1 DEF Fsync, Goto, TypeOK, States, commit, bound
  <1>3. ~dropped' /\ LogOrder' /\ Leq(point, appended)'
    BY <1>1 DEF Fsync, LogOrder, commit
  <1>4. HandlesInv'
    BY <1>1, LeqTransitive DEF Fsync, Goto, HandlesInv, TypeOK
  <1>5. OwnInv'
    BY <1>1, LeqTransitive DEF Fsync, OwnInv, TypeOK, commit
  <1>6. AckedIsDurable'
    BY <1>1, LeqTransitive DEF Fsync, AckedIsDurable, TypeOK
  <1>7. QED
    BY <1>2, <1>3, <1>4, <1>5, <1>6


(* An fsync that fails leaves the disk where it was.                       *)
LEMMA FsyncFailsPreserves ==
    ASSUME IInv, NEW c \in Conns, FsyncFails(c), FailureDrops = FALSE
    PROVE  IInv'
  <1> USE DEF IInv
  <1>1. ~dropped' /\ dropped' \in BOOLEAN
    BY DEF FsyncFails
  <1>2. TypeOK'
    <2>1. failures' \in 0 .. MaxFailures
      BY BoundsAssumption DEF FsyncFails, TypeOK
    <2>2. QED
      BY <1>1, <2>1 DEF FsyncFails, Goto, TypeOK, States, commit
  <1>3. LogOrder' /\ Leq(point, appended)'
    BY DEF FsyncFails, LogOrder, commit
  <1>4. HandlesInv'
    BY DEF FsyncFails, Goto, HandlesInv, TypeOK
  <1>5. OwnInv'
    BY DEF FsyncFails, OwnInv, TypeOK, commit
  <1>6. AckedIsDurable'
    BY DEF FsyncFails, AckedIsDurable, TypeOK
  <1>7. QED
    BY <1>1, <1>2, <1>3, <1>4, <1>5, <1>6


(* Telling the store changes nothing a reply goes by.                      *)
LEMMA NoteSyncedPreserves ==
    ASSUME IInv, NEW c \in Conns, NoteSynced(c)
    PROVE  IInv'
  <1> USE DEF IInv
  <1>1. TypeOK'
    BY DEF NoteSynced, Goto, TypeOK, States, Point, commit, bound
  <1>2. ~dropped' /\ LogOrder' /\ Leq(point, appended)'
    BY DEF NoteSynced, LogOrder, commit
  <1>3. HandlesInv'
    BY DEF NoteSynced, Goto, HandlesInv, TypeOK
  <1>4. OwnInv'
    BY DEF NoteSynced, OwnInv, TypeOK, commit
  <1>5. AckedIsDurable'
    BY DEF NoteSynced, AckedIsDurable, TypeOK
  <1>6. QED
    BY <1>1, <1>2, <1>3, <1>4, <1>5


(* The point is raised only to what the disk has reached.                  *)
LEMMA SettlePreserves ==
    ASSUME IInv, NEW c \in Conns, Settle(c)
    PROVE  IInv'
  <1> USE DEF IInv
  <1> DEFINE raised == Later(point, handle[c])
  <1>1. /\ raised \in Point /\ point' = raised
        /\ \A p \in Point : Leq(p, raised) => Leq(p, point) \/ Leq(p, disk)
        /\ Leq(raised, appended)
    BY LaterFacts, LeqTransitive DEF Settle, Raised, TypeOK, HandlesInv, LogOrder
  <1>2. /\ acked' \in [Conns -> Point] /\ by' \in [Conns -> Point]
        /\ own' \in [Conns -> Point] /\ pc' \in [Conns -> States]
    BY LaterFacts, StartIsFirst DEF Settle, Raised, TypeOK, Woken, States
  <1>3. TypeOK'
    <2>1. syncing' \in BOOLEAN
      BY Zenon DEF Settle, Raised
    <2>2. QED
      BY <1>1, <1>2, <2>1 DEF Settle, Raised, TypeOK, log, bound
  <1>4. ~dropped' /\ LogOrder' /\ Leq(point, appended)'
    BY <1>1 DEF Settle, Raised, LogOrder, log
  <1>5. HandlesInv'
    BY DEF Settle, Raised, HandlesInv, TypeOK, Woken, log
  <1>6. policy = "Disk" /\ Leq(by[c], raised) => Leq(own[c], disk)
    BY <1>1, LeqTransitive DEF OwnInv, TypeOK
  <1>7. OwnInv'
    <2> SUFFICES ASSUME NEW d \in Conns
                 PROVE  /\ policy = "Disk" =>
                              /\ Leq(own'[d], by'[d])
                              /\ Leq(own'[d], raised) => Leq(own'[d], disk)
                        /\ policy = "Kernel" => Leq(own'[d], flushed)
      BY <1>1 DEF OwnInv, Settle, Raised, log
    <2>1. \/ own'[d] = own[d] /\ by'[d] = by[d]
          \/ own'[d] = Start /\ by'[d] = Start
      <3>1. CASE d = c /\ Leq(by[c], raised)
        BY <3>1 DEF Settle, Raised, TypeOK
      <3>2. CASE ~(d = c /\ Leq(by[c], raised))
        BY <3>2 DEF Settle, Raised, TypeOK
      <3>3. QED
        BY <3>1, <3>2
    <2>2. QED
      BY <1>1, <2>1, StartIsFirst DEF OwnInv, TypeOK
  <1>8. AckedIsDurable'
    <2> SUFFICES ASSUME NEW d \in Conns
                 PROVE  Leq(acked'[d], IF policy = "Disk" THEN disk ELSE flushed)
      BY DEF AckedIsDurable, Settle, Raised, log
    <2>1. acked'[d] = acked[d]
          \/ (d = c /\ Leq(by[c], raised) /\ acked'[d] = Later(acked[c], own[c]))
      BY DEF Settle, Raised, TypeOK
    <2>2. QED
      BY <1>6, <2>1, LaterFacts DEF AckedIsDurable, OwnInv, TypeOK
  <1>9. QED
    BY <1>3, <1>4, <1>5, <1>7, <1>8


(* A failed sync acknowledges nothing.                                     *)
LEMMA SettleFailedPreserves ==
    ASSUME IInv, NEW c \in Conns, SettleFailed(c)
    PROVE  IInv'
  <1> USE DEF IInv
  <1>1. TypeOK'
    <2>1. syncing' \in BOOLEAN
      BY Zenon DEF SettleFailed, HangUp
    <2>2. /\ by' \in [Conns -> Point] /\ own' \in [Conns -> Point]
          /\ pc' \in [Conns -> States]
      BY StartIsFirst DEF SettleFailed, HangUp, TypeOK, Woken, States
    <2>3. QED
      BY <2>1, <2>2 DEF SettleFailed, HangUp, TypeOK, log, bound
  <1>2. ~dropped' /\ LogOrder' /\ Leq(point, appended)'
    BY DEF SettleFailed, HangUp, LogOrder, log
  <1>3. HandlesInv'
    BY DEF SettleFailed, HangUp, HandlesInv, TypeOK, Woken, log
  <1>4. OwnInv'
    BY StartIsFirst DEF SettleFailed, HangUp, OwnInv, TypeOK, log
  <1>5. AckedIsDurable'
    BY DEF SettleFailed, HangUp, AckedIsDurable, TypeOK, log
  <1>6. QED
    BY <1>1, <1>2, <1>3, <1>4, <1>5


(* A restart takes back what was only in memory; acknowledged records are  *)
(* below the disk, or below the kernel for a store that does not sync.     *)
LEMMA RestartPreserves ==
    ASSUME IInv, Restart
    PROVE  IInv'
  <1> USE DEF IInv
  <1>1. TypeOK'
    <2>1. syncing' \in BOOLEAN
      BY Zenon DEF Restart
    <2>2. kills' \in 0 .. MaxKills /\ noted' \in Nat
      BY BoundsAssumption DEF Restart, TypeOK, Point
    <2>3. QED
      BY <2>1, <2>2, StartIsFirst DEF Restart, TypeOK, States
  <1>2. ~dropped' /\ LogOrder' /\ Leq(point, appended)'
    BY LeqReflexive DEF Restart, LogOrder, TypeOK
  <1>3. HandlesInv'
    BY DEF Restart, HandlesInv
  <1>4. OwnInv'
    BY StartIsFirst DEF Restart, OwnInv, TypeOK
  <1>5. AckedIsDurable'
    BY DEF Restart, AckedIsDurable
  <1>6. QED
    BY <1>1, <1>2, <1>3, <1>4, <1>5

LEMMA StutterPreserves ==
    ASSUME IInv, UNCHANGED vars
    PROVE  IInv'
  BY DEF IInv, TypeOK, LogOrder, HandlesInv, OwnInv, AckedIsDurable, vars, log,
     commit, conn, bound

(* Every step preserves the invariant, one action at a time.               *)
LEMMA NextPreserves ==
    ASSUME FailureDrops = FALSE, IInv, [Next]_vars
    PROVE  IInv'
  <1>1. CASE UNCHANGED vars
    BY <1>1, StutterPreserves
  <1>2. ASSUME NEW c \in Conns, Write(c) PROVE IInv'
    BY <1>2, WritePreserves
  <1>3. ASSUME NEW c \in Conns, WriteNothing(c) PROVE IInv'
    BY <1>3, WriteNothingPreserves
  <1>4. ASSUME NEW c \in Conns, Send(c) PROVE IInv'
    BY <1>4, SendPreserves
  <1>5. ASSUME NEW c \in Conns, WaitStep(c) PROVE IInv'
    BY <1>5, CheckPreserves, TakeHandlePreserves, FsyncPreserves,
       FsyncFailsPreserves, NoteSyncedPreserves, SettlePreserves,
       SettleFailedPreserves DEF WaitStep
  <1>6. ASSUME NEW c \in Conns, SpuriousWake(c) PROVE IInv'
    <2>1. syncing' \in BOOLEAN
      BY <1>6, Zenon DEF SpuriousWake, commit, IInv, TypeOK
    <2>2. QED
      BY <1>6, <2>1, MovePreserves DEF SpuriousWake, commit, States
  <1>7. CASE Restart
    BY <1>7, RestartPreserves
  <1>8. QED
    BY <1>1, <1>2, <1>3, <1>4, <1>5, <1>6, <1>7 DEF Next

(***************************************************************************)
(* No reply to a write leaves the server before the disk has the record    *)
(* (or the kernel, for a store that does not sync every write): for any    *)
(* number of connections sharing fsyncs, files rolling over underneath     *)
(* them, fsyncs failing and the server being killed and restarted.         *)
(***************************************************************************)
THEOREM AckedWritesAreDurable ==
    ASSUME FailureDrops = FALSE
    PROVE  Spec => []AckedIsDurable
  <1>1. Init => IInv
    BY InitEstablishes
  <1>2. IInv /\ [Next]_vars => IInv'
    BY NextPreserves
  <1>3. IInv => AckedIsDurable
    BY DEF IInv
  <1>4. QED
    BY <1>1, <1>2, <1>3, PTL DEF Spec

(***************************************************************************)
(* Under the same assumption the state always has the right types; in      *)
(* particular no file is ever longer than max_file_bytes.                  *)
(***************************************************************************)
THEOREM TypesAreKept ==
    ASSUME FailureDrops = FALSE
    PROVE  Spec => []TypeOK
  <1>1. Init => IInv
    BY InitEstablishes
  <1>2. IInv /\ [Next]_vars => IInv'
    BY NextPreserves
  <1>3. IInv => TypeOK
    BY DEF IInv
  <1>4. QED
    BY <1>1, <1>2, <1>3, PTL DEF Spec

-----------------------------------------------------------------------------
(***************************************************************************)
(* The two accounts of what is on the disk: the shared point that wait     *)
(* goes by, and the store's own.  Both follow from where a handle may be   *)
(* when it is used (HandlesInv), which is why they need IInv: the fsync    *)
(* that raised either of them was run with no lock held.                   *)
(***************************************************************************)
AccountsInv == PointIsDurable /\ NotedIsDurable

LEMMA InitAccounts == Init => AccountsInv
  BY LeqReflexive DEF Init, AccountsInv, PointIsDurable, NotedIsDurable, Point

(* A write moves the store's account only by beginning a new file, and the *)
(* file it seals is on the disk before the new one begins.                 *)
LEMMA WriteKeepsAccounts ==
    ASSUME IInv, AccountsInv, NEW c \in Conns, Write(c)
    PROVE  AccountsInv'
  <1> USE DEF IInv
  <1>1. disk' \in Point /\ Leq(disk, disk')
    BY AppendFacts DEF Write, TypeOK
  <1>2. PointIsDurable'
    BY <1>1, LeqTransitive
    DEF AccountsInv, PointIsDurable, Write, Append, TypeOK, commit
  <1>3. NotedIsDurable'
    <2>1. CASE MustRoll
      BY <2>1, LaterFacts
      DEF NotedIsDurable, Write, Append, Reach, TypeOK, Point
    <2>2. CASE ~MustRoll
      BY <2>2 DEF AccountsInv, NotedIsDurable, Write, Append, TypeOK, Point
    <2>3. QED
      BY <2>1, <2>2
  <1>4. QED
    BY <1>2, <1>3 DEF AccountsInv

(* A step that leaves the log, both accounts and the kills alone.          *)
LEMMA OthersKeepAccounts ==
    ASSUME AccountsInv,
           UNCHANGED <<policy, appended, disk, noted, point, kills>>
    PROVE  AccountsInv'
  BY DEF AccountsInv, PointIsDurable, NotedIsDurable

LEMMA FsyncKeepsAccounts ==
    ASSUME IInv, AccountsInv, NEW c \in Conns, Fsync(c)
    PROVE  AccountsInv'
  <1> USE DEF IInv
  <1>1. disk' \in Point /\ Leq(disk, disk')
    BY LaterFacts DEF Fsync, Reach, TypeOK
  <1>2. [id |-> appended.id, off |-> noted] \in Point
    BY DEF TypeOK, Point
  <1>3. QED
    BY <1>1, <1>2, LeqTransitive
    DEF AccountsInv, PointIsDurable, NotedIsDurable, Fsync, commit, bound, TypeOK

(* The store hears of a handle that the disk has reached, and takes it for *)
(* its account only if the file is still the active one.                   *)
LEMMA NoteSyncedKeepsAccounts ==
    ASSUME IInv, AccountsInv, NEW c \in Conns, NoteSynced(c)
    PROVE  AccountsInv'
  <1> USE DEF IInv
  <1>1. Leq(handle[c], disk) /\ handle[c] \in Point
    BY DEF NoteSynced, HandlesInv, TypeOK
  <1>2. NotedIsDurable'
    BY <1>1 DEF AccountsInv, NotedIsDurable, NoteSynced, TypeOK, Point, Leq, bound
  <1>3. PointIsDurable'
    BY DEF AccountsInv, PointIsDurable, NoteSynced, commit, bound
  <1>4. QED
    BY <1>2, <1>3 DEF AccountsInv

(* The shared point is raised to the handle, which the disk has reached.   *)
LEMMA SettleKeepsAccounts ==
    ASSUME IInv, AccountsInv, NEW c \in Conns, Settle(c)
    PROVE  AccountsInv'
  <1> USE DEF IInv
  <1>1. Leq(handle[c], disk)
    BY DEF Settle, HandlesInv
  <1>2. point' = point \/ point' = handle[c]
    BY LaterFacts DEF Settle, Raised, TypeOK
  <1>3. QED
    BY <1>1, <1>2
    DEF AccountsInv, PointIsDurable, NotedIsDurable, Settle, log, bound

LEMMA NextKeepsAccounts ==
    ASSUME IInv, AccountsInv, [Next]_vars
    PROVE  AccountsInv'
  <1>1. CASE UNCHANGED vars
    BY <1>1, OthersKeepAccounts DEF vars, log, commit, bound
  <1>2. ASSUME NEW c \in Conns, Write(c) PROVE AccountsInv'
    BY <1>2, WriteKeepsAccounts
  <1>3. ASSUME NEW c \in Conns, WriteNothing(c) \/ Send(c) \/ SpuriousWake(c)
        PROVE  AccountsInv'
    BY <1>3, OthersKeepAccounts
    DEF WriteNothing, Send, SpuriousWake, log, commit, bound
  <1>4. ASSUME NEW c \in Conns, WaitStep(c) PROVE AccountsInv'
    <2>1. CASE Check(c) \/ TakeHandle(c) \/ FsyncFails(c) \/ SettleFailed(c)
      BY <2>1, OthersKeepAccounts
      DEF Check, TakeHandle, FsyncFails, SettleFailed, log, commit, bound
    <2>2. QED
      BY <1>4, <2>1, FsyncKeepsAccounts, NoteSyncedKeepsAccounts, SettleKeepsAccounts
      DEF WaitStep
  <1>5. CASE Restart
    <2>1. kills' # 0
      BY <1>5, BoundsAssumption DEF Restart, IInv, TypeOK
    <2>2. QED
      BY <2>1 DEF AccountsInv, PointIsDurable, NotedIsDurable
  <1>6. QED
    BY <1>1, <1>2, <1>3, <1>4, <1>5 DEF Next

LEMMA AccountsAreKept ==
    ASSUME FailureDrops = FALSE
    PROVE  Spec => []AccountsInv
  <1>1. Init => IInv /\ AccountsInv
    BY InitEstablishes, InitAccounts
  <1>2. IInv /\ AccountsInv /\ [Next]_vars => (IInv /\ AccountsInv)'
    BY NextPreserves, NextKeepsAccounts
  <1>3. QED
    BY <1>1, <1>2, PTL DEF Spec

(***************************************************************************)
(* Until the server is first killed, GroupCommit's shared point is never   *)
(* ahead of the disk, whichever thread ran the fsync and whatever was      *)
(* appended or rolled over while it ran: every waiter may go by it.        *)
(***************************************************************************)
THEOREM PointIsAlwaysDurable ==
    ASSUME FailureDrops = FALSE
    PROVE  Spec => []PointIsDurable
  <1>1. AccountsInv => PointIsDurable
    BY DEF AccountsInv
  <1>2. QED
    BY <1>1, AccountsAreKept, PTL

(***************************************************************************)
(* Nor is the store's own synced offset, though note_synced is told of an  *)
(* fsync after the lock was let go, when the active file may be another.   *)
(***************************************************************************)
THEOREM NotedIsAlwaysDurable ==
    ASSUME FailureDrops = FALSE
    PROVE  Spec => []NotedIsDurable
  <1>1. AccountsInv => NotedIsDurable
    BY DEF AccountsInv
  <1>2. QED
    BY <1>1, AccountsAreKept, PTL

-----------------------------------------------------------------------------
(* GroupCommit::wait's syncing flag, as the threads see it.                *)
Syncing == {"handle", "fsync", "note", "settle", "failed"}
SyncerInv ==
    /\ pc \in [Conns -> States] /\ syncing \in BOOLEAN
    /\ \A c, d \in Conns : pc[c] \in Syncing /\ pc[d] \in Syncing => c = d
    /\ syncing => \E c \in Conns : pc[c] \in Syncing
    /\ \A c \in Conns : pc[c] \in Syncing => syncing

LEMMA SyncerInvIsOneSyncer == SyncerInv => OneSyncer
  BY DEF SyncerInv, OneSyncer, Syncers, Syncing

(* A thread that moves between two states outside the sync, or between two *)
(* inside it, waking whoever sleeps or nobody, disturbs nothing.           *)
LEMMA SyncerMove ==
    ASSUME SyncerInv, NEW c \in Conns, NEW to \in States,
           pc[c] \in Syncing <=> to \in Syncing,
           syncing' = syncing,
           pc' = [pc EXCEPT ![c] = to]
    PROVE  SyncerInv'
  BY DEF SyncerInv, Syncing, States

(* The syncer leaves, waking everyone: nobody else was inside.             *)
LEMMA SyncerLeaves ==
    ASSUME SyncerInv, NEW c \in Conns, NEW to \in States,
           pc[c] \in Syncing, to \notin Syncing,
           syncing' = FALSE,
           pc' = [Woken EXCEPT ![c] = to]
    PROVE  SyncerInv'
  BY DEF SyncerInv, Syncing, States, Woken

(***************************************************************************)
(* wait's "one fsync at a time": syncing is set exactly while one thread   *)
(* is between claiming the fsync and settling it, whatever fails and       *)
(* whoever is woken for nothing.                                           *)
(***************************************************************************)
THEOREM OneFsyncAtATime == Spec => []OneSyncer
  <1>1. Init => SyncerInv
    BY DEF Init, SyncerInv, States, Syncing
  <1>2. ASSUME SyncerInv, [Next]_vars PROVE SyncerInv'
    <2> USE <1>2
    <2>1. CASE UNCHANGED vars
      BY <2>1 DEF vars, conn, commit, SyncerInv
    <2>2. ASSUME NEW c \in Conns, Write(c) \/ WriteNothing(c) PROVE SyncerInv'
      BY <2>2 DEF Write, WriteNothing, commit, SyncerInv
    <2>3. ASSUME NEW c \in Conns, Send(c) PROVE SyncerInv'
      BY <2>3, SyncerMove DEF Send, Reply, Goto, commit, States, Syncing
    <2>4. ASSUME NEW c \in Conns, Check(c) PROVE SyncerInv'
      <3>1. CASE Reply(c) /\ UNCHANGED syncing
        BY <2>4, <3>1, SyncerMove DEF Check, Reply, Goto, States, Syncing
      <3>2. CASE ~syncing /\ ClaimSync /\ Goto(c, "handle")
        BY <2>4, <3>2 DEF Check, ClaimSync, Goto, SyncerInv, States, Syncing
      <3>3. CASE Goto(c, "sleep") /\ UNCHANGED syncing
        BY <2>4, <3>3, SyncerMove DEF Check, Goto, States, Syncing
      <3>4. QED
        BY <2>4, <3>1, <3>2, <3>3 DEF Check
    <2>5. ASSUME NEW c \in Conns,
                 TakeHandle(c) \/ Fsync(c) \/ FsyncFails(c) \/ NoteSynced(c)
                 \/ SpuriousWake(c)
          PROVE  SyncerInv'
      BY <2>5, SyncerMove DEF TakeHandle, Fsync, FsyncFails, NoteSynced,
         SpuriousWake, Goto, commit, States, Syncing
    <2>6. ASSUME NEW c \in Conns, Settle(c) PROVE SyncerInv'
      <3>1. PICK to \in {"serving", "check"} : pc' = [Woken EXCEPT ![c] = to]
        BY <2>6 DEF Settle
      <3>2. QED
        BY <2>6, <3>1, SyncerLeaves DEF Settle, States, Syncing
    <2>7. ASSUME NEW c \in Conns, SettleFailed(c) PROVE SyncerInv'
      BY <2>7, SyncerLeaves DEF SettleFailed, HangUp, States, Syncing
    <2>8. CASE Restart
      BY <2>8 DEF Restart, SyncerInv, States, Syncing
    <2>9. QED
      BY <2>1, <2>2, <2>3, <2>4, <2>5, <2>6, <2>7, <2>8 DEF Next, WaitStep
  <1>3. QED
    BY <1>1, <1>2, SyncerInvIsOneSyncer, PTL DEF Spec
=============================================================================
