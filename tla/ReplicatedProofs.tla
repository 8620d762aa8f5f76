-------------------------- MODULE ReplicatedProofs --------------------------
(***************************************************************************)
(* Replicated proved for every log, set of keys, number of crashes and     *)
(* snapshot interval.  What says something of the data needs that an error *)
(* in reading the applied file is not gone by the next start               *)
(* (TransientErrors = FALSE); what says something of the indexes does not. *)
(***************************************************************************)
EXTENDS Replicated, OrderedProofs

-----------------------------------------------------------------------------
(* After: the last write to a key wins.                                    *)

LEMMA AfterUnwritten ==
    ASSUME NEW m, NEW ws, NEW k \in Keys, \A i \in DOMAIN ws : ws[i].key # k
    PROVE  After(m, ws)[k] = m[k]
  BY DEF After

LEMMA AfterWritten ==
    ASSUME NEW m, NEW ws \in Seq(Commands), NEW k \in Keys, NEW i \in DOMAIN ws, ws[i].key = k
    PROVE  \E j \in DOMAIN ws : /\ ws[j].key = k
                                /\ \A l \in DOMAIN ws : ws[l].key = k => l <= j
                                /\ After(m, ws)[k] = ws[j].val
  <1> DEFINE W == {l \in DOMAIN ws : ws[l].key = k}
  <1>1. W \in SUBSET Nat /\ W # {} /\ Len(ws) \in Nat /\ \A x \in W : x <= Len(ws)
    OBVIOUS
  <1>2. Max(W) \in W /\ \A x \in W : x <= Max(W)
    BY <1>1, MaxFacts
  <1>3. After(m, ws)[k] = ws[Max(W)].val
    BY <1>1 DEF After
  <1>4. QED
    BY <1>2, <1>3

LEMMA AfterLast ==
    ASSUME NEW m, NEW ws \in Seq(Commands), NEW k \in Keys, NEW i \in DOMAIN ws, ws[i].key = k,
           \A l \in DOMAIN ws : ws[l].key = k => l <= i
    PROVE  After(m, ws)[k] = ws[i].val
  <1>1. PICK j \in DOMAIN ws : /\ ws[j].key = k
                               /\ \A l \in DOMAIN ws : ws[l].key = k => l <= j
                               /\ After(m, ws)[k] = ws[j].val
    BY AfterWritten
  <1>2. i = j
    BY <1>1
  <1>3. QED
    BY <1>1, <1>2

LEMMA AfterType ==
    ASSUME NEW m \in Map, NEW ws \in Seq(Commands)
    PROVE  After(m, ws) \in Map
  <1> SUFFICES ASSUME NEW k \in Keys PROVE After(m, ws)[k] \in Values \cup {Absent}
    BY DEF After, Map
  <1>1. CASE \A i \in DOMAIN ws : ws[i].key # k
    BY <1>1, AfterUnwritten DEF Map
  <1>2. CASE \E i \in DOMAIN ws : ws[i].key = k
    <2>1. PICK j \in DOMAIN ws : After(m, ws)[k] = ws[j].val
      BY <1>2, AfterWritten
    <2>2. ws[j] \in Commands
      OBVIOUS
    <2>3. QED
      BY <2>1, <2>2 DEF Commands, Noop
  <1>3. QED
    BY <1>1, <1>2

LEMMA AfterNothing ==
    ASSUME NEW m \in Map
    PROVE  After(m, <<>>) = m
  BY DEF After, Map

LEMMA NamedNothing == Named(<<>>) = {}
  BY DEF Named

-----------------------------------------------------------------------------
(* What a map holds of a log.  StateAt and HoldsPrefix for any log h.      *)
At(h, i) == After(NoKeys, SubSeq(h, 1, i))
Holds(h, m, X, i, j) ==
    \A k \in Keys : \E n \in (IF k \in X THEN 0 ELSE i)..j : m[k] = At(h, n)[k]

Logs == [1..MaxLog -> Commands]

LEMMA PieceOfLog ==
    ASSUME NEW h \in Logs, NEW a \in 0..MaxLog, NEW b \in a..MaxLog
    PROVE  /\ SubSeq(h, a + 1, b) \in Seq(Commands)
           /\ Len(SubSeq(h, a + 1, b)) = b - a
           /\ DOMAIN SubSeq(h, a + 1, b) = 1..(b - a)
           /\ \A i \in 1..(b - a) : SubSeq(h, a + 1, b)[i] = h[a + i]
  BY BoundsAssumption DEF Logs

(* A key that nothing between two indexes writes is the same at both.      *)
LEMMA SameAtBoth ==
    ASSUME NEW h \in Logs, NEW a \in 0..MaxLog, NEW b \in a..MaxLog, NEW k \in Keys,
           \A i \in (a + 1)..b : h[i].key # k
    PROVE  At(h, a)[k] = At(h, b)[k]
  <1> DEFINE A == SubSeq(h, 1, a)
             B == SubSeq(h, 1, b)
  <1>1. /\ A \in Seq(Commands) /\ DOMAIN A = 1..a /\ \A i \in 1..a : A[i] = h[i]
        /\ B \in Seq(Commands) /\ DOMAIN B = 1..b /\ \A i \in 1..b : B[i] = h[i]
    <2>1. 0 \in 0..MaxLog /\ a \in 0..MaxLog /\ b \in 0..MaxLog
      BY BoundsAssumption
    <2>2. QED
      BY <2>1, PieceOfLog
  <1> HIDE DEF A, B
  <1>2. CASE \E i \in 1..a : h[i].key = k
    <2>1. PICK j \in 1..a : /\ h[j].key = k
                            /\ \A l \in 1..a : h[l].key = k => l <= j
                            /\ After(NoKeys, A)[k] = h[j].val
      BY <1>1, <1>2, AfterWritten
    <2>2. j \in 1..b /\ \A l \in 1..b : h[l].key = k => l <= j
      <3> SUFFICES ASSUME NEW l \in 1..b, h[l].key = k PROVE l <= j
        BY BoundsAssumption
      <3>1. l \in 1..a \/ l \in (a + 1)..b
        BY BoundsAssumption
      <3>2. QED
        BY <3>1, <2>1
    <2>3. After(NoKeys, B)[k] = h[j].val
      BY <1>1, <2>1, <2>2, AfterLast
    <2>4. QED
      BY <2>1, <2>3 DEF At, A, B
  <1>3. CASE \A i \in 1..a : h[i].key # k
    <2>1. \A i \in 1..b : h[i].key # k
      <3> SUFFICES ASSUME NEW i \in 1..b PROVE h[i].key # k
        OBVIOUS
      <3>1. i \in 1..a \/ i \in (a + 1)..b
        BY BoundsAssumption
      <3>2. QED
        BY <3>1, <1>3
    <2>2. (\A i \in DOMAIN A : A[i].key # k) /\ (\A i \in DOMAIN B : B[i].key # k)
      BY <1>1, <1>3, <2>1
    <2>3. After(NoKeys, A)[k] = NoKeys[k] /\ After(NoKeys, B)[k] = NoKeys[k]
      BY <2>2, AfterUnwritten
    <2>4. QED
      BY <2>3 DEF At, A, B
  <1>4. QED
    BY <1>2, <1>3

(* Applying the entries after a to a map that holds the log up to a, and   *)
(* perhaps later writes, gives one that holds it up to b; the keys they    *)
(* name are not stale any more.                                            *)
LEMMA ApplyingHolds ==
    ASSUME NEW h \in Logs, NEW m, NEW X, NEW a \in 0..MaxLog, NEW b \in a..MaxLog,
           NEW r \in 0..MaxLog, NEW s \in 0..MaxLog, Holds(h, m, X, a, r), r <= s, b <= s
    PROVE  Holds(h, After(m, SubSeq(h, a + 1, b)), X \ Named(SubSeq(h, a + 1, b)), b, s)
  <1> DEFINE P == SubSeq(h, a + 1, b)
  <1>1. /\ P \in Seq(Commands) /\ DOMAIN P = 1..(b - a)
        /\ \A i \in 1..(b - a) : P[i] = h[a + i]
    BY PieceOfLog
  <1> HIDE DEF P
  <1> SUFFICES ASSUME NEW k \in Keys
               PROVE  \E n \in (IF k \in X \ Named(P) THEN 0 ELSE b)..s :
                          After(m, P)[k] = At(h, n)[k]
    BY DEF Holds, P
  <1>2. CASE \E i \in 1..(b - a) : h[a + i].key = k
    <2>1. PICK j \in 1..(b - a) : /\ P[j].key = k
                                  /\ \A l \in 1..(b - a) : P[l].key = k => l <= j
                                  /\ After(m, P)[k] = P[j].val
      <3>1. PICK i \in DOMAIN P : P[i].key = k
        BY <1>1, <1>2
      <3>2. \E j \in DOMAIN P :
                /\ P[j].key = k
                /\ \A l \in DOMAIN P : P[l].key = k => l <= j
                /\ After(m, P)[k] = P[j].val
        <4>1. P \in Seq(Commands)
          BY <1>1
        <4>2. QED
          BY <3>1, <4>1, AfterWritten
      <3>3. QED
        BY <3>2, <1>1
    <2> DEFINE B == SubSeq(h, 1, b)
    <2>2. B \in Seq(Commands) /\ DOMAIN B = 1..b /\ \A i \in 1..b : B[i] = h[i]
      <3>1. 0 \in 0..MaxLog /\ b \in 0..MaxLog
        BY BoundsAssumption
      <3>2. QED
        BY <3>1, PieceOfLog
    <2> HIDE DEF B
    <2>3. a + j \in 1..b /\ B[a + j].key = k /\ B[a + j].val = P[j].val
      BY <1>1, <2>1, <2>2, BoundsAssumption, SMTT(30)
    <2>4. ASSUME NEW l \in 1..b, B[l].key = k PROVE l <= a + j
      <3>1. CASE l <= a
        BY <3>1, BoundsAssumption
      <3>2. CASE l > a
        <4>1. l - a \in 1..(b - a) /\ a + (l - a) = l
          BY <3>2, BoundsAssumption
        <4>2. P[l - a].key = k
          BY <4>1, <1>1, <2>2, <2>4
        <4>3. l - a <= j
          BY <4>1, <4>2, <2>1
        <4>4. QED
          BY <4>1, <4>3, BoundsAssumption
      <3>3. QED
        BY <3>1, <3>2, BoundsAssumption
    <2>5. After(NoKeys, B)[k] = P[j].val
      <3>1. a + j \in DOMAIN B /\ \A l \in DOMAIN B : B[l].key = k => l <= a + j
        BY <2>2, <2>3, <2>4
      <3>2. QED
        BY <3>1, <2>2, <2>3, AfterLast, SMTT(30)
    <2>6. b \in b..s
      BY BoundsAssumption
    <2>8. k \in Named(P)
      BY <1>1, <2>1 DEF Named
    <2>7. QED
      BY <2>1, <2>5, <2>6, <2>8 DEF At, B
  <1>3. CASE \A i \in 1..(b - a) : h[a + i].key # k
    <2>1. After(m, P)[k] = m[k]
      <3>1. \A i \in DOMAIN P : P[i].key # k
        BY <1>1, <1>3
      <3>2. QED
        BY <3>1, AfterUnwritten
    <2>0. k \notin Named(P)
      BY <1>1, <1>3 DEF Named
    <2>2. PICK n \in (IF k \in X THEN 0 ELSE a)..r : m[k] = At(h, n)[k]
      BY DEF Holds
    <2>6. CASE k \in X
      <3>1. n \in 0..s
        BY <2>6, BoundsAssumption
      <3>2. QED
        BY <2>0, <2>1, <2>2, <2>6, <3>1
    <2>7. ASSUME k \notin X PROVE n \in a..r
      BY <2>7
    <2>3. CASE k \notin X /\ n >= b
      <3>1. n \in b..s
        BY <2>3, <2>7, BoundsAssumption
      <3>2. QED
        BY <3>1, <2>1, <2>2, <2>3
    <2>4. CASE k \notin X /\ n < b
      <3>1. n \in a..MaxLog /\ n \in 0..MaxLog /\ b \in n..MaxLog /\ b \in b..s
        BY <2>4, <2>7, BoundsAssumption
      <3>2. \A i \in (n + 1)..b : h[i].key # k
        <4> SUFFICES ASSUME NEW i \in (n + 1)..b PROVE h[i].key # k
          OBVIOUS
        <4>1. i - a \in 1..(b - a) /\ a + (i - a) = i
          BY <3>1, BoundsAssumption
        <4>2. QED
          BY <4>1, <1>3
      <3>3. At(h, n)[k] = At(h, b)[k]
        BY <3>1, <3>2, SameAtBoth
      <3>4. QED
        BY <3>1, <3>3, <2>1, <2>2, <2>4
    <2>5. QED
      <3>1. k \notin X => n \in Int /\ b \in Int
        BY <2>7, BoundsAssumption
      <3>2. QED
        BY <2>3, <2>4, <2>6, <3>1
  <1>4. QED
    BY <1>1, <1>2, <1>3

(* A claim about a longer prefix, or fewer later writes, or fewer stale    *)
(* keys, is the stronger.                                                  *)
LEMMA HoldsLess ==
    ASSUME NEW h, NEW m, NEW X, NEW Y, NEW i \in Nat, NEW j \in Nat, NEW a \in Nat,
           NEW b \in Nat, a <= i, j <= b, X \subseteq Y, Holds(h, m, X, i, j)
    PROVE  Holds(h, m, Y, a, b)
  <1> SUFFICES ASSUME NEW k \in Keys
               PROVE  \E n \in (IF k \in Y THEN 0 ELSE a)..b : m[k] = At(h, n)[k]
    BY DEF Holds
  <1>1. PICK n \in (IF k \in X THEN 0 ELSE i)..j : m[k] = At(h, n)[k]
    BY DEF Holds
  <1>2. n \in (IF k \in Y THEN 0 ELSE a)..b
    OBVIOUS
  <1>3. QED
    BY <1>1, <1>2

-----------------------------------------------------------------------------
(***************************************************************************)
(* The indexes.  What the node has handed out is in the store or under its *)
(* snapshot; while a restore is under way, in the background or under the  *)
(* lock, the snapshot it restores is the node's, still ahead of the store. *)
(***************************************************************************)
Restoring == {"restore", "restoreSync", "restoreClaim"}

RestoreInv ==
    restore # None =>
        /\ restore.index = snap.index /\ restore.data = snap.data /\ restore.stale = snap.stale
        /\ snap.index > applied
        /\ background /\ pc \notin {"down", "restore", "restoreSync"}

IndexInv ==
    /\ TypeOK
    /\ taken <= commit /\ snap.index <= commit
    /\ taken <= applied \/ taken <= snap.index
    /\ RestoreInv
    /\ pc \in Restoring => snap.index > applied
    /\ job # None => job.index <= applied /\ job.index <= commit
    /\ pc = "down" => applied = 0 /\ job = None

(***************************************************************************)
(* The data.  The store is what it should be while it runs; and the files  *)
(* with any first few of the unsynced writes, which is what a crash leaves,*)
(* hold the log up to the applied file, unless the snapshot is past that   *)
(* and the next open restores it.  Each copy comes with the keys that a    *)
(* stop amid a compaction's unlinks has brought back in it: for these it   *)
(* has a value of the log, of whatever age.                                *)
(***************************************************************************)
ReachInv ==
    /\ applied <= reach /\ snap.index <= reach /\ appliedFile <= reach
    /\ pc # "down" => appliedFile <= applied

StoreInv ==
    /\ pc \notin {"sync", "restoreSync"} => unsynced = <<>>
    /\ pc \notin {"down"} \cup Restoring => Holds(history, store, Stale, applied, reach)
    /\ pc = "restoreSync" => store = snap.data
    /\ pc = "restoreClaim" => disk = snap.data

DiskInv ==
    snap.index <= appliedFile =>
        \A n \in 0..Len(unsynced) :
            LET kept == SubSeq(unsynced, 1, n)
            IN  Holds(history, After(disk, kept), revived \ Named(kept), appliedFile, reach)

SnapshotsInv ==
    /\ Holds(history, snap.data, snap.stale, snap.index, reach)
    /\ job # None => Holds(history, job.data, job.stale, job.index, reach)

DataInv == ReachInv /\ StoreInv /\ DiskInv /\ SnapshotsInv

(* What the type invariant says of the log and of the store.               *)
LEMMA TypeFacts ==
    ASSUME TypeOK
    PROVE  /\ history \in Logs
           /\ store \in Map
           /\ NoKeys \in Map
           /\ Stale \in SUBSET Keys /\ Dead \in SUBSET Keys
  BY HistoriesAssumption, AfterType DEF TypeOK, Logs, store, NoKeys, Map, Stale, Dead

LEMMA InitIndex == Init => IndexInv
  <1> SUFFICES ASSUME Init PROVE IndexInv
    OBVIOUS
  <1>1. NoKeys \in Map
    BY DEF NoKeys, Map
  <1>2. snap \in [index : 0..MaxLog, data : Map, stale : SUBSET Keys]
    BY <1>1, BoundsAssumption DEF Init
  <1>3. TypeOK
    BY <1>1, <1>2, BoundsAssumption DEF Init, TypeOK
  <1>4. QED
    BY <1>2, <1>3 DEF Init, IndexInv, RestoreInv, Restoring

LEMMA CommitIndex ==
    ASSUME IndexInv, NEW n \in 1..MaxLog, Commit(n)
    PROVE  IndexInv'
  BY BoundsAssumption
  DEF IndexInv, TypeOK, RestoreInv, Restoring, Commit, storeVars, jobVars, unlinkVars, bounds

LEMMA InstallSnapshotIndex ==
    ASSUME IndexInv, NEW i \in 1..MaxLog, NEW h \in i..MaxLog, NEW data \in Map,
           NEW stale \in SUBSET Keys, InstallSnapshot(i, data, stale, h)
    PROVE  IndexInv'
  <1>1. Max({taken, i}) \in 0..MaxLog /\ Max({reach, h}) \in 0..MaxLog /\ Max({taken, i}) <= i
    <2>1. taken \in 0..MaxLog /\ reach \in 0..MaxLog /\ taken < i /\ MaxLog \in Nat
      BY BoundsAssumption, SMTT(30) DEF IndexInv, TypeOK, InstallSnapshot
    <2>2. /\ taken \in Nat /\ i \in Nat /\ reach \in Nat /\ h \in Nat
          /\ i <= MaxLog /\ h <= MaxLog
      BY <2>1
    <2>3. /\ Max({taken, i}) = IF taken >= i THEN taken ELSE i
          /\ Max({reach, h}) = IF reach >= h THEN reach ELSE h
      BY <2>2, MaxOfTwo
    <2>4. QED
      BY <2>1, <2>2, <2>3
  <1>2. QED
    BY <1>1, BoundsAssumption
    DEF IndexInv, TypeOK, RestoreInv, Restoring, InstallSnapshot, storeVars, jobVars,
        unlinkVars, bounds

LEMMA ApplyMustRestoreIndex ==
    ASSUME IndexInv, ApplyMustRestore
    PROVE  IndexInv'
  BY DEF IndexInv, TypeOK, RestoreInv, Restoring, ApplyMustRestore, SnapshotAhead, nodeVars,
     storeVars, jobVars, unlinkVars, bounds

(* The entries applied are the ones after those in the store.              *)
LEMMA ApplyEntriesFacts ==
    ASSUME IndexInv, ApplyEntries
    PROVE  /\ snap.index <= applied
           /\ \/ /\ commit > applied
                 /\ unsynced' = unsynced \o SubSeq(history, applied + 1, commit)
                 /\ applied' = commit
                 /\ pc' = "sync"
              \/ /\ commit <= applied
                 /\ UNCHANGED <<unsynced, applied>>
                 /\ pc' = "inline"
  <1>1. taken <= applied /\ snap.index <= applied
    BY DEF IndexInv, TypeOK, ApplyEntries, SnapshotAhead
  <1>2. Max({taken, applied}) = applied
    BY <1>1, MaxOfTwo DEF IndexInv, TypeOK
  <1>3. commit \in Nat /\ applied \in Nat
    BY BoundsAssumption DEF IndexInv, TypeOK
  <1>4. CASE applied + 1 <= commit
    <2>1. /\ unsynced' = unsynced \o SubSeq(history, applied + 1, commit)
          /\ applied' = commit
          /\ pc' = "sync"
      BY <1>2, <1>4, Zenon DEF ApplyEntries
    <2>2. QED
      BY <1>1, <1>3, <1>4, <2>1
  <1>5. CASE ~(applied + 1 <= commit)
    BY <1>1, <1>2, <1>3, <1>5 DEF ApplyEntries
  <1>6. QED
    BY <1>4, <1>5

LEMMA ApplyEntriesIndex ==
    ASSUME IndexInv, ApplyEntries
    PROVE  IndexInv'
  <1>1. \/ /\ commit > applied
           /\ unsynced' = unsynced \o SubSeq(history, applied + 1, commit)
           /\ applied' = commit
           /\ pc' = "sync"
        \/ /\ commit <= applied
           /\ UNCHANGED <<unsynced, applied>>
           /\ pc' = "inline"
    BY ApplyEntriesFacts
  <1>2. unsynced' \in Seq(Commands)
    <2>1. CASE commit > applied
      <3>1. commit \in applied..MaxLog
        BY <2>1, BoundsAssumption DEF IndexInv, TypeOK
      <3>2. SubSeq(history, applied + 1, commit) \in Seq(Commands)
        BY <3>1, TypeFacts, PieceOfLog DEF IndexInv, TypeOK
      <3>3. unsynced' = unsynced \o SubSeq(history, applied + 1, commit)
        <4>1. ~(commit <= applied)
          BY <2>1, BoundsAssumption DEF IndexInv, TypeOK
        <4>2. QED
          BY <1>1, <4>1, Zenon
      <3>4. QED
        BY <3>2, <3>3 DEF IndexInv, TypeOK
    <2>2. CASE ~(commit > applied)
      BY <1>1, <2>2 DEF IndexInv, TypeOK
    <2>3. QED
      BY <2>1, <2>2
  <1>3. applied' \in 0..MaxLog /\ applied' >= applied
    BY <1>1, BoundsAssumption DEF IndexInv, TypeOK
  <1>4. Max({reach, applied'}) \in 0..MaxLog
    BY <1>3, MaxOfTwo, BoundsAssumption DEF IndexInv, TypeOK
  <1>5. restore = None
    BY ApplyEntriesFacts DEF IndexInv, RestoreInv, TypeOK
  <1>6. QED
    BY <1>1, <1>2, <1>3, <1>4, <1>5
    DEF IndexInv, TypeOK, RestoreInv, Restoring, ApplyEntries, jobVars, unlinkVars, bounds

LEMMA SyncStoreIndex ==
    ASSUME IndexInv, SyncStore
    PROVE  IndexInv'
  <1>1. store \in Map /\ Stale \in SUBSET Keys
    BY TypeFacts DEF IndexInv
  <1>2. /\ disk' \in Map /\ unsynced' = <<>> /\ dead' \in SUBSET Keys
        /\ loose' \in SUBSET Keys /\ revived' \in SUBSET Keys
    BY <1>1 DEF IndexInv, TypeOK, SyncStore
  <1>3. QED
    BY <1>2 DEF IndexInv, TypeOK, RestoreInv, Restoring, SyncStore, nodeVars, jobVars, bounds

LEMMA WriteAppliedIndex ==
    ASSUME IndexInv, WriteApplied
    PROVE  IndexInv'
  BY DEF IndexInv, TypeOK, RestoreInv, Restoring, WriteApplied, nodeVars, storeVars, jobVars,
     unlinkVars, bounds

LEMMA InlineSnapshotIndex ==
    ASSUME IndexInv, InlineSnapshot
    PROVE  IndexInv'
  <1>1. store \in Map /\ Stale \in SUBSET Keys
    BY TypeFacts DEF IndexInv
  <1>5. loose' \in SUBSET Keys
    BY TypeFacts DEF IndexInv, TypeOK, InlineSnapshot
  <1>2. CASE snap' = snap
    BY <1>2, <1>5
    DEF IndexInv, TypeOK, RestoreInv, Restoring, InlineSnapshot, storeVars, jobVars, bounds
  <1>3. CASE snap' = [index |-> applied, data |-> store, stale |-> Stale] /\ MaySnapshot
    <2>0. applied > snap.index /\ applied <= commit
      BY <1>3, BoundsAssumption DEF MaySnapshot, IndexInv, TypeOK
    <2>1. restore = None
      BY <2>0 DEF IndexInv, TypeOK, RestoreInv
    <2>2. /\ snap' \in [index : 0..MaxLog, data : Map, stale : SUBSET Keys]
          /\ snap'.index = applied
      BY <1>1, <1>3 DEF IndexInv, TypeOK
    <2>3. QED
      BY <1>5, <2>0, <2>1, <2>2, BoundsAssumption
      DEF IndexInv, TypeOK, RestoreInv, Restoring, InlineSnapshot, storeVars, jobVars, bounds
  <1>4. QED
    BY <1>2, <1>3 DEF InlineSnapshot

(* The keys whose value in the store is not the snapshot's.                *)
Differ == {k \in Keys : store[k] # snap.data[k]}

LEMMA WritesFacts ==
    ASSUME TypeOK, NEW D \in SUBSET Keys
    PROVE  /\ Writes(D) \in Seq(Commands)
           /\ \A i \in DOMAIN Writes(D) :
                 Writes(D)[i].key \in D /\ Writes(D)[i].val = snap.data[Writes(D)[i].key]
           /\ \A k \in D : \E i \in DOMAIN Writes(D) : Writes(D)[i].key = k
  <1> DEFINE n == Cardinality(D)
             f == InOrder(D)
  <1>1. D \in SUBSET Nat /\ IsFiniteSet(D)
    <2>1. IsFiniteSet(Keys)
      BY FS_Interval, BoundsAssumption DEF Keys
    <2>2. IsFiniteSet(D)
      BY <2>1, FS_Subset
    <2>3. QED
      BY <2>2 DEF Keys
  <1>2. /\ n \in Nat /\ f \in [1..n -> D]
        /\ \A k \in D : \E i \in 1..n : f[i] = k
    BY <1>1, InOrderFacts
  <1>3. Writes(D) = [i \in 1..n |-> [key |-> f[i], val |-> snap.data[f[i]]]]
    BY DEF Writes
  <1> HIDE DEF n, f
  <1>4. ASSUME NEW i \in 1..n
        PROVE  /\ [key |-> f[i], val |-> snap.data[f[i]]] \in Commands
               /\ f[i] \in D
    <2>1. f[i] \in D /\ f[i] \in Keys
      BY <1>2
    <2>2. snap.data[f[i]] \in Values \cup {Absent}
      BY <2>1 DEF TypeOK, Map
    <2>3. QED
      BY <2>1, <2>2 DEF Commands
  <1> DEFINE W == Writes(D)
  <1>5. /\ W \in Seq(Commands) /\ DOMAIN W = 1..n
        /\ \A i \in 1..n : W[i].key = f[i] /\ W[i].val = snap.data[f[i]]
    BY <1>2, <1>3, <1>4
  <1> HIDE DEF W
  <1>6. QED
    BY <1>2, <1>4, <1>5 DEF W

LEMMA RestoreStoreIndex ==
    ASSUME IndexInv, RestoreStore
    PROVE  IndexInv'
  <1>1. Writes(Differ) \in Seq(Commands)
    BY WritesFacts DEF Differ, IndexInv
  <1>2. unsynced' \in Seq(Commands)
    BY <1>1 DEF RestoreStore, Differ, IndexInv, TypeOK
  <1>3. QED
    BY <1>2 DEF IndexInv, TypeOK, RestoreInv, Restoring, RestoreStore, nodeVars, jobVars,
        unlinkVars, bounds

LEMMA ClaimRestoredIndex ==
    ASSUME IndexInv, ClaimRestored
    PROVE  IndexInv' /\ applied' = snap.index /\ revived' = snap.stale
  <1>1. applied' = snap.index /\ applied' >= applied /\ applied' \in 0..MaxLog
    BY DEF IndexInv, TypeOK, RestoreInv, Restoring, ClaimRestored
  <1>2. revived' = snap.stale /\ revived' \in SUBSET Keys
    BY DEF IndexInv, TypeOK, RestoreInv, ClaimRestored
  <1>3. QED
    BY <1>1, <1>2
    DEF IndexInv, TypeOK, RestoreInv, Restoring, ClaimRestored, nodeVars, storeVars, bounds

LEMMA StartSnapshotIndex ==
    ASSUME IndexInv, StartSnapshot
    PROVE  IndexInv'
  <1>1. store \in Map /\ Stale \in SUBSET Keys
    BY TypeFacts DEF IndexInv
  <1>2. job' \in [index : 0..MaxLog, data : Map, stale : SUBSET Keys] /\ job'.index = applied
    BY <1>1 DEF StartSnapshot, IndexInv, TypeOK
  <1>3. applied <= commit
    BY BoundsAssumption DEF StartSnapshot, MaySnapshot, IndexInv, TypeOK
  <1>4. QED
    BY <1>2, <1>3, BoundsAssumption
    DEF IndexInv, TypeOK, RestoreInv, Restoring, StartSnapshot, nodeVars, storeVars,
        unlinkVars, bounds

LEMMA FinishSnapshotIndex ==
    ASSUME IndexInv, FinishSnapshot
    PROVE  IndexInv'
  <1>1. compaction' \in {"no", "due", "out"}
    BY DEF IndexInv, TypeOK, FinishSnapshot
  <1>2. CASE job.index > snap.index
    <2>1. job \in [index : 0..MaxLog, data : Map, stale : SUBSET Keys] /\ job.index <= applied
      BY DEF IndexInv, TypeOK, FinishSnapshot
    <2>2. restore = None
      BY <1>2, <2>1 DEF IndexInv, TypeOK, RestoreInv
    <2>3. QED
      BY <1>1, <1>2, <2>1, <2>2
      DEF IndexInv, TypeOK, RestoreInv, Restoring, FinishSnapshot, storeVars, unlinkVars, bounds
  <1>3. CASE ~(job.index > snap.index)
    BY <1>1, <1>3 DEF IndexInv, TypeOK, RestoreInv, Restoring, FinishSnapshot, storeVars,
        unlinkVars, bounds
  <1>4. QED
    BY <1>2, <1>3

LEMMA AbandonSnapshotIndex ==
    ASSUME IndexInv, AbandonSnapshot
    PROVE  IndexInv'
  BY BoundsAssumption
  DEF IndexInv, TypeOK, RestoreInv, Restoring, AbandonSnapshot, nodeVars, storeVars,
      unlinkVars

LEMMA CompactionIndex ==
    ASSUME IndexInv, StartCompaction \/ EndCompaction
    PROVE  IndexInv'
  <1>1. CASE StartCompaction
    <2>1. dead' \in SUBSET Keys
      BY <1>1, TypeFacts DEF IndexInv, TypeOK, StartCompaction
    <2>2. QED
      BY <1>1, <2>1
      DEF IndexInv, TypeOK, RestoreInv, Restoring, StartCompaction, nodeVars, storeVars, bounds
  <1>2. CASE FinishCompaction
    BY <1>2
    DEF IndexInv, TypeOK, RestoreInv, Restoring, FinishCompaction, nodeVars, storeVars, bounds
  <1>3. CASE AbandonCompaction
    BY <1>3, BoundsAssumption
    DEF IndexInv, TypeOK, RestoreInv, Restoring, AbandonCompaction, nodeVars, storeVars
  <1>4. QED
    BY <1>1, <1>2, <1>3 DEF EndCompaction

LEMMA StartRestoreIndex ==
    ASSUME IndexInv, StartRestore
    PROVE  IndexInv'
  <1>1. /\ restore' \in [index : 0..MaxLog, data : Map, stale : SUBSET Keys, placed : BOOLEAN]
        /\ restore'.index = snap.index /\ restore'.data = snap.data
        /\ restore'.stale = snap.stale
    BY DEF IndexInv, TypeOK, StartRestore
  <1>2. QED
    BY <1>1
    DEF IndexInv, TypeOK, RestoreInv, Restoring, StartRestore, SnapshotAhead, nodeVars,
        storeVars, unlinkVars, bounds

LEMMA PlaceRestoredIndex ==
    ASSUME IndexInv, PlaceRestored
    PROVE  IndexInv'
  <1>1. /\ restore' \in [index : 0..MaxLog, data : Map, stale : SUBSET Keys, placed : BOOLEAN]
        /\ restore'.index = restore.index /\ restore'.data = restore.data
        /\ restore'.stale = restore.stale
    BY DEF IndexInv, TypeOK, PlaceRestored
  <1>2. QED
    BY <1>1
    DEF IndexInv, TypeOK, RestoreInv, Restoring, PlaceRestored, nodeVars, storeVars,
        unlinkVars, bounds

LEMMA FinishRestoreIndex ==
    ASSUME IndexInv, FinishRestore
    PROVE  IndexInv'
  <1>1. restore.data \in Map
    BY DEF IndexInv, TypeOK, FinishRestore
  <1>2. QED
    BY <1>1
    DEF IndexInv, TypeOK, RestoreInv, Restoring, FinishRestore, nodeVars, jobVars,
        unlinkVars, bounds

LEMMA AbandonRestoreIndex ==
    ASSUME IndexInv, AbandonRestore
    PROVE  IndexInv'
  BY BoundsAssumption
  DEF IndexInv, TypeOK, RestoreInv, Restoring, AbandonRestore, nodeVars, storeVars,
      unlinkVars

LEMMA CrashIndex ==
    ASSUME IndexInv, Crash \/ CrashWithBoth
    PROVE  IndexInv'
  <1>1. Stop
    BY DEF Crash, CrashWithBoth
  <1>2. disk' \in Map
    <2>1. CASE Crash
      BY <2>1 DEF Crash
    <2>2. CASE CrashWithBoth
      BY <2>2 DEF CrashWithBoth
    <2>3. QED
      BY <2>1, <2>2
  <1>4. loose' \in SUBSET Keys /\ revived' \in SUBSET Keys
    BY DEF Crash, CrashWithBoth, IndexInv, TypeOK
  <1>3. QED
    BY <1>1, <1>2, <1>4, BoundsAssumption DEF IndexInv, TypeOK, RestoreInv, Restoring, Stop

LEMMA StartIndex ==
    ASSUME IndexInv, Start
    PROVE  IndexInv'
  <1>1. PICK a \in 0..MaxLog : Begin(a)
    BY BoundsAssumption DEF Start, Open, OpenUnread, IndexInv, TypeOK
  <1>2. appliedFile' \in 0..MaxLog
    BY BoundsAssumption DEF Start, Open, OpenUnread, IndexInv, TypeOK
  <1>3. QED
    BY <1>1, <1>2
    DEF IndexInv, TypeOK, RestoreInv, Restoring, Begin, nodeVars, storeVars, jobVars,
        unlinkVars, bounds

LEMMA NextIndex ==
    ASSUME IndexInv, [Next]_vars
    PROVE  IndexInv'
  <1>1. CASE UNCHANGED vars
    BY <1>1 DEF vars, IndexInv, TypeOK, RestoreInv
  <1>2. CASE Learn
    BY <1>2, CommitIndex DEF Learn
  <1>3. ASSUME NEW i \in 1..MaxLog, NEW h \in i..MaxLog, NEW data \in Map,
               NEW stale \in SUBSET Keys, InstallSnapshot(i, data, stale, h)
        PROVE  IndexInv'
    BY <1>3, InstallSnapshotIndex
  <1>4. CASE Apply
    BY <1>4, ApplyMustRestoreIndex, ApplyEntriesIndex, SyncStoreIndex, WriteAppliedIndex,
       InlineSnapshotIndex, RestoreStoreIndex, ClaimRestoredIndex DEF Apply
  <1>5. CASE Jobs
    BY <1>5, StartSnapshotIndex, FinishSnapshotIndex, AbandonSnapshotIndex, CompactionIndex,
       StartRestoreIndex, PlaceRestoredIndex, FinishRestoreIndex, AbandonRestoreIndex DEF Jobs
  <1>6. CASE Crash \/ CrashWithBoth
    BY <1>6, CrashIndex
  <1>7. CASE Start
    BY <1>7, StartIndex
  <1>8. QED
    BY <1>1, <1>2, <1>3, <1>4, <1>5, <1>6, <1>7 DEF Next

(***************************************************************************)
(* Every variable keeps its type, with transient errors or without.        *)
(***************************************************************************)
THEOREM TypesAreKept == Spec => []TypeOK
  <1>1. Init => IndexInv
    BY InitIndex
  <1>2. IndexInv /\ [Next]_vars => IndexInv'
    BY NextIndex
  <1>3. IndexInv => TypeOK
    BY DEF IndexInv
  <1>4. QED
    BY <1>1, <1>2, <1>3, PTL DEF Spec

(* The one step that could take the applied index back sets it outright,   *)
(* to a snapshot that IndexInv says is still ahead of the store.           *)
LEMMA NextNeverGoesBack ==
    ASSUME IndexInv, [Next]_vars, pc # "down", pc' # "down"
    PROVE  applied' >= applied
  <1> applied \in 0..MaxLog
    BY DEF IndexInv, TypeOK
  <1>1. CASE UNCHANGED applied
    BY <1>1, BoundsAssumption
  <1>2. CASE ApplyEntries
    BY <1>2, ApplyEntriesFacts, BoundsAssumption DEF IndexInv, TypeOK
  <1>3. CASE ClaimRestored
    BY <1>3, ClaimRestoredIndex, SMTT(30) DEF IndexInv, TypeOK, Restoring, ClaimRestored
  <1>4. CASE Crash \/ CrashWithBoth \/ Start
    BY <1>4 DEF Crash, CrashWithBoth, Stop, Start, Open, OpenUnread, Begin
  <1>5. CASE Next /\ ~(ApplyEntries \/ ClaimRestored \/ Crash \/ CrashWithBoth \/ Start)
    BY <1>1, <1>5
    DEF Next, Learn, Commit, InstallSnapshot, Apply, ApplyMustRestore, SyncStore, WriteApplied,
        InlineSnapshot, RestoreStore, Jobs, StartSnapshot, FinishSnapshot, AbandonSnapshot,
        StartCompaction, EndCompaction, FinishCompaction, AbandonCompaction, StartRestore,
        PlaceRestored, FinishRestore,
        AbandonRestore
  <1>6. QED
    BY <1>1, <1>2, <1>3, <1>4, <1>5 DEF vars

(***************************************************************************)
(* While the replica runs its applied index never goes back: not when a    *)
(* restore, in the background or under the lock, sets it outright, however *)
(* many snapshots arrived and entries were committed while it ran.         *)
(***************************************************************************)
THEOREM AppliedIsMonotone == Spec => AppliedNeverGoesBack
  <1>1. Init => IndexInv
    BY InitIndex
  <1>2. IndexInv /\ [Next]_vars => IndexInv'
    BY NextIndex
  <1>3. IndexInv /\ [Next]_vars => [pc # "down" /\ pc' # "down" => applied' >= applied]_vars
    BY NextNeverGoesBack
  <1>4. QED
    BY <1>1, <1>2, <1>3, PTL DEF Spec, AppliedNeverGoesBack

-----------------------------------------------------------------------------
(* The data.                                                               *)

LEMMA HoldsIsHoldsPrefix ==
    ASSUME NEW m, NEW X, NEW i, NEW j
    PROVE  Holds(history, m, X, i, j) <=> HoldsPrefix(m, X, i, j)
  BY DEF Holds, HoldsPrefix, At, StateAt

LEMMA InitData == Init => DataInv
  <1> SUFFICES ASSUME Init PROVE DataInv
    OBVIOUS
  <1>1. NoKeys \in Map /\ history \in Logs
    BY InitIndex, TypeFacts DEF IndexInv
  <1>2. SubSeq(history, 1, 0) = <<>> /\ SubSeq(unsynced, 1, 0) = <<>> /\ Len(unsynced) = 0
    BY <1>1 DEF Init, Logs
  <1>3. At(history, 0) = NoKeys /\ store = NoKeys
    BY <1>1, <1>2, AfterNothing DEF At, Init, store
  <1>4. Holds(history, NoKeys, {}, 0, 0)
    BY <1>3 DEF Holds
  <1>5. ReachInv /\ SnapshotsInv
    BY <1>4, BoundsAssumption DEF Init, ReachInv, SnapshotsInv
  <1>6. StoreInv
    BY <1>3, <1>4 DEF Init, StoreInv, Stale
  <1>7. DiskInv
    <2> SUFFICES ASSUME NEW n \in 0..Len(unsynced)
                 PROVE  Holds(history, After(disk, SubSeq(unsynced, 1, n)),
                              revived \ Named(SubSeq(unsynced, 1, n)), appliedFile, reach)
      BY DEF DiskInv
    <2>1. n = 0
      BY <1>2
    <2>2. /\ SubSeq(unsynced, 1, n) = <<>> /\ disk = NoKeys /\ appliedFile = 0 /\ reach = 0
          /\ revived \ Named(SubSeq(unsynced, 1, n)) = {}
      BY <1>2, <2>1 DEF Init
    <2>3. After(disk, SubSeq(unsynced, 1, n)) = NoKeys
      BY <1>1, <2>2, AfterNothing
    <2>4. QED
      BY <1>4, <2>2, <2>3
  <1>8. QED
    BY <1>5, <1>6, <1>7 DEF DataInv

(* A step that leaves the store and both applied indexes alone.  The       *)
(* snapshot may be another, and the cluster may have seen more applied.    *)
LEMMA StoreUntouched ==
    ASSUME IndexInv, IndexInv', DataInv,
           UNCHANGED <<history, disk, unsynced, applied, appliedFile, revived>>,
           pc # "down", pc' # "down", reach <= reach', snap.index <= snap'.index,
           snap'.index <= reach', SnapshotsInv',
           pc \in {"sync", "restoreSync"} => pc' = pc,
           pc \in Restoring => pc' \in Restoring,
           pc' = "restoreSync" => store = snap'.data,
           pc' = "restoreClaim" => disk = snap'.data
    PROVE  DataInv'
  <1>1. /\ reach \in Nat /\ reach' \in Nat /\ applied \in Nat /\ appliedFile \in Nat
        /\ snap.index \in Nat /\ snap'.index \in Nat
    BY BoundsAssumption DEF IndexInv, TypeOK
  <1>2. store' = store /\ Stale' = Stale
    BY DEF store, Stale
  <1>3. ReachInv'
    BY <1>1 DEF DataInv, ReachInv
  <1>4. StoreInv'
    BY <1>1, <1>2, HoldsLess DEF DataInv, StoreInv, Restoring
  <1>5. DiskInv'
    <2> SUFFICES ASSUME snap.index <= appliedFile, NEW n \in 0..Len(unsynced)
                 PROVE  Holds(history, After(disk, SubSeq(unsynced, 1, n)),
                              revived \ Named(SubSeq(unsynced, 1, n)), appliedFile, reach')
      BY <1>1 DEF DiskInv
    <2>1. Holds(history, After(disk, SubSeq(unsynced, 1, n)),
                revived \ Named(SubSeq(unsynced, 1, n)), appliedFile, reach)
      BY DEF DataInv, DiskInv
    <2>2. QED
      BY <1>1, <2>1, HoldsLess
  <1>6. QED
    BY <1>3, <1>4, <1>5 DEF DataInv

(* The same with the snapshots left alone too.                             *)
LEMMA DataUntouched ==
    ASSUME IndexInv, IndexInv', DataInv,
           UNCHANGED <<history, disk, unsynced, applied, appliedFile, snap, reach, revived>>,
           job' = job \/ job' = None,
           pc # "down", pc' # "down",
           pc \in {"sync", "restoreSync"} => pc' = pc,
           pc \in Restoring => pc' \in Restoring,
           pc' \in {"restoreSync", "restoreClaim"} => pc' = pc
    PROVE  DataInv'
  <1>1. SnapshotsInv'
    BY DEF DataInv, SnapshotsInv
  <1>2. snap.index <= snap'.index /\ reach <= reach' /\ snap'.index <= reach'
    BY BoundsAssumption DEF IndexInv, TypeOK, DataInv, ReachInv
  <1>3. QED
    BY <1>1, <1>2, StoreUntouched DEF DataInv, StoreInv

LEMMA CommitData ==
    ASSUME IndexInv, IndexInv', DataInv, NEW n \in 1..MaxLog, Commit(n)
    PROVE  DataInv'
  BY DataUntouched DEF Commit, storeVars, jobVars, unlinkVars, Restoring

(* The leader's snapshot holds the log up to its index, and for keys its   *)
(* own replay was ahead on, a write up to h.                               *)
LEMMA InstallSnapshotData ==
    ASSUME IndexInv, IndexInv', DataInv, NEW i \in 1..MaxLog, NEW h \in i..MaxLog,
           NEW data \in Map, NEW stale \in SUBSET Keys, HoldsPrefix(data, stale, i, h),
           InstallSnapshot(i, data, stale, h)
    PROVE  DataInv'
  <1>1. /\ reach' \in Nat /\ reach <= reach' /\ h <= reach'
        /\ i \in Nat /\ h \in Nat /\ i <= h /\ i > snap.index /\ reach \in Nat
    <2>1. i \in Nat /\ h \in Nat /\ i <= h /\ reach \in Nat
      <3>1. MaxLog \in Nat /\ reach \in 0..MaxLog
        BY BoundsAssumption DEF IndexInv, TypeOK
      <3>2. QED
        BY <3>1
    <2>2. reach' = Max({reach, h})
      BY DEF InstallSnapshot
    <2>3. reach' = IF reach >= h THEN reach ELSE h
      BY <2>1, <2>2, MaxOfTwo
    <2>4. i > snap.index
      BY BoundsAssumption, SMTT(30) DEF InstallSnapshot, IndexInv, TypeOK
    <2>5. QED
      BY <2>1, <2>3, <2>4
  <1>2. snap'.index = i /\ snap'.data = data /\ snap'.stale = stale
    BY DEF InstallSnapshot
  <1>3. Holds(history, data, stale, i, reach')
    BY <1>1, HoldsIsHoldsPrefix, HoldsLess
  <1>4. job # None => Holds(history, job.data, job.stale, job.index, reach')
    <2> SUFFICES ASSUME job # None PROVE Holds(history, job.data, job.stale, job.index, reach')
      OBVIOUS
    <2>1. job.index \in Nat /\ Holds(history, job.data, job.stale, job.index, reach)
      BY DEF IndexInv, TypeOK, DataInv, SnapshotsInv
    <2>2. QED
      BY <1>1, <2>1, HoldsLess
  <1>5. SnapshotsInv'
    BY <1>2, <1>3, <1>4 DEF SnapshotsInv, InstallSnapshot, jobVars
  <1>6. /\ UNCHANGED <<history, disk, unsynced, applied, appliedFile, revived>>
        /\ pc = "idle" /\ pc' = "apply"
    BY DEF InstallSnapshot, storeVars, unlinkVars
  <1>7. snap.index <= snap'.index /\ snap'.index <= reach'
    <2>1. snap.index \in Nat
      BY BoundsAssumption DEF IndexInv, TypeOK
    <2>2. QED
      BY <1>1, <1>2, <2>1
  <1>8. QED
    BY <1>1, <1>5, <1>6, <1>7, StoreUntouched DEF Restoring

LEMMA ApplyMustRestoreData ==
    ASSUME IndexInv, IndexInv', DataInv, ApplyMustRestore
    PROVE  DataInv'
  BY DataUntouched DEF ApplyMustRestore, storeVars, jobVars, nodeVars, unlinkVars, Restoring

(* The entries after the applied index go into the store in order, so any  *)
(* first few of them leave it holding a longer prefix than before.         *)
LEMMA ApplyEntriesData ==
    ASSUME IndexInv, IndexInv', DataInv, ApplyEntries
    PROVE  DataInv'
  <1>1. /\ history \in Logs /\ unsynced = <<>> /\ store = disk /\ disk \in Map
        /\ Holds(history, disk, revived, applied, reach)
    <2>1. unsynced = <<>> /\ Holds(history, store, Stale, applied, reach)
      BY DEF DataInv, StoreInv, ApplyEntries, Restoring
    <2>2. disk \in Map
      BY DEF IndexInv, TypeOK
    <2>3. Stale = revived
      BY <2>1, NamedNothing DEF Stale
    <2>4. QED
      BY <2>1, <2>2, <2>3, AfterNothing, TypeFacts DEF store, IndexInv
  <1>2. /\ history' = history /\ disk' = disk /\ appliedFile' = appliedFile /\ snap' = snap
        /\ job' = job /\ revived' = revived
    BY DEF ApplyEntries, jobVars, unlinkVars
  <1>3. /\ reach \in 0..MaxLog /\ reach' \in 0..MaxLog /\ applied \in 0..MaxLog
        /\ applied' \in 0..MaxLog /\ appliedFile \in 0..MaxLog /\ commit \in 0..MaxLog
        /\ snap.index \in 0..MaxLog
    BY DEF IndexInv, TypeOK
  <1>4. reach <= reach' /\ applied' <= reach' /\ applied <= applied'
    <2>1. reach' = Max({reach, applied'})
      BY DEF ApplyEntries
    <2>2. applied <= applied'
      BY <1>3, ApplyEntriesFacts, BoundsAssumption
    <2>3. QED
      BY <1>3, <2>1, <2>2, MaxOfTwo, BoundsAssumption
  <1>5. ReachInv'
    BY <1>2, <1>3, <1>4, BoundsAssumption DEF DataInv, ReachInv, ApplyEntries
  <1>6. SnapshotsInv'
    <2>1. Holds(history, snap.data, snap.stale, snap.index, reach')
      BY <1>3, <1>4, HoldsLess, BoundsAssumption DEF DataInv, SnapshotsInv
    <2>2. ASSUME job # None PROVE Holds(history, job.data, job.stale, job.index, reach')
      <3>1. job.index \in Nat /\ Holds(history, job.data, job.stale, job.index, reach)
        BY <2>2 DEF IndexInv, TypeOK, DataInv, SnapshotsInv
      <3>2. QED
        BY <3>1, <1>3, <1>4, HoldsLess, BoundsAssumption
    <2>3. QED
      BY <1>2, <2>1, <2>2 DEF SnapshotsInv
  <1>7. CASE commit > applied
    <2>1. unsynced' = SubSeq(history, applied + 1, commit) /\ applied' = commit /\ pc' = "sync"
      <3>1. ~(commit <= applied)
        BY <1>3, <1>7, BoundsAssumption
      <3>2. /\ unsynced' = unsynced \o SubSeq(history, applied + 1, commit)
            /\ applied' = commit /\ pc' = "sync"
        BY <3>1, ApplyEntriesFacts, Zenon
      <3>3. commit \in applied..MaxLog
        BY <1>3, <1>7, BoundsAssumption
      <3>4. SubSeq(history, applied + 1, commit) \in Seq(Commands)
        BY <1>1, <1>3, <3>3, PieceOfLog
      <3>5. QED
        BY <1>1, <3>2, <3>4
    <2>2. ASSUME NEW n \in 0..(commit - applied)
          PROVE  Holds(history, After(disk, SubSeq(history, applied + 1, applied + n)),
                       revived \ Named(SubSeq(history, applied + 1, applied + n)),
                       applied + n, reach')
      <3>1. applied + n \in applied..MaxLog /\ applied + n <= reach'
        BY <1>3, <1>4, <2>1, BoundsAssumption
      <3>2. QED
        BY <1>1, <1>3, <1>4, <3>1, ApplyingHolds
    <2>3. Holds(history, store', Stale', applied', reach')
      <3>1. commit - applied \in 0..(commit - applied) /\ applied + (commit - applied) = commit
        BY <1>3, <1>7, BoundsAssumption
      <3>2. /\ store' = After(disk, SubSeq(history, applied + 1, commit))
            /\ Stale' = revived \ Named(SubSeq(history, applied + 1, commit))
        BY <1>2, <2>1 DEF store, Stale
      <3>3. QED
        BY <2>1, <2>2, <3>1, <3>2
    <2>4. StoreInv'
      BY <1>2, <2>1, <2>3 DEF StoreInv
    <2>5. DiskInv'
      <3> SUFFICES ASSUME NEW n \in 0..Len(unsynced')
                   PROVE  Holds(history, After(disk, SubSeq(unsynced', 1, n)),
                                revived \ Named(SubSeq(unsynced', 1, n)), appliedFile,
                                reach')
        BY <1>2 DEF DiskInv
      <3>1. commit \in applied..MaxLog
        BY <1>3, <1>7, BoundsAssumption
      <3>2. Len(unsynced') = commit - applied
        BY <1>1, <1>3, <2>1, <3>1, PieceOfLog
      <3>3. n \in 0..(commit - applied) /\ applied + n \in applied..MaxLog
        BY <1>3, <3>1, <3>2, BoundsAssumption
      <3>4. SubSeq(unsynced', 1, n) = SubSeq(history, applied + 1, applied + n)
        BY <1>1, <1>3, <2>1, <3>1, <3>2, <3>3, PieceOfLog, BoundsAssumption DEF Logs
      <3>5. Holds(history, After(disk, SubSeq(unsynced', 1, n)),
                  revived \ Named(SubSeq(unsynced', 1, n)), applied + n, reach')
        BY <2>2, <3>3, <3>4
      <3>6. appliedFile <= applied + n /\ applied + n \in Nat
        BY <1>3, <3>3, BoundsAssumption DEF DataInv, ReachInv, ApplyEntries
      <3>7. QED
        BY <1>3, <3>5, <3>6, HoldsLess, BoundsAssumption
    <2>6. QED
      BY <1>5, <1>6, <2>4, <2>5 DEF DataInv
  <1>8. CASE ~(commit > applied)
    <2>1. unsynced' = unsynced /\ applied' = applied /\ pc' = "inline"
      BY <1>3, <1>8, ApplyEntriesFacts, BoundsAssumption
    <2>2. QED
      BY <1>2, <1>3, <1>4, <1>5, <1>6, <2>1, StoreUntouched
      DEF ApplyEntries, Restoring, ReachInv, IndexInv, TypeOK
  <1>9. QED
    BY <1>7, <1>8

(* A sync takes every write to the files.                                  *)
LEMMA SyncStoreData ==
    ASSUME IndexInv, IndexInv', DataInv, SyncStore
    PROVE  DataInv'
  <1>1. /\ UNCHANGED <<history, applied, appliedFile, snap, job, reach>>
        /\ disk' = store /\ unsynced' = <<>> /\ revived' = Stale
        /\ \/ pc = "sync" /\ pc' = "claim"
           \/ pc = "restoreSync" /\ pc' = "restoreClaim"
    BY DEF SyncStore, nodeVars, jobVars
  <1>2. disk' \in Map /\ unsynced \in Seq(Commands) /\ appliedFile \in Nat /\ applied \in Nat
        /\ snap.index \in Nat
    BY <1>1, BoundsAssumption DEF IndexInv, TypeOK
  <1>3. store' = disk' /\ Stale' = revived'
    BY <1>1, <1>2, AfterNothing, NamedNothing DEF store, Stale
  <1>4. ReachInv' /\ SnapshotsInv'
    BY <1>1 DEF DataInv, ReachInv, SnapshotsInv
  <1>5. StoreInv'
    BY <1>1, <1>3 DEF DataInv, StoreInv, Restoring
  <1>6. DiskInv'
    <2> SUFFICES ASSUME snap.index <= appliedFile, NEW n \in 0..Len(<<>>)
                 PROVE  Holds(history, After(disk', SubSeq(<<>>, 1, n)),
                              revived' \ Named(SubSeq(<<>>, 1, n)), appliedFile, reach)
      BY <1>1 DEF DiskInv
    <2>1. n = 0 /\ SubSeq(<<>>, 1, n) = <<>>
      OBVIOUS
    <2>2. Len(unsynced) \in 0..Len(unsynced) /\ SubSeq(unsynced, 1, Len(unsynced)) = unsynced
      BY <1>2
    <2>3. Holds(history, store, Stale, appliedFile, reach)
      BY <2>2 DEF DataInv, DiskInv, store, Stale
    <2>4. QED
      BY <1>1, <1>2, <2>1, <2>3, AfterNothing, NamedNothing
  <1>7. QED
    BY <1>4, <1>5, <1>6 DEF DataInv

(* With nothing unsynced DiskInv is a statement about the files alone.     *)
LEMMA SyncedDisk ==
    ASSUME disk \in Map, unsynced = <<>>
    PROVE  /\ store = disk /\ Stale = revived
           /\ DiskInv <=> (snap.index <= appliedFile =>
                               Holds(history, disk, revived, appliedFile, reach))
  <1>1. store = disk /\ Stale = revived
    BY AfterNothing, NamedNothing DEF store, Stale
  <1>2. ASSUME NEW n \in 0..Len(unsynced)
        PROVE  /\ After(disk, SubSeq(unsynced, 1, n)) = disk
               /\ revived \ Named(SubSeq(unsynced, 1, n)) = revived
    <2>1. SubSeq(unsynced, 1, n) = <<>>
      OBVIOUS
    <2>2. QED
      BY <2>1, AfterNothing, NamedNothing
  <1>3. 0 \in 0..Len(unsynced)
    OBVIOUS
  <1>4. QED
    BY <1>1, <1>2, <1>3 DEF DiskInv

(* The claim is written once the store holds what it claims.               *)
LEMMA WriteAppliedData ==
    ASSUME IndexInv, IndexInv', DataInv, WriteApplied
    PROVE  DataInv'
  <1>1. /\ UNCHANGED <<history, applied, disk, unsynced, snap, job, reach, revived>>
        /\ appliedFile' = applied /\ pc = "claim" /\ pc' = "inline"
    BY DEF WriteApplied, nodeVars, storeVars, jobVars
  <1>2. /\ disk \in Map /\ disk' \in Map /\ unsynced = <<>> /\ unsynced' = <<>>
        /\ Holds(history, store, Stale, applied, reach)
    BY <1>1 DEF IndexInv, TypeOK, DataInv, StoreInv, Restoring
  <1>3. store = disk /\ Stale = revived
    BY <1>2, SyncedDisk
  <1>4. DiskInv'
    <2> SUFFICES ASSUME NEW n \in 0..Len(<<>>)
                 PROVE  Holds(history, After(disk, SubSeq(<<>>, 1, n)),
                              revived \ Named(SubSeq(<<>>, 1, n)), applied, reach)
      BY <1>1, <1>2 DEF DiskInv
    <2>1. n = 0 /\ SubSeq(<<>>, 1, n) = <<>>
      OBVIOUS
    <2>2. QED
      BY <1>2, <1>3, <2>1, AfterNothing, NamedNothing
  <1>5. ReachInv' /\ SnapshotsInv'
    BY <1>1, BoundsAssumption DEF DataInv, ReachInv, SnapshotsInv, IndexInv, TypeOK
  <1>6. StoreInv'
    BY <1>1, <1>2 DEF StoreInv, Restoring, store, Stale
  <1>7. QED
    BY <1>4, <1>5, <1>6 DEF DataInv

LEMMA InlineSnapshotData ==
    ASSUME IndexInv, IndexInv', DataInv, InlineSnapshot
    PROVE  DataInv'
  <1>1. /\ UNCHANGED <<history, applied, appliedFile, disk, unsynced, job, reach, revived>>
        /\ pc = "inline" /\ pc' = "idle"
    BY DEF InlineSnapshot, storeVars, jobVars
  <1>2. CASE snap' = snap
    BY <1>1, <1>2, DataUntouched DEF Restoring
  <1>3. CASE snap' = [index |-> applied, data |-> store, stale |-> Stale] /\ MaySnapshot
    <2>1. snap'.index = applied /\ snap'.data = store /\ snap'.stale = Stale
      BY <1>3
    <2>2. Holds(history, store, Stale, applied, reach)
      BY <1>1 DEF DataInv, StoreInv, Restoring
    <2>3. SnapshotsInv'
      BY <1>1, <2>1, <2>2 DEF DataInv, SnapshotsInv
    <2>4. snap.index <= snap'.index /\ snap'.index <= reach' /\ reach <= reach'
      BY <1>1, <1>3, <2>1, BoundsAssumption, SMTT(30)
      DEF MaySnapshot, IndexInv, TypeOK, DataInv, ReachInv
    <2>5. QED
      BY <1>1, <2>3, <2>4, StoreUntouched DEF Restoring
  <1>4. QED
    BY <1>2, <1>3 DEF InlineSnapshot

(* Every key the store and the snapshot disagree on is written, once, so   *)
(* with the last write the store is the snapshot.                          *)
LEMMA RestoreStoreData ==
    ASSUME IndexInv, IndexInv', DataInv, RestoreStore
    PROVE  DataInv'
  <1>1. /\ UNCHANGED <<history, applied, appliedFile, disk, snap, job, reach>>
        /\ unsynced' = unsynced \o Writes(Differ) /\ pc = "restore" /\ pc' = "restoreSync"
    BY DEF RestoreStore, nodeVars, jobVars, Differ
  <1>2. disk \in Map /\ snap.data \in Map /\ unsynced = <<>> /\ TypeOK /\ Differ \in SUBSET Keys
    BY <1>1 DEF IndexInv, TypeOK, DataInv, StoreInv, Differ
  <1>3. store = disk
    BY <1>2, SyncedDisk
  <1> DEFINE W == Writes(Differ)
  <1>4. /\ W \in Seq(Commands)
        /\ \A i \in DOMAIN W : W[i].key \in Differ /\ W[i].val = snap.data[W[i].key]
        /\ \A k \in Differ : \E i \in DOMAIN W : W[i].key = k
    BY <1>2, WritesFacts
  <1>5. unsynced' = W
    BY <1>1, <1>2, <1>4
  <1> HIDE DEF W
  <1>6. ASSUME NEW k \in Keys PROVE After(disk, W)[k] = snap.data[k]
    <2>1. CASE k \in Differ
      <3>1. PICK i \in DOMAIN W : W[i].key = k
        BY <1>4, <2>1
      <3>2. PICK j \in DOMAIN W : W[j].key = k /\ After(disk, W)[k] = W[j].val
        BY <1>4, <3>1, AfterWritten
      <3>3. QED
        BY <1>4, <3>2
    <2>2. CASE k \notin Differ
      <3>1. \A i \in DOMAIN W : W[i].key # k
        BY <1>4, <2>2
      <3>2. After(disk, W)[k] = disk[k]
        BY <3>1, AfterUnwritten
      <3>3. QED
        BY <1>3, <2>2, <3>2 DEF Differ
    <2>3. QED
      BY <2>1, <2>2
  <1>7. store' = snap'.data
    <2>1. store' = After(disk, W)
      BY <1>1, <1>5 DEF store
    <2>2. After(disk, W) = snap.data
      BY <1>2, <1>6 DEF After, Map
    <2>3. QED
      BY <1>1, <2>1, <2>2
  <1>8. StoreInv'
    BY <1>1, <1>7 DEF StoreInv, Restoring
  <1>9. ReachInv' /\ SnapshotsInv'
    BY <1>1 DEF DataInv, ReachInv, SnapshotsInv
  <1>10. DiskInv'
    BY <1>1, BoundsAssumption, SMTT(30)
    DEF IndexInv, TypeOK, Restoring, DataInv, ReachInv, DiskInv
  <1>11. QED
    BY <1>8, <1>9, <1>10 DEF DataInv

LEMMA ClaimRestoredData ==
    ASSUME IndexInv, IndexInv', DataInv, ClaimRestored
    PROVE  DataInv'
  <1>1. /\ UNCHANGED <<history, disk, unsynced, snap, job, reach>>
        /\ applied' = snap.index /\ appliedFile' = snap.index /\ revived' = snap.stale
        /\ pc = "restoreClaim" /\ pc' = "apply"
    BY ClaimRestoredIndex DEF ClaimRestored, nodeVars, storeVars
  <1>2. /\ disk \in Map /\ unsynced = <<>> /\ disk = snap.data
        /\ Holds(history, snap.data, snap.stale, snap.index, reach)
    BY <1>1 DEF IndexInv, TypeOK, DataInv, StoreInv, SnapshotsInv
  <1>3. store = disk /\ store' = store /\ Stale' = snap.stale
    BY <1>1, <1>2, SyncedDisk, NamedNothing DEF store, Stale
  <1>4. DiskInv'
    <2> SUFFICES ASSUME NEW n \in 0..Len(<<>>)
                 PROVE  Holds(history, After(disk, SubSeq(<<>>, 1, n)),
                              snap.stale \ Named(SubSeq(<<>>, 1, n)), snap.index, reach)
      BY <1>1, <1>2 DEF DiskInv
    <2>1. n = 0 /\ SubSeq(<<>>, 1, n) = <<>>
      OBVIOUS
    <2>2. QED
      BY <1>2, <2>1, AfterNothing, NamedNothing
  <1>5. StoreInv'
    BY <1>1, <1>2, <1>3 DEF StoreInv
  <1>6. ReachInv' /\ SnapshotsInv'
    BY <1>1, BoundsAssumption DEF DataInv, ReachInv, SnapshotsInv, IndexInv, TypeOK
  <1>7. QED
    BY <1>4, <1>5, <1>6 DEF DataInv

(* A snapshot job takes what the store holds at its index.                 *)
LEMMA StartSnapshotData ==
    ASSUME IndexInv, IndexInv', DataInv, StartSnapshot
    PROVE  DataInv'
  <1>1. /\ UNCHANGED <<history, applied, appliedFile, disk, unsynced, snap, reach, revived, pc>>
        /\ job' = [index |-> applied, data |-> store, stale |-> Stale] /\ pc = "idle"
    BY DEF StartSnapshot, nodeVars, storeVars, unlinkVars
  <1>2. job'.index = applied /\ job'.data = store /\ job'.stale = Stale
    BY <1>1
  <1>3. Holds(history, store, Stale, applied, reach)
    BY <1>1 DEF DataInv, StoreInv, Restoring
  <1>4. SnapshotsInv'
    BY <1>1, <1>2, <1>3 DEF DataInv, SnapshotsInv
  <1>5. snap.index <= snap'.index /\ snap'.index <= reach' /\ reach <= reach'
    BY <1>1, BoundsAssumption DEF IndexInv, TypeOK, DataInv, ReachInv
  <1>6. QED
    BY <1>1, <1>4, <1>5, StoreUntouched DEF Restoring

LEMMA FinishSnapshotData ==
    ASSUME IndexInv, IndexInv', DataInv, FinishSnapshot
    PROVE  DataInv'
  <1>1. /\ UNCHANGED <<history, applied, appliedFile, disk, unsynced, reach, revived, pc>>
        /\ job # None /\ job' = None /\ pc = "idle"
    BY DEF FinishSnapshot, storeVars, unlinkVars
  <1>2. CASE job.index > snap.index
    <2>1. snap' = job
      BY <1>2 DEF FinishSnapshot
    <2>2. SnapshotsInv'
      BY <1>1, <2>1 DEF DataInv, SnapshotsInv
    <2>3. job.index \in Nat /\ job.index <= applied
      BY <1>1 DEF IndexInv, TypeOK
    <2>4. snap.index <= snap'.index /\ snap'.index <= reach' /\ reach <= reach'
      BY <1>1, <1>2, <2>1, <2>3, BoundsAssumption, SMTT(30)
      DEF IndexInv, TypeOK, DataInv, ReachInv
    <2>5. QED
      BY <1>1, <2>2, <2>4, StoreUntouched DEF Restoring
  <1>3. CASE ~(job.index > snap.index)
    <2>1. snap' = snap
      BY <1>3 DEF FinishSnapshot
    <2>2. QED
      BY <1>1, <2>1, DataUntouched DEF Restoring
  <1>4. QED
    BY <1>2, <1>3

(* The jobs' other steps say nothing new of the data.                      *)
LEMMA OtherJobsData ==
    ASSUME IndexInv, IndexInv', DataInv,
           \/ AbandonSnapshot \/ StartCompaction \/ EndCompaction
           \/ StartRestore \/ PlaceRestored \/ AbandonRestore
    PROVE  DataInv'
  <1>1. /\ UNCHANGED <<history, disk, unsynced, applied, appliedFile, snap, reach, revived, pc>>
        /\ job' = job \/ job' = None
    BY DEF AbandonSnapshot, StartCompaction, EndCompaction, FinishCompaction,
           AbandonCompaction, StartRestore, PlaceRestored, AbandonRestore, nodeVars, storeVars,
           unlinkVars
  <1>2. pc # "down"
    BY DEF AbandonSnapshot, StartCompaction, EndCompaction, FinishCompaction,
           AbandonCompaction, StartRestore, PlaceRestored, AbandonRestore, IndexInv, RestoreInv
  <1>3. QED
    BY <1>1, <1>2, DataUntouched

(* The restored files are the snapshot the node still has.                 *)
LEMMA FinishRestoreData ==
    ASSUME IndexInv, IndexInv', DataInv, FinishRestore
    PROVE  DataInv'
  <1>1. /\ UNCHANGED <<history, applied, appliedFile, snap, job, reach>>
        /\ disk' = restore.data /\ unsynced' = <<>>
        /\ pc = "idle" /\ pc' = "restoreClaim" /\ restore # None
    BY DEF FinishRestore, nodeVars, jobVars
  <1>2. disk' = snap'.data /\ snap.index > applied
    BY <1>1 DEF IndexInv, RestoreInv
  <1>3. StoreInv'
    BY <1>1, <1>2 DEF StoreInv, Restoring
  <1>4. ReachInv' /\ SnapshotsInv'
    BY <1>1 DEF DataInv, ReachInv, SnapshotsInv
  <1>5. DiskInv'
    <2>1. appliedFile <= applied
      BY <1>1 DEF DataInv, ReachInv
    <2>2. appliedFile \in Nat /\ applied \in Nat /\ snap.index \in Nat
      BY BoundsAssumption DEF IndexInv, TypeOK
    <2>3. ~(snap.index <= appliedFile)
      BY <1>2, <2>1, <2>2
    <2>4. QED
      BY <1>1, <2>3 DEF DiskInv
  <1>6. QED
    BY <1>3, <1>4, <1>5 DEF DataInv

(* A crash leaves the files with some first few of the unsynced writes,    *)
(* and keys that a compaction's unlinks had in hand with an old value; or  *)
(* the files of a restore among the old ones, under a snapshot that the    *)
(* applied file has not reached.                                           *)
LEMMA CrashData ==
    ASSUME IndexInv, IndexInv', DataInv, Crash \/ CrashWithBoth
    PROVE  DataInv'
  <1>1. /\ UNCHANGED <<history, appliedFile, snap, reach>>
        /\ unsynced' = <<>> /\ applied' = 0 /\ job' = None /\ pc' = "down"
    BY DEF Crash, CrashWithBoth, Stop
  <1>2. ReachInv'
    BY <1>1, BoundsAssumption DEF DataInv, ReachInv, IndexInv, TypeOK
  <1>3. SnapshotsInv'
    BY <1>1 DEF DataInv, SnapshotsInv
  <1>4. StoreInv'
    BY <1>1 DEF StoreInv, Restoring
  <1>5. DiskInv'
    <2> SUFFICES ASSUME snap.index <= appliedFile
                 PROVE  Holds(history, disk', revived', appliedFile, reach)
      <3>1. disk' \in Map
        BY DEF IndexInv, TypeOK
      <3> SUFFICES ASSUME snap.index <= appliedFile, NEW n \in 0..Len(<<>>)
                   PROVE  Holds(history, After(disk', SubSeq(<<>>, 1, n)),
                                revived' \ Named(SubSeq(<<>>, 1, n)), appliedFile, reach)
        BY <1>1 DEF DiskInv
      <3>2. n = 0 /\ SubSeq(<<>>, 1, n) = <<>>
        OBVIOUS
      <3>3. QED
        BY <3>1, <3>2, AfterNothing, NamedNothing
    <2>1. reach \in Nat /\ appliedFile \in Nat
      BY BoundsAssumption DEF IndexInv, TypeOK
    <2>2. CASE Crash
      <3>1. PICK l \in 0..Len(unsynced) :
                LET kept  == SubSeq(unsynced, 1, l)
                    plain == After(disk, kept)
                IN  /\ \A k \in Keys : disk'[k] = plain[k] \/ disk'[k] \in Old(k)
                    /\ revived' = (revived \ Named(kept))
                                     \cup {k \in Keys : disk'[k] # plain[k]}
        BY <2>2 DEF Crash
      <3> DEFINE kept  == SubSeq(unsynced, 1, l)
                 plain == After(disk, kept)
      <3>2. Holds(history, plain, revived \ Named(kept), appliedFile, reach)
        BY DEF DataInv, DiskInv
      <3>3. /\ \A k \in Keys : disk'[k] = plain[k] \/ disk'[k] \in Old(k)
            /\ revived' = (revived \ Named(kept)) \cup {k \in Keys : disk'[k] # plain[k]}
        BY <3>1
      <3> HIDE DEF kept, plain
      <3> SUFFICES ASSUME NEW k \in Keys
                   PROVE  \E n \in (IF k \in revived' THEN 0 ELSE appliedFile)..reach :
                              disk'[k] = At(history, n)[k]
        BY DEF Holds
      <3>4. CASE disk'[k] = plain[k]
        <4>1. PICK n \in (IF k \in revived \ Named(kept) THEN 0 ELSE appliedFile)..reach :
                  plain[k] = At(history, n)[k]
          BY <3>2 DEF Holds
        <4>2. n \in (IF k \in revived' THEN 0 ELSE appliedFile)..reach
          BY <2>1, <3>3
        <4>3. QED
          BY <3>4, <4>1, <4>2
      <3>5. CASE disk'[k] # plain[k]
        <4>1. k \in revived' /\ disk'[k] \in Old(k)
          BY <3>3, <3>5
        <4>2. PICK n \in 0..reach : disk'[k] = At(history, n)[k]
          BY <4>1 DEF Old, StateAt, At
        <4>3. QED
          BY <4>1, <4>2
      <3>6. QED
        BY <3>4, <3>5
    <2>3. CASE CrashWithBoth
      <3>1. snap.index > applied /\ appliedFile <= applied
        BY <2>3 DEF CrashWithBoth, IndexInv, RestoreInv, DataInv, ReachInv
      <3>2. appliedFile \in Nat /\ applied \in Nat /\ snap.index \in Nat
        BY BoundsAssumption DEF IndexInv, TypeOK
      <3>3. QED
        BY <3>1, <3>2
    <2>4. QED
      BY <2>2, <2>3
  <1>6. QED
    BY <1>2, <1>3, <1>4, <1>5 DEF DataInv

(* A start believes the applied file, or 0 when it cannot be read, and     *)
(* restores the snapshot when that is ahead.                               *)
LEMMA StartData ==
    ASSUME IndexInv, IndexInv', DataInv, Start, ~TransientErrors
    PROVE  DataInv'
  <1>1. /\ UNCHANGED <<history, disk, unsynced, snap, job, reach, revived>>
        /\ pc = "down" /\ appliedFile' = applied' /\ applied' <= appliedFile
        /\ pc' = IF snap.index > applied' THEN "restore" ELSE "idle"
    BY BoundsAssumption
    DEF Start, Open, OpenUnread, Begin, nodeVars, storeVars, jobVars, unlinkVars, IndexInv,
        TypeOK
  <1>2. /\ applied' \in Nat /\ appliedFile \in Nat /\ reach \in Nat /\ snap.index \in Nat
        /\ disk \in Map /\ unsynced = <<>>
    BY <1>1, BoundsAssumption DEF IndexInv, TypeOK, DataInv, StoreInv
  <1>3. snap.index <= appliedFile => Holds(history, disk, revived, appliedFile, reach)
    BY <1>2, SyncedDisk DEF DataInv
  <1>4. snap.index <= applied' => Holds(history, disk, revived, applied', reach)
    BY <1>1, <1>2, <1>3, HoldsLess
  <1>5. store' = disk /\ Stale' = revived
    BY <1>1, <1>2, AfterNothing, NamedNothing DEF store, Stale
  <1>6. ReachInv'
    BY <1>1, <1>2 DEF DataInv, ReachInv
  <1>7. StoreInv'
    BY <1>1, <1>2, <1>4, <1>5 DEF StoreInv, Restoring
  <1>8. DiskInv'
    <2> SUFFICES ASSUME snap.index <= applied', NEW n \in 0..Len(<<>>)
                 PROVE  Holds(history, After(disk, SubSeq(<<>>, 1, n)),
                              revived \ Named(SubSeq(<<>>, 1, n)), applied', reach)
      BY <1>1, <1>2 DEF DiskInv
    <2>1. n = 0 /\ SubSeq(<<>>, 1, n) = <<>>
      OBVIOUS
    <2>2. QED
      BY <1>2, <1>4, <2>1, AfterNothing, NamedNothing
  <1>9. SnapshotsInv'
    BY <1>1 DEF DataInv, SnapshotsInv
  <1>10. QED
    BY <1>6, <1>7, <1>8, <1>9 DEF DataInv

LEMMA NextData ==
    ASSUME IndexInv, DataInv, [Next]_vars, ~TransientErrors
    PROVE  IndexInv' /\ DataInv'
  <1>0. IndexInv'
    BY NextIndex
  <1>1. CASE UNCHANGED vars
    <2>1. store' = store /\ Stale' = Stale
      BY <1>1 DEF vars, store, Stale
    <2>2. QED
      BY <1>0, <1>1, <2>1 DEF vars, DataInv, ReachInv, StoreInv, DiskInv, SnapshotsInv
  <1>2. CASE Learn
    BY <1>0, <1>2, CommitData DEF Learn
  <1>3. ASSUME NEW i \in 1..MaxLog, NEW h \in i..MaxLog, NEW data \in Map,
               NEW stale \in SUBSET Keys, HoldsPrefix(data, stale, i, h),
               InstallSnapshot(i, data, stale, h)
        PROVE  DataInv'
    BY <1>0, <1>3, InstallSnapshotData
  <1>4. CASE Apply
    BY <1>0, <1>4, ApplyMustRestoreData, ApplyEntriesData, SyncStoreData, WriteAppliedData,
       InlineSnapshotData, RestoreStoreData, ClaimRestoredData DEF Apply
  <1>5. CASE Jobs
    BY <1>0, <1>5, StartSnapshotData, FinishSnapshotData, OtherJobsData, FinishRestoreData
    DEF Jobs
  <1>6. CASE Crash \/ CrashWithBoth
    BY <1>0, <1>6, CrashData
  <1>7. CASE Start
    BY <1>0, <1>7, StartData
  <1>8. QED
    BY <1>0, <1>1, <1>2, <1>3, <1>4, <1>5, <1>6, <1>7 DEF Next

(***************************************************************************)
(* Whatever was lost in crashes, replayed, snapshotted or restored, and    *)
(* whichever way the applied file was read, a store that says it applied   *)
(* up to an index holds every write up to it and nothing that this or the  *)
(* leader's replica had not applied before.  Excused is a deleted key that *)
(* a stop amid the unlinks at the end of a compaction brought back, here   *)
(* or in a snapshot restored here, until the log writes it again; even     *)
(* that key has a value that the log gave it once.                         *)
(***************************************************************************)
THEOREM TheStoreHoldsItsPrefix ==
    ASSUME ~TransientErrors
    PROVE  Spec => []StoreHoldsWhatItApplied
  <1>1. Init => IndexInv /\ DataInv
    BY InitIndex, InitData
  <1>2. IndexInv /\ DataInv /\ [Next]_vars => (IndexInv /\ DataInv)'
    BY NextData
  <1>3. IndexInv /\ DataInv => StoreHoldsWhatItApplied
    <2> SUFFICES ASSUME IndexInv, DataInv, pc \notin {"down"} \cup Restoring
                 PROVE  HoldsPrefix(store, Stale, applied, Max({applied, reach}))
      BY DEF StoreHoldsWhatItApplied, Restoring
    <2>1. applied \in Nat /\ reach \in Nat /\ applied <= reach
      BY BoundsAssumption DEF IndexInv, TypeOK, DataInv, ReachInv
    <2>2. Max({applied, reach}) = reach
      BY <2>1, MaxOfTwo
    <2>3. Holds(history, store, Stale, applied, reach)
      BY DEF DataInv, StoreInv
    <2>4. QED
      BY <2>2, <2>3, HoldsIsHoldsPrefix
  <1>4. QED
    BY <1>1, <1>2, <1>3, PTL DEF Spec

(***************************************************************************)
(* A snapshot, written in the background, under the lock or taken from a   *)
(* leader, holds every write up to the index at which it replaces the log, *)
(* except for keys that a stop amid a compaction's unlinks had brought     *)
(* back in the store it was taken of.                                      *)
(***************************************************************************)
THEOREM TheSnapshotHoldsItsPrefix ==
    ASSUME ~TransientErrors
    PROVE  Spec => []SnapshotHoldsItsPrefix
  <1>1. Init => IndexInv /\ DataInv
    BY InitIndex, InitData
  <1>2. IndexInv /\ DataInv /\ [Next]_vars => (IndexInv /\ DataInv)'
    BY NextData
  <1>3. IndexInv /\ DataInv => SnapshotHoldsItsPrefix
    <2> SUFFICES ASSUME IndexInv, DataInv
                 PROVE  HoldsPrefix(snap.data, snap.stale, snap.index, Max({snap.index, reach}))
      BY DEF SnapshotHoldsItsPrefix
    <2>1. snap.index \in Nat /\ reach \in Nat /\ snap.index <= reach
      BY BoundsAssumption DEF IndexInv, TypeOK, DataInv, ReachInv
    <2>2. Max({snap.index, reach}) = reach
      BY <2>1, MaxOfTwo
    <2>3. Holds(history, snap.data, snap.stale, snap.index, reach)
      BY DEF DataInv, SnapshotsInv
    <2>4. QED
      BY <2>2, <2>3, HoldsIsHoldsPrefix
  <1>4. QED
    BY <1>1, <1>2, <1>3, PTL DEF Spec
=============================================================================
