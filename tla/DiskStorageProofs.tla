------------------------- MODULE DiskStorageProofs -------------------------
(***************************************************************************)
(* What is proved about DiskStorage, for every bound: the type of its      *)
(* state and the bookkeeping of its part files whatever fails, and, when   *)
(* the power does not fail on top of what a killed process left unsynced,  *)
(* that no open is ever refused and that the storage implements            *)
(* AtomicStorage.                                                          *)
(***************************************************************************)
EXTENDS DiskStorage, OrderedProofs

-----------------------------------------------------------------------------
(* The inductive invariant, step by step of every call.                    *)

(* Entries without a gap, the first of them just above b.                  *)
Run(b, es) == \A i \in 1..Len(es) : es[i].index = b + i

(* What an open can read of a file is such a run.                          *)
Runs(f) == \E b \in 0..MaxIndex : Run(b, Whole(f))

(* Memory between two calls: the log follows the snapshot, and end is the  *)
(* length of the file.                                                     *)
Good(m) == Run(m.base.index, m.log) /\ m.end = Len(m.log)

(* The files hold what memory m says.                                      *)
Holding(m) == [hard |-> m.hard, snap |-> m.base, ents |-> m.log]

(* A call of this kind is running and began in good order.                 *)
Calling(kind) == call # NoCall /\ call.kind = kind /\ Good(entry0)

(* The memory a truncation and an installation work towards.               *)
Truncated == [entry0 EXCEPT !.log = SubSeq(@, 1, Keep(entry0, call.index))]
Installed == Compact(entry0, call.sink.meta)
Newer == call.sink.meta.index > entry0.base.index

(* What a step of an open, or a rewrite of the entries, starts from.       *)
Read == /\ mem.hard = kern.hard /\ mem.base = kern.snap
        /\ kern.ents \in Seq(Entry)

(* The files, as the kernel has them, against memory.                      *)
AtIdle == call = NoCall /\ Good(mem) /\ kern = Holding(mem)
AtHardRename == Calling("save") /\ mem = entry0 /\ kern = Holding(mem)
AtHardDir == /\ Calling("save") /\ mem = entry0
             /\ kern = [Holding(mem) EXCEPT !.hard = call.hard]
AtWrite == /\ Calling("append") /\ mem = entry0 /\ kern = Holding(mem)
           /\ Run(mem.base.index, mem.log \o call.entries)
AtWriteSync == /\ Calling("append") /\ mem = entry0
               /\ kern = [Holding(mem) EXCEPT !.ents = mem.log \o call.entries]
               /\ Run(mem.base.index, mem.log \o call.entries)
AtSetLen == Calling("truncate") /\ mem = Truncated /\ kern = Holding(entry0)
AtSetLenSync == Calling("truncate") /\ mem = Truncated /\ kern = Holding(mem)
AtSnapRename == /\ Calling("install") /\ mem = entry0 /\ kern = Holding(mem)
                /\ Newer /\ call.sink \in sinks
AtSnapDir == /\ Calling("install") /\ mem = entry0 /\ Newer
             /\ kern = [Holding(mem) EXCEPT !.snap = call.sink.meta]
AtRewrite == /\ Read
             /\ \E b \in 0..mem.base.index : Run(b, kern.ents)
             /\ mem.log = Reconciled(mem.base, kern.ents)
             /\ call # NoCall => /\ Calling("install") /\ mem = Installed /\ Newer
                                 /\ kern.ents = entry0.log
AtRewriteDir == /\ kern = Holding(mem) /\ Run(mem.base.index, mem.log)
                /\ call # NoCall => Calling("install") /\ mem = Installed /\ Newer
AtDown == call = NoCall
AtCut == call = NoCall /\ Read
AtReconcile == call = NoCall /\ Read

KernInv ==
    /\ pc = "idle"       => AtIdle
    /\ pc = "hardRename" => AtHardRename
    /\ pc = "hardDir"    => AtHardDir
    /\ pc = "write"      => AtWrite
    /\ pc = "writeSync"  => AtWriteSync
    /\ pc = "setLen"     => AtSetLen
    /\ pc = "setLenSync" => AtSetLenSync
    /\ pc = "snapRename" => AtSnapRename
    /\ pc = "snapDir"    => AtSnapDir
    /\ pc = "rewrite"    => AtRewrite
    /\ pc = "rewriteDir" => AtRewriteDir
    /\ pc = "down"       => AtDown
    /\ pc = "cut"        => AtCut
    /\ pc = "reconcile"  => AtReconcile

(* Every content a crash can leave of the entries is a run.                *)
RunsInv == \A f \in before.ents \cup flushed \cup {kern.ents} : Runs(f)

(* The part files are those of the snapshots being written.                *)
SinkInv ==
    /\ \A j, k \in sinks : j.part = k.part => j = k
    /\ \A k \in sinks : k.part <= nextPart
    /\ pc \notin Opening => parts = {k.part : k \in sinks}
    /\ pc \in {"cut", "reconcile"} => sinks = {} /\ parts = {}

FilesInv == TypeOK /\ KernInv /\ RunsInv /\ SinkInv

(* What a power cut can bring back while no killed process left anything   *)
(* unsynced, and that every open finds a run that reaches down to the      *)
(* snapshot.                                                               *)
Reaches(index, f) == \E b \in 0..index : Run(b, Whole(f))
Only(names, contents) == before = names /\ flushed \subseteq contents

DurableInv ==
    /\ pc # "corrupt"
    /\ pc \in {"down", "cut", "reconcile"} => Reaches(kern.snap.index, kern.ents)
    /\ kills = 0 =>
        /\ pc \in {"idle", "hardRename", "write", "setLen", "snapRename", "rewrite",
                   "down", "reconcile"} => Only(NothingBefore, {kern.ents})
        /\ pc = "hardDir" =>
              Only([NothingBefore EXCEPT !.hard = {mem.hard}], {kern.ents})
        /\ pc = "writeSync" =>
              Only(NothingBefore, {mem.log \o p : p \in Partials(call.entries)})
        /\ pc = "setLenSync" => Only(NothingBefore, {entry0.log, kern.ents})
        /\ pc = "snapDir" =>
              Only([NothingBefore EXCEPT !.snap = {mem.base}], {kern.ents})
        /\ pc = "rewriteDir" =>
              /\ before.hard = {} /\ before.snap = {} /\ flushed \subseteq {kern.ents}
              /\ \A f \in before.ents :
                    /\ Reaches(mem.base.index, f)
                    /\ Reconciled(mem.base, Whole(f)) = mem.log
        /\ pc = "cut" => /\ before = NothingBefore
                         /\ \A f \in flushed : Whole(f) = kern.ents

(* Files k are what a crash may leave: an open reads them, and finds of    *)
(* the call that was running what AtomicStorage allows.                    *)
Left(k) ==
    /\ Reaches(k.snap.index, k.ents)
    /\ call = NoCall => Recovered(k) = Stored
    /\ call # NoCall => Recovered(k) \in Atomic!Outcomes(Running, Stored)

CrashInv ==
    /\ Left(kern)
    /\ kills = 0 =>
          \A h \in before.hard \cup {kern.hard}, s \in before.snap \cup {kern.snap},
             f \in before.ents \cup flushed :
              Left([hard |-> h, snap |-> s, ents |-> f])

-----------------------------------------------------------------------------
(* Sequences of entries.                                                   *)

LEMMA MetaFacts ==
    /\ \A m \in Meta : m.index \in 0..MaxIndex
    /\ \A e \in Entry : e.index \in 1..MaxIndex /\ e.term \in Terms /\ e \in Meta
    /\ \A e, f \in Entry : e.index = f.index /\ e.term = f.term => e = f
  BY BoundsAssumption DEF Meta, Entry, NoSnapshot

LEMMA ElementsAre ==
    ASSUME NEW S, NEW s \in Seq(S)
    PROVE  Len(s) \in Nat /\ \A i \in 1..Len(s) : s[i] \in S
  OBVIOUS

LEMMA PrefixIs ==
    ASSUME NEW S, NEW s \in Seq(S), NEW n \in 0..Len(s)
    PROVE  /\ SubSeq(s, 1, n) \in Seq(S)
           /\ Len(SubSeq(s, 1, n)) = n
           /\ \A i \in 1..n : SubSeq(s, 1, n)[i] = s[i]
  OBVIOUS

LEMMA SuffixIs ==
    ASSUME NEW S, NEW s \in Seq(S), NEW n \in 1..Len(s)
    PROVE  /\ SubSeq(s, n + 1, Len(s)) \in Seq(S)
           /\ Len(SubSeq(s, n + 1, Len(s))) = Len(s) - n
           /\ \A i \in 1..(Len(s) - n) : SubSeq(s, n + 1, Len(s))[i] = s[n + i]
  OBVIOUS

LEMMA WholePrefix ==
    ASSUME NEW S, NEW s \in Seq(S)
    PROVE  SubSeq(s, 1, Len(s)) = s
  OBVIOUS

LEMMA ConcatIs ==
    ASSUME NEW S, NEW s \in Seq(S), NEW t \in Seq(S)
    PROVE  /\ s \o t \in Seq(S)
           /\ Len(s \o t) = Len(s) + Len(t)
           /\ \A i \in 1..Len(s) : (s \o t)[i] = s[i]
           /\ \A i \in 1..Len(t) : (s \o t)[Len(s) + i] = t[i]
  OBVIOUS

LEMMA SameSeq ==
    ASSUME NEW S, NEW s \in Seq(S), NEW t \in Seq(S), Len(s) = Len(t),
           \A i \in 1..Len(s) : s[i] = t[i]
    PROVE  s = t
  OBVIOUS

LEMMA RangeIs ==
    ASSUME NEW S, NEW s \in Seq(S)
    PROVE  /\ Range(s) = {s[i] : i \in 1..Len(s)}
           /\ Range(s) \subseteq S
  BY DEF Range

(* A run never goes past MaxIndex, and its beginnings are runs.            *)
LEMMA RunFits ==
    ASSUME NEW b \in Nat, NEW s \in Seq(Entry), Run(b, s), b <= MaxIndex
    PROVE  b + Len(s) <= MaxIndex
  <1>1. Len(s) \in Nat /\ MaxIndex \in Nat
    BY BoundsAssumption
  <1>2. CASE Len(s) = 0
    BY <1>1, <1>2
  <1>3. CASE Len(s) # 0
    <2>1. Len(s) \in 1..Len(s)
      BY <1>1, <1>3
    <2>2. s[Len(s)] \in Entry /\ s[Len(s)].index = b + Len(s)
      BY <2>1, ElementsAre DEF Run
    <2>3. QED
      BY <2>2, <1>1, MetaFacts
  <1>4. QED
    BY <1>2, <1>3

LEMMA RunPrefix ==
    ASSUME NEW b \in Nat, NEW s \in Seq(Entry), Run(b, s), NEW n \in 0..Len(s)
    PROVE  Run(b, SubSeq(s, 1, n))
  <1>1. Len(s) \in Nat /\ \A i \in 1..n : i \in 1..Len(s)
    OBVIOUS
  <1>2. QED
    BY <1>1, PrefixIs DEF Run

LEMMA RunSuffix ==
    ASSUME NEW b \in Nat, NEW s \in Seq(Entry), Run(b, s), NEW n \in 1..Len(s)
    PROVE  Run(b + n, SubSeq(s, n + 1, Len(s)))
  <1>1. Len(s) \in Nat /\ \A i \in 1..(Len(s) - n) : n + i \in 1..Len(s) /\ b + (n + i) = (b + n) + i
    OBVIOUS
  <1>2. QED
    BY <1>1, SuffixIs DEF Run

LEMMA EmptyRun ==
    ASSUME NEW b PROVE Run(b, <<>>)
  BY DEF Run

-----------------------------------------------------------------------------
(* What recover reads of a file: Whole.                                    *)

FirstTorn(f, n) == /\ \A i \in 1..n : f[i] # Torn
                   /\ n < Len(f) => f[n + 1] = Torn

LEMMA WholeIs ==
    ASSUME NEW f \in File, NEW n \in 0..Len(f), FirstTorn(f, n)
    PROVE  Whole(f) = SubSeq(f, 1, n)
  <1> DEFINE m == CHOOSE k \in 0..Len(f) : FirstTorn(f, k)
  <1>1. m \in 0..Len(f) /\ FirstTorn(f, m)
    BY Zenon
  <1>2. Len(f) \in Nat
    BY DEF File
  <1>3. m = n
    <2> HIDE DEF m
    <2>1. ~(m < n)
      <3> SUFFICES ASSUME m < n PROVE FALSE
        OBVIOUS
      <3>1. m + 1 \in 1..n /\ m < Len(f)
        BY <1>1, <1>2
      <3>2. QED
        BY <3>1, <1>1 DEF FirstTorn
    <2>2. ~(n < m)
      <3> SUFFICES ASSUME n < m PROVE FALSE
        OBVIOUS
      <3>1. n + 1 \in 1..m /\ n < Len(f)
        BY <1>1, <1>2
      <3>2. QED
        BY <3>1, <1>1 DEF FirstTorn
    <2>3. QED
      BY <2>1, <2>2, <1>1, <1>2
  <1>4. Whole(f) = SubSeq(f, 1, m)
    BY DEF Whole, FirstTorn
  <1>5. QED
    BY <1>3, <1>4

LEMMA FirstTornExists ==
    ASSUME NEW f \in File
    PROVE  \E n \in 0..Len(f) : FirstTorn(f, n)
  <1> DEFINE T == {n \in 0..Len(f) : n < Len(f) => f[n + 1] = Torn}
  <1>1. Len(f) \in Nat
    BY DEF File
  <1>2. T \in SUBSET Nat /\ Len(f) \in T
    BY <1>1
  <1>3. PICK n \in T : \A k \in T : n <= k
    BY <1>2, LeastMember
  <1>4. ASSUME NEW i \in 1..n PROVE f[i] # Torn
    <2>1. n \in 0..Len(f) /\ i - 1 \in 0..Len(f) /\ i - 1 < n /\ (i - 1) + 1 = i /\ i - 1 < Len(f)
      BY <1>1
    <2>2. i - 1 \notin T
      BY <2>1, <1>3
    <2>3. QED
      BY <2>1, <2>2
  <1>5. QED
    BY <1>4 DEF FirstTorn

LEMMA WholeFacts ==
    ASSUME NEW f \in File
    PROVE  /\ Whole(f) \in Seq(Entry)
           /\ \E n \in 0..Len(f) : FirstTorn(f, n) /\ Whole(f) = SubSeq(f, 1, n)
  <1>1. PICK n \in 0..Len(f) : FirstTorn(f, n)
    BY FirstTornExists
  <1>2. Whole(f) = SubSeq(f, 1, n)
    BY <1>1, WholeIs
  <1>3. f \in Seq(Entry \cup {Torn}) /\ Len(f) \in Nat
    BY DEF File
  <1>4. /\ Len(SubSeq(f, 1, n)) = n
        /\ SubSeq(f, 1, n) \in Seq(Entry \cup {Torn})
        /\ \A i \in 1..n : SubSeq(f, 1, n)[i] = f[i]
    BY <1>3, PrefixIs
  <1>5. ASSUME NEW i \in 1..n PROVE SubSeq(f, 1, n)[i] \in Entry
    <2>1. i \in 1..Len(f)
      BY <1>3
    <2>2. f[i] \in Entry \cup {Torn} /\ f[i] # Torn
      BY <1>1, <1>3, <2>1 DEF FirstTorn
    <2>3. QED
      BY <2>2, <1>4
  <1>6. SubSeq(f, 1, n) \in Seq(Entry)
    BY <1>3, <1>4, <1>5
  <1>7. QED
    BY <1>1, <1>2, <1>6

LEMMA EntriesAreAFile ==
    ASSUME NEW s \in Seq(Entry)
    PROVE  s \in File /\ Whole(s) = s
  <1>1. s \in File /\ Len(s) \in Nat
    BY DEF File
  <1>2. FirstTorn(s, Len(s))
    BY <1>1, TornAssumption DEF FirstTorn
  <1>3. Whole(s) = SubSeq(s, 1, Len(s))
    BY <1>1, <1>2, WholeIs
  <1>4. QED
    BY <1>1, <1>3, WholePrefix

(* What is left of a write that stopped part way: some first entries.      *)
LEMMA PartialIs ==
    ASSUME NEW s \in Seq(Entry), NEW es \in Seq(Entry), NEW p \in Partials(es)
    PROVE  /\ s \o p \in File
           /\ \E n \in 0..Len(es) : Whole(s \o p) = s \o SubSeq(es, 1, n)
  <1>0. Len(s) \in Nat /\ Len(es) \in Nat
    OBVIOUS
  <1>1. CASE p \in {SubSeq(es, 1, n) : n \in 0..Len(es)}
    <2>1. PICK n \in 0..Len(es) : p = SubSeq(es, 1, n)
      BY <1>1
    <2>2. p \in Seq(Entry)
      BY <2>1, PrefixIs
    <2>3. s \o p \in Seq(Entry)
      BY <2>2, ConcatIs
    <2>4. QED
      BY <2>1, <2>3, EntriesAreAFile
  <1>2. CASE p \in {Append(SubSeq(es, 1, n), Torn) : n \in 0..(Len(es) - 1)}
    <2>1. PICK n \in 0..(Len(es) - 1) : p = Append(SubSeq(es, 1, n), Torn)
      BY <1>2
    <2> DEFINE q == SubSeq(es, 1, n)
               t == s \o q
    <2>2. n \in 0..Len(es)
      BY <1>0
    <2>3. q \in Seq(Entry) /\ t \in Seq(Entry)
      BY <2>2, PrefixIs, ConcatIs
    <2>4. s \o p = Append(t, Torn)
      <3> HIDE DEF q
      <3>1. p = Append(q, Torn)
        BY <2>1 DEF q
      <3>2. QED
        BY <3>1, <2>3
    <2>5. /\ Append(t, Torn) \in File /\ Len(Append(t, Torn)) = Len(t) + 1 /\ Len(t) \in Nat
          /\ \A i \in 1..Len(t) : Append(t, Torn)[i] = t[i] /\ t[i] \in Entry
          /\ Append(t, Torn)[Len(t) + 1] = Torn
      <3> HIDE DEF t
      <3>1. t \in Seq(Entry \cup {Torn})
        BY <2>3
      <3>2. QED
        BY <3>1, <2>3 DEF File
    <2>6. FirstTorn(Append(t, Torn), Len(t))
      <3> HIDE DEF t
      <3>1. QED
        BY <2>5, TornAssumption DEF FirstTorn
    <2>7. Whole(Append(t, Torn)) = SubSeq(Append(t, Torn), 1, Len(t))
      <3>1. Len(t) \in 0..Len(Append(t, Torn))
        <4> HIDE DEF t
        <4>1. QED
          BY <2>5
      <3>2. QED
        BY <3>1, <2>5, <2>6, WholeIs
    <2>8. SubSeq(Append(t, Torn), 1, Len(t)) = t
      <3> HIDE DEF t
      <3>1. QED
        BY <2>3
    <2>9. QED
      BY <2>2, <2>4, <2>5, <2>7, <2>8
  <1>3. QED
    BY <1>1, <1>2 DEF Partials

-----------------------------------------------------------------------------
(* What compact and an open keep of a log above a snapshot.                *)

Above(b, s, meta) ==
    IF meta.index - b \in 1..Len(s) /\ s[meta.index - b].term = meta.term
    THEN SubSeq(s, meta.index - b + 1, Len(s))
    ELSE <<>>

LEMMA AboveIs ==
    ASSUME NEW b \in Nat, NEW s \in Seq(Entry), Run(b, s),
           NEW meta \in Meta, b < meta.index
    PROVE  /\ Above(b, s, meta) \in Seq(Entry)
           /\ Run(meta.index, Above(b, s, meta))
           /\ Range(Above(b, s, meta)) =
                 IF meta \in Range(s) THEN {e \in Range(s) : e.index > meta.index} ELSE {}
  <1> DEFINE n == meta.index - b
  <1>1. meta.index \in Nat /\ Len(s) \in Nat /\ n \in Nat \ {0} /\ b + n = meta.index
    BY MetaFacts
  <1>2. meta \in Entry
    <2>1. meta # NoSnapshot
      BY <1>1 DEF NoSnapshot
    <2>2. QED
      BY <2>1 DEF Meta
  <1>3. Range(s) = {s[i] : i \in 1..Len(s)}
    BY RangeIs
  <1>4. \A i \in 1..Len(s) : s[i] \in Entry /\ s[i].index = b + i
    BY ElementsAre DEF Run
  <1>5. meta \in Range(s) <=> (n \in 1..Len(s) /\ s[n].term = meta.term)
    <2>1. ASSUME n \in 1..Len(s), s[n].term = meta.term PROVE meta \in Range(s)
      <3>1. s[n] \in Entry /\ s[n].index = meta.index
        BY <1>1, <1>4, <2>1
      <3>2. s[n] = meta
        BY <3>1, <2>1, <1>2, MetaFacts
      <3>3. QED
        BY <3>2, <1>3, <2>1
    <2>2. ASSUME meta \in Range(s) PROVE n \in 1..Len(s) /\ s[n].term = meta.term
      <3>1. PICK i \in 1..Len(s) : meta = s[i]
        BY <1>3, <2>2
      <3>2. i = n
        BY <3>1, <1>1, <1>4
      <3>3. QED
        BY <3>1, <3>2
    <2>3. QED
      BY <2>1, <2>2
  <1>6. CASE meta \in Range(s)
    <2> DEFINE t == SubSeq(s, n + 1, Len(s))
    <2>1. n \in 1..Len(s) /\ Above(b, s, meta) = t
      BY <1>5, <1>6 DEF Above
    <2>2. /\ t \in Seq(Entry) /\ Len(t) = Len(s) - n
          /\ \A i \in 1..(Len(s) - n) : t[i] = s[n + i]
      BY <2>1, SuffixIs
    <2>3. Run(b + n, t)
      BY <2>1, RunSuffix
    <2>4. Range(t) = {t[i] : i \in 1..(Len(s) - n)}
      <3> HIDE DEF t, n
      <3>1. Range(t) = {t[i] : i \in 1..Len(t)}
        BY <2>2, RangeIs
      <3>2. QED
        BY <3>1, <2>2
    <2>5. Range(t) = {e \in Range(s) : e.index > meta.index}
      <3> HIDE DEF t
      <3>1. ASSUME NEW e \in Range(t) PROVE e \in Range(s) /\ e.index > meta.index
        <4>1. PICK i \in 1..(Len(s) - n) : e = s[n + i]
          BY <2>2, <2>4
        <4>2. n + i \in 1..Len(s) /\ b + (n + i) > meta.index
          BY <1>1, SMTT(30)
        <4>3. QED
          BY <4>1, <4>2, <1>3, <1>4
      <3>2. ASSUME NEW e \in Range(s), e.index > meta.index PROVE e \in Range(t)
        <4>1. PICK i \in 1..Len(s) : e = s[i] /\ s[i].index = b + i
          BY <1>3, <1>4
        <4>2. i - n \in 1..(Len(s) - n) /\ n + (i - n) = i
          BY <4>1, <3>2, <1>1
        <4>3. t[i - n] = e
          BY <4>1, <4>2, <2>2
        <4>4. QED
          BY <4>2, <4>3, <2>4
      <3>3. QED
        BY <3>1, <3>2
    <2>6. QED
      BY <1>1, <1>6, <2>1, <2>2, <2>3, <2>5
  <1>7. CASE meta \notin Range(s)
    <2>1. Above(b, s, meta) = <<>>
      BY <1>5, <1>7 DEF Above
    <2>2. <<>> \in Seq(Entry) /\ Range(<<>>) = {}
      BY DEF Range
    <2>3. QED
      BY <2>1, <2>2, <1>7, EmptyRun
  <1>8. QED
    BY <1>6, <1>7

LEMMA CompactIs ==
    ASSUME NEW m \in Memory, NEW meta
    PROVE  /\ Compact(m, meta).log = Above(m.base.index, m.log, meta)
           /\ Compact(m, meta).base = meta
           /\ Compact(m, meta).hard = m.hard
           /\ Compact(m, meta).end = m.end
           /\ meta \in Meta /\ Compact(m, meta).log \in Seq(Entry) => Compact(m, meta) \in Memory
  BY DEF Compact, Above, Holds, Memory

LEMMA ReconciledIs ==
    ASSUME NEW base \in Meta, NEW b \in 0..base.index, NEW s \in Seq(Entry), Run(b, s)
    PROVE  /\ ~Hole(base, s)
           /\ b = base.index => ~Covered(base, s) /\ Reconciled(base, s) = s
           /\ b < base.index => Reconciled(base, s) = Above(b, s, base)
           /\ Reconciled(base, s) \in Seq(Entry)
           /\ Run(base.index, Reconciled(base, s))
           /\ ~Covered(base, s) => Reconciled(base, s) = s
  <1>1. base.index \in Nat /\ b \in Nat /\ b <= base.index
    BY MetaFacts
  <1>2. s # <<>> => s[1].index = b + 1
    BY DEF Run
  <1>3. CASE s = <<>>
    <2>1. Reconciled(base, s) = s /\ ~Hole(base, s) /\ ~Covered(base, s)
      BY <1>3 DEF Reconciled, Hole, Covered
    <2>2. Above(b, s, base) = <<>>
      BY <1>3 DEF Above
    <2>3. QED
      BY <2>1, <2>2, <1>3, EmptyRun
  <1>4. CASE s # <<>> /\ b = base.index
    <2>1. ~Hole(base, s) /\ ~Covered(base, s)
      BY <1>1, <1>2, <1>4 DEF Hole, Covered
    <2>2. Reconciled(base, s) = s
      BY <2>1 DEF Reconciled
    <2>3. QED
      BY <1>1, <1>4, <2>1, <2>2
  <1>5. CASE s # <<>> /\ b < base.index
    <2>1. ~Hole(base, s) /\ Covered(base, s)
      BY <1>1, <1>2, <1>5 DEF Hole, Covered
    <2>2. s[1].index - 1 = b
      BY <1>1, <1>2, <1>5
    <2>3. Reconciled(base, s) = Compact([base |-> [index |-> b, term |-> 0], log |-> s], base).log
      BY <2>1, <2>2 DEF Reconciled
    <2>4. Compact([base |-> [index |-> b, term |-> 0], log |-> s], base).log = Above(b, s, base)
      BY DEF Compact, Holds, Above
    <2>5. QED
      BY <1>1, <1>5, <2>1, <2>3, <2>4, AboveIs
  <1>6. QED
    BY <1>1, <1>3, <1>4, <1>5

(* The log a truncation keeps.                                             *)
LEMMA KeepIs ==
    ASSUME NEW m \in Memory, Run(m.base.index, m.log), NEW index \in 1..MaxIndex
    PROVE  /\ Keep(m, index) \in 0..Len(m.log)
           /\ Range(SubSeq(m.log, 1, Keep(m, index))) = {e \in Range(m.log) : e.index < index}
  <1> DEFINE b == m.base.index
             s == m.log
             n == Keep(m, index)
             t == SubSeq(s, 1, n)
  <1>1. b \in Nat /\ s \in Seq(Entry) /\ Len(s) \in Nat /\ index \in Nat
    BY MetaFacts DEF Memory
  <1>2. n \in 0..Len(s) /\ \A i \in 1..Len(s) : i <= n <=> b + i < index
    <2> HIDE DEF b, s
    <2>1. n = IF index <= b THEN 0 ELSE IF index - b - 1 < Len(s) THEN index - b - 1 ELSE Len(s)
      BY DEF Keep, b, s
    <2> HIDE DEF n
    <2>2. QED
      BY <2>1, <1>1
  <1>3. /\ t \in Seq(Entry) /\ Len(t) = n
        /\ \A i \in 1..n : t[i] = s[i]
    BY <1>1, <1>2, PrefixIs
  <1>4. Range(s) = {s[i] : i \in 1..Len(s)} /\ Range(t) = {t[i] : i \in 1..n}
    <2> HIDE DEF t, n, s
    <2>1. Range(t) = {t[i] : i \in 1..Len(t)}
      BY <1>3, RangeIs
    <2>2. Range(s) = {s[i] : i \in 1..Len(s)}
      BY <1>1, RangeIs
    <2>3. QED
      BY <2>1, <2>2, <1>3
  <1>5. \A i \in 1..Len(s) : s[i].index = b + i
    BY DEF Run
  <1>6. ASSUME NEW e \in Range(t) PROVE e \in Range(s) /\ e.index < index
    <2> HIDE DEF t, n, s, b
    <2>1. PICK i \in 1..n : e = s[i]
      BY <1>3, <1>4
    <2>2. i \in 1..Len(s) /\ i <= n
      BY <1>1, <1>2
    <2>3. QED
      BY <2>1, <2>2, <1>2, <1>4, <1>5
  <1>7. ASSUME NEW e \in Range(s), e.index < index PROVE e \in Range(t)
    <2> HIDE DEF t, n, s, b
    <2>1. PICK i \in 1..Len(s) : e = s[i]
      BY <1>4
    <2>2. i <= n /\ i \in 1..n
      BY <2>1, <1>1, <1>2, <1>5, <1>7
    <2>3. QED
      BY <2>1, <2>2, <1>3, <1>4
  <1>8. QED
    BY <1>2, <1>6, <1>7

-----------------------------------------------------------------------------
(* FilesInv is inductive, whatever fails.                                  *)

LEMMA CallIs ==
    /\ \A c \in Calls :
          /\ c # NoCall
          /\ c.kind = "save" => c.hard \in HardStates
          /\ c.kind = "append" => c.entries \in Seq(Entry)
          /\ c.kind = "truncate" => c.index \in 1..MaxIndex
          /\ c.kind = "install" => c.sink \in Sink
    /\ \A h \in HardStates : [kind |-> "save", hard |-> h] \in Calls
    /\ \A es \in Seq(Entry) : [kind |-> "append", entries |-> es] \in Calls
    /\ \A i \in 1..MaxIndex : [kind |-> "truncate", index |-> i] \in Calls
    /\ \A k \in Sink : [kind |-> "install", sink |-> k] \in Calls
  <1>1. \A c \in Calls : c # NoCall
    BY NoCallAssumption
  <1>2. \A c \in Calls :
          /\ c.kind = "save" => c.hard \in HardStates
          /\ c.kind = "append" => c.entries \in Seq(Entry)
          /\ c.kind = "truncate" => c.index \in 1..MaxIndex
          /\ c.kind = "install" => c.sink \in Sink
    BY DEF Calls
  <1>3. QED
    BY <1>1, <1>2 DEF Calls

(* A call in progress, when memory has the types it should.                *)
LEMMA CallingIs ==
    ASSUME TypeOK, NEW kind, Calling(kind)
    PROVE  /\ call \in Calls /\ call.kind = kind /\ Good(entry0) /\ entry0 \in Memory
           /\ Run(entry0.base.index, entry0.log) /\ entry0.end = Len(entry0.log)
  BY DEF TypeOK, Calling, Good

LEMMA MemoryIs ==
    /\ \A m \in Memory :
          /\ m.hard \in HardStates /\ m.base \in Meta /\ m.log \in Seq(Entry)
          /\ m.end \in 0..MaxIndex /\ m.base.index \in 0..MaxIndex /\ Len(m.log) \in Nat
    /\ \A m \in Memory : m = [hard |-> m.hard, base |-> m.base, log |-> m.log, end |-> m.end]
    /\ NoMem \in Memory
  <1>1. \A m \in Memory :
          /\ m.hard \in HardStates /\ m.base \in Meta /\ m.log \in Seq(Entry)
          /\ m.end \in 0..MaxIndex
    BY DEF Memory
  <1>2. \A m \in Memory : m.base.index \in 0..MaxIndex /\ Len(m.log) \in Nat
    BY <1>1, MetaFacts
  <1>3. NoMem \in Memory
    BY DefaultHardAssumption, BoundsAssumption DEF NoMem, Memory, Meta
  <1>4. \A m \in Memory : m = [hard |-> m.hard, base |-> m.base, log |-> m.log, end |-> m.end]
    BY DEF Memory
  <1>5. QED
    BY <1>1, <1>2, <1>3, <1>4

LEMMA KernIs ==
    ASSUME TypeOK
    PROVE  /\ kern = [hard |-> kern.hard, snap |-> kern.snap, ents |-> kern.ents]
           /\ kern.hard \in HardStates /\ kern.snap \in Meta /\ kern.ents \in File
           /\ before = [hard |-> before.hard, snap |-> before.snap, ents |-> before.ents]
           /\ before.hard \in SUBSET HardStates /\ before.snap \in SUBSET Meta
           /\ before.ents \in SUBSET File /\ flushed \in SUBSET File
  BY DEF TypeOK

LEMMA NothingIsTyped ==
    /\ NothingBefore \in [hard : SUBSET HardStates, snap : SUBSET Meta, ents : SUBSET File]
    /\ NothingBefore.ents = {} /\ NothingBefore.hard = {} /\ NothingBefore.snap = {}
  BY DEF NothingBefore

LEMMA RunIsRuns ==
    ASSUME NEW s \in Seq(Entry), NEW b \in 0..MaxIndex, Run(b, s)
    PROVE  s \in File /\ Runs(s)
  BY EntriesAreAFile DEF Runs

LEMMA SaveHardStateKeepsFiles ==
    ASSUME FilesInv, NEW h \in HardStates, SaveHardState(h) PROVE FilesInv'
  <1> USE DEF FilesInv, SaveHardState, BeginCall
  <1>1. AtIdle
    BY DEF KernInv
  <1>2. /\ kern' = kern /\ before' = before /\ flushed' = flushed /\ mem' = mem /\ entry0' = mem
        /\ sinks' = sinks /\ parts' = parts /\ nextPart' = nextPart /\ kills' = kills
        /\ call' = [kind |-> "save", hard |-> h] /\ pc' = "hardRename" /\ pc = "idle"
    BY DEF files, sinkVars
  <1>3. call' \in Calls
    BY <1>2, CallIs
  <1>4. TypeOK'
    BY <1>2, <1>3 DEF TypeOK
  <1>5. AtHardRename'
    BY <1>1, <1>2, <1>3, CallIs DEF AtIdle, AtHardRename, Calling, Good, Holding
  <1>6. KernInv'
    BY <1>2, <1>5 DEF KernInv
  <1>7. RunsInv' /\ SinkInv'
    BY <1>2 DEF RunsInv, SinkInv, Opening
  <1>8. QED
    BY <1>4, <1>6, <1>7

LEMMA RenameHardKeepsFiles ==
    ASSUME FilesInv, RenameHard PROVE FilesInv'
  <1> USE DEF FilesInv, RenameHard
  <1>1. AtHardRename
    BY DEF KernInv
  <1>2. call.hard \in HardStates
    BY <1>1, CallingIs, CallIs DEF AtHardRename
  <1>3. /\ sinks' = sinks /\ parts' = parts /\ nextPart' = nextPart
        /\ pc' = "hardDir" /\ pc = "hardRename"
    BY DEF sinkVars
  <1>4. TypeOK'
    BY <1>2, <1>3 DEF TypeOK
  <1>5. AtHardDir'
    BY <1>1 DEF AtHardRename, AtHardDir, Calling, Good, Holding
  <1>6. KernInv'
    BY <1>3, <1>5 DEF KernInv
  <1>7. before'.ents = before.ents /\ kern'.ents = kern.ents /\ flushed' = flushed
    BY KernIs
  <1>8. RunsInv'
    BY <1>7 DEF RunsInv
  <1>9. SinkInv'
    BY <1>3 DEF SinkInv, Opening
  <1>10. QED
    BY <1>4, <1>6, <1>8, <1>9

LEMMA SyncHardKeepsFiles ==
    ASSUME FilesInv, SyncHard PROVE FilesInv'
  <1> USE DEF FilesInv, SyncHard, SyncDir, EndCall
  <1>1. AtHardDir
    BY DEF KernInv
  <1>2. call.hard \in HardStates /\ mem \in Memory
    BY <1>1, CallingIs, CallIs DEF AtHardDir
  <1>3. /\ sinks' = sinks /\ parts' = parts /\ nextPart' = nextPart
        /\ pc' = "idle" /\ pc = "hardDir" /\ kern' = kern
    BY DEF sinkVars
  <1>4. TypeOK'
    <2>1. mem' \in Memory
      BY <1>2 DEF Memory
    <2>2. QED
      BY <1>3, <2>1, MemoryIs, NothingIsTyped DEF TypeOK
  <1>5. AtIdle'
    <2>1. Good(mem)
      BY <1>1 DEF AtHardDir, Calling
    <2>2. mem'.base = mem.base /\ mem'.log = mem.log /\ mem'.end = mem.end /\ mem'.hard = call.hard
      BY <1>2 DEF Memory
    <2>3. kern' = Holding(mem')
      BY <1>1, <1>3, <2>2 DEF AtHardDir, Holding
    <2>4. Good(mem')
      BY <2>1, <2>2 DEF Good
    <2>5. QED
      BY <2>3, <2>4 DEF AtIdle
  <1>6. KernInv'
    BY <1>3, <1>5 DEF KernInv
  <1>7. before'.ents = {} /\ kern'.ents = kern.ents /\ flushed' = flushed
    BY <1>3, NothingIsTyped
  <1>8. RunsInv'
    BY <1>7 DEF RunsInv
  <1>9. SinkInv'
    BY <1>3 DEF SinkInv, Opening
  <1>10. QED
    BY <1>4, <1>6, <1>8, <1>9

LEMMA LastIs ==
    ASSUME NEW m \in Memory, Good(m)
    PROVE  LastIndex(m) = m.base.index + Len(m.log)
  <1>1. m.base.index \in Nat /\ Len(m.log) \in Nat /\ m.log \in Seq(Entry)
    BY MemoryIs
  <1>2. CASE m.log = <<>>
    BY <1>1, <1>2 DEF LastIndex
  <1>3. CASE m.log # <<>>
    <2>1. Len(m.log) \in 1..Len(m.log)
      BY <1>1, <1>3
    <2>2. QED
      BY <2>1, <1>3 DEF LastIndex, Good, Run
  <1>4. QED
    BY <1>2, <1>3

LEMMA RunConcat ==
    ASSUME NEW b \in Nat, NEW s \in Seq(Entry), NEW t \in Seq(Entry)
    PROVE  Run(b, s \o t) <=> Run(b, s) /\ Run(b + Len(s), t)
  <1>1. /\ Len(s) \in Nat /\ Len(t) \in Nat /\ Len(s \o t) = Len(s) + Len(t)
        /\ \A i \in 1..Len(s) : (s \o t)[i] = s[i]
        /\ \A i \in 1..Len(t) : (s \o t)[Len(s) + i] = t[i]
    BY ConcatIs
  <1>2. ASSUME Run(b, s \o t) PROVE Run(b, s) /\ Run(b + Len(s), t)
    <2>1. /\ \A i \in 1..Len(s) : i \in 1..Len(s \o t)
          /\ \A i \in 1..Len(t) : Len(s) + i \in 1..Len(s \o t) /\ b + (Len(s) + i) = (b + Len(s)) + i
      BY <1>1
    <2>2. QED
      BY <1>1, <1>2, <2>1 DEF Run
  <1>3. ASSUME Run(b, s), Run(b + Len(s), t) PROVE Run(b, s \o t)
    <2>1. ASSUME NEW i \in 1..Len(s \o t) PROVE (s \o t)[i].index = b + i
      <3>1. CASE i <= Len(s)
        BY <3>1, <1>1, <1>3 DEF Run
      <3>2. CASE i > Len(s)
        <4>1. i - Len(s) \in 1..Len(t) /\ Len(s) + (i - Len(s)) = i /\ (b + Len(s)) + (i - Len(s)) = b + i
          BY <3>2, <1>1
        <4>2. (s \o t)[i] = t[i - Len(s)]
          BY <4>1, <1>1
        <4>3. t[i - Len(s)].index = (b + Len(s)) + (i - Len(s))
          BY <4>1, <1>3 DEF Run
        <4>4. QED
          BY <4>1, <4>2, <4>3
      <3>3. QED
        BY <3>1, <3>2, <1>1
    <2>2. QED
      BY <2>1 DEF Run
  <1>4. QED
    BY <1>2, <1>3

LEMMA RangeConcat ==
    ASSUME NEW S, NEW s \in Seq(S), NEW t \in Seq(S)
    PROVE  Range(s \o t) = Range(s) \cup Range(t)
  <1> DEFINE u == s \o t
  <1>1. /\ Len(s) \in Nat /\ Len(t) \in Nat /\ u \in Seq(S) /\ Len(u) = Len(s) + Len(t)
        /\ \A i \in 1..Len(s) : u[i] = s[i]
        /\ \A i \in 1..Len(t) : u[Len(s) + i] = t[i]
    BY ConcatIs
  <1> HIDE DEF u
  <1>2. /\ Range(u) = {u[i] : i \in 1..Len(u)}
        /\ Range(s) = {s[i] : i \in 1..Len(s)} /\ Range(t) = {t[i] : i \in 1..Len(t)}
    BY <1>1, RangeIs
  <1>3. ASSUME NEW e \in Range(u) PROVE e \in Range(s) \cup Range(t)
    <2>1. PICK i \in 1..Len(u) : e = u[i]
      BY <1>2
    <2>2. CASE i <= Len(s)
      BY <2>1, <2>2, <1>1, <1>2
    <2>3. CASE i > Len(s)
      <3>1. i - Len(s) \in 1..Len(t) /\ Len(s) + (i - Len(s)) = i
        BY <2>3, <1>1
      <3>2. e = t[i - Len(s)]
        BY <3>1, <2>1, <1>1
      <3>3. QED
        BY <3>1, <3>2, <1>2
    <2>4. QED
      BY <2>2, <2>3, <1>1
  <1>4. ASSUME NEW e \in Range(s) PROVE e \in Range(u)
    <2>1. PICK i \in 1..Len(s) : e = s[i]
      BY <1>2
    <2>2. i \in 1..Len(u) /\ u[i] = e
      BY <2>1, <1>1
    <2>3. QED
      BY <2>2, <1>2
  <1>5. ASSUME NEW e \in Range(t) PROVE e \in Range(u)
    <2>1. PICK i \in 1..Len(t) : e = t[i]
      BY <1>2
    <2>2. Len(s) + i \in 1..Len(u) /\ u[Len(s) + i] = e
      BY <2>1, <1>1
    <2>3. QED
      BY <2>2, <1>2
  <1>6. QED
    BY <1>3, <1>4, <1>5 DEF u

(* A write that stopped part way still leaves a run.                       *)
LEMMA PartialRuns ==
    ASSUME NEW b \in 0..MaxIndex, NEW s \in Seq(Entry), NEW es \in Seq(Entry),
           Run(b, s \o es), NEW p \in Partials(es)
    PROVE  s \o p \in File /\ Run(b, Whole(s \o p)) /\ Runs(s \o p)
  <1>0. b \in Nat
    OBVIOUS
  <1>1. PICK n \in 0..Len(es) : Whole(s \o p) = s \o SubSeq(es, 1, n)
    BY PartialIs
  <1>2. Run(b, s) /\ Run(b + Len(s), es)
    BY <1>0, RunConcat
  <1>3. b + Len(s) \in Nat
    BY <1>0
  <1>4. SubSeq(es, 1, n) \in Seq(Entry) /\ Run(b + Len(s), SubSeq(es, 1, n))
    BY <1>2, <1>3, PrefixIs, RunPrefix
  <1> DEFINE t == SubSeq(es, 1, n)
  <1> HIDE DEF t
  <1>5. Run(b, s \o t)
    <2>1. t \in Seq(Entry) /\ Run(b + Len(s), t)
      BY <1>4 DEF t
    <2>2. QED
      BY <1>0, <1>2, <2>1, RunConcat
  <1>6. Run(b, Whole(s \o p))
    BY <1>1, <1>5 DEF t
  <1>7. QED
    BY <1>6, PartialIs DEF Runs

LEMMA BatchIs ==
    ASSUME TypeOK, AtIdle, NEW es \in Batches, LastIndex(mem) + Len(es) <= MaxIndex
    PROVE  es \in Seq(Entry) /\ Run(mem.base.index, mem.log \o es)
  <1> DEFINE l == LastIndex(mem)
  <1>1. mem \in Memory /\ Good(mem)
    BY DEF TypeOK, AtIdle
  <1>2. /\ mem.base.index \in Nat /\ Len(mem.log) \in Nat /\ mem.log \in Seq(Entry)
        /\ l = mem.base.index + Len(mem.log) /\ l \in Nat
    BY <1>1, MemoryIs, LastIs
  <1> HIDE DEF l
  <1>3. PICK n \in 1..MaxBatch, ts \in [1..MaxBatch -> Terms] :
            es = [i \in 1..n |-> [index |-> l + i, term |-> ts[i]]]
    BY DEF Batches, l
  <1>4. n \in Nat /\ MaxIndex \in Nat /\ MaxBatch \in Nat
    BY BoundsAssumption
  <1>5. Len(es) = n /\ l + n <= MaxIndex
    <2>1. Len(es) = n
      BY <1>3, <1>4
    <2>2. QED
      BY <2>1 DEF l
  <1>6. ASSUME NEW i \in 1..n PROVE es[i] \in Entry /\ es[i].index = l + i
    <2>1. l + i \in 1..MaxIndex /\ i \in 1..MaxBatch
      BY <1>2, <1>4, <1>5, SMTT(30)
    <2>2. es[i] = [index |-> l + i, term |-> ts[i]] /\ ts[i] \in Terms
      BY <1>3, <2>1
    <2>3. QED
      BY <2>1, <2>2 DEF Entry
  <1>7. es \in Seq(Entry)
    <2>1. es \in [1..n -> Entry]
      BY <1>3, <1>6
    <2>2. QED
      BY <2>1, <1>4
  <1>8. Run(l, es)
    BY <1>5, <1>6 DEF Run
  <1>9. Run(mem.base.index, mem.log)
    BY <1>1 DEF Good
  <1>10. QED
    BY <1>2, <1>7, <1>8, <1>9, RunConcat

LEMMA AppendEntriesKeepsFiles ==
    ASSUME FilesInv, NEW es \in Batches, AppendEntries(es) PROVE FilesInv'
  <1> USE DEF FilesInv, AppendEntries, BeginCall
  <1>1. AtIdle
    BY DEF KernInv
  <1>2. /\ kern' = kern /\ before' = before /\ flushed' = flushed /\ mem' = mem /\ entry0' = mem
        /\ sinks' = sinks /\ parts' = parts /\ nextPart' = nextPart /\ kills' = kills
        /\ call' = [kind |-> "append", entries |-> es] /\ pc' = "write" /\ pc = "idle"
    BY DEF files, sinkVars
  <1>3. es \in Seq(Entry) /\ Run(mem.base.index, mem.log \o es)
    BY <1>1, BatchIs
  <1>4. call' \in Calls /\ call'.entries = es
    BY <1>2, <1>3, CallIs
  <1>5. TypeOK'
    BY <1>2, <1>4 DEF TypeOK
  <1>6. AtWrite'
    BY <1>1, <1>2, <1>3, <1>4, CallIs DEF AtIdle, AtWrite, Calling, Good, Holding
  <1>7. KernInv'
    BY <1>2, <1>6 DEF KernInv
  <1>8. RunsInv' /\ SinkInv'
    BY <1>2 DEF RunsInv, SinkInv, Opening
  <1>9. QED
    BY <1>5, <1>7, <1>8

LEMMA WriteIs ==
    ASSUME TypeOK, AtWrite
    PROVE  /\ mem \in Memory /\ mem.log \in Seq(Entry) /\ call.entries \in Seq(Entry)
           /\ mem.base.index \in 0..MaxIndex
           /\ kern.ents = mem.log /\ call.kind = "append"
           /\ \A p : WriteAt(mem.end, p) = mem.log \o p
           /\ \A p \in Partials(call.entries) :
                 mem.log \o p \in File /\ Run(mem.base.index, Whole(mem.log \o p)) /\ Runs(mem.log \o p)
           /\ mem.log \o call.entries \in Seq(Entry)
           /\ call.entries \in Partials(call.entries)
  <1>1. mem \in Memory /\ call.entries \in Seq(Entry) /\ call.kind = "append"
    BY CallingIs, CallIs DEF AtWrite, TypeOK
  <1>2. mem.log \in Seq(Entry) /\ mem.base.index \in 0..MaxIndex /\ mem.log \o call.entries \in Seq(Entry)
    BY <1>1, MemoryIs, ConcatIs
  <1>3. kern.ents = mem.log /\ mem.end = Len(mem.log)
    BY DEF AtWrite, Calling, Good, Holding
  <1>4. SubSeq(mem.log, 1, Len(mem.log)) = mem.log
    BY <1>2, WholePrefix
  <1>5. \A p : WriteAt(mem.end, p) = mem.log \o p
    BY <1>3, <1>4 DEF WriteAt
  <1>6. \A p \in Partials(call.entries) :
           mem.log \o p \in File /\ Run(mem.base.index, Whole(mem.log \o p)) /\ Runs(mem.log \o p)
    BY <1>1, <1>2, PartialRuns DEF AtWrite
  <1>7. call.entries \in Partials(call.entries)
    <2>1. Len(call.entries) \in 0..Len(call.entries)
      BY <1>1
    <2>2. call.entries = SubSeq(call.entries, 1, Len(call.entries))
      BY <1>1, WholePrefix
    <2>3. QED
      BY <2>1, <2>2 DEF Partials
  <1>8. QED
    BY <1>1, <1>2, <1>3, <1>5, <1>6, <1>7

LEMMA WriteEntriesKeepsFiles ==
    ASSUME FilesInv, WriteEntries PROVE FilesInv'
  <1> USE DEF FilesInv, WriteEntries
  <1>1. AtWrite
    BY DEF KernInv
  <1>2. /\ sinks' = sinks /\ parts' = parts /\ nextPart' = nextPart /\ kills' = kills
        /\ pc' = "writeSync" /\ pc = "write" /\ mem' = mem /\ entry0' = entry0 /\ call' = call
        /\ before' = before
    BY DEF sinkVars
  <1>3. /\ kern' = [kern EXCEPT !.ents = mem.log \o call.entries]
        /\ flushed' = flushed \cup {mem.log \o p : p \in Partials(call.entries)}
    BY <1>1, WriteIs
  <1>4. \A f \in flushed' \ flushed : f \in File /\ Runs(f)
    BY <1>1, <1>3, WriteIs
  <1>5. kern'.ents = mem.log \o call.entries
    BY <1>3, KernIs
  <1>6. kern'.ents \in File /\ Runs(kern'.ents)
    BY <1>1, <1>5, WriteIs
  <1>7. TypeOK'
    <2>1. kern' \in [hard : HardStates, snap : Meta, ents : File]
      BY <1>3, <1>5, <1>6, KernIs DEF TypeOK
    <2>2. flushed' \in SUBSET File
      BY <1>4 DEF TypeOK
    <2>3. QED
      BY <1>2, <2>1, <2>2 DEF TypeOK
  <1>8. AtWriteSync'
    BY <1>1, <1>2, <1>3 DEF AtWrite, AtWriteSync, Calling, Good, Holding
  <1>9. KernInv'
    BY <1>2, <1>8 DEF KernInv
  <1>10. RunsInv'
    BY <1>2, <1>4, <1>6 DEF RunsInv
  <1>11. SinkInv'
    BY <1>2 DEF SinkInv, Opening
  <1>12. QED
    BY <1>7, <1>9, <1>10, <1>11

LEMMA SyncEntriesKeepsFiles ==
    ASSUME FilesInv, SyncEntries PROVE FilesInv'
  <1> USE DEF FilesInv, SyncEntries, EndCall
  <1>1. AtWriteSync
    BY DEF KernInv
  <1>2. /\ sinks' = sinks /\ parts' = parts /\ nextPart' = nextPart /\ kills' = kills
        /\ pc' = "idle" /\ pc = "writeSync" /\ entry0' = NoMem /\ call' = NoCall
        /\ before' = before /\ kern' = kern
    BY DEF sinkVars
  <1>3. /\ mem \in Memory /\ mem.log \in Seq(Entry) /\ call.entries \in Seq(Entry)
        /\ mem.base.index \in 0..MaxIndex /\ Good(mem)
    BY <1>1, CallingIs, CallIs, MemoryIs DEF AtWriteSync
  <1>4. mem.log \o call.entries \in Seq(Entry) /\ Len(mem.log \o call.entries) = Len(mem.log) + Len(call.entries)
    BY <1>3, ConcatIs
  <1>5. mem.base.index + Len(mem.log \o call.entries) <= MaxIndex
    <2>1. mem.base.index \in Nat /\ mem.base.index <= MaxIndex
      BY <1>3, BoundsAssumption
    <2>2. QED
      BY <1>1, <1>4, <2>1, RunFits DEF AtWriteSync
  <1>6. mem.end = Len(mem.log) /\ mem.end + Len(call.entries) \in 0..MaxIndex
    <2>1. Len(mem.log) \in Nat /\ Len(call.entries) \in Nat /\ MaxIndex \in Nat
      BY <1>3, BoundsAssumption
    <2>2. mem.base.index \in Nat /\ mem.end = Len(mem.log)
      BY <1>3, BoundsAssumption DEF Good
    <2>3. mem.base.index + (Len(mem.log) + Len(call.entries)) <= MaxIndex
      BY <1>4, <1>5
    <2>4. \A a, b, c, m \in Nat : a + (b + c) <= m => b + c \in 0..m
      OBVIOUS
    <2>5. Len(mem.log) + Len(call.entries) \in 0..MaxIndex
      BY <2>1, <2>2, <2>3, <2>4, Zenon
    <2>6. QED
      BY <2>2, <2>5, Zenon
  <1>7. /\ mem' \in Memory /\ mem'.hard = mem.hard /\ mem'.base = mem.base
        /\ mem'.log = mem.log \o call.entries /\ mem'.end = Len(mem.log \o call.entries)
    BY <1>3, <1>4, <1>6 DEF Memory
  <1>8. TypeOK'
    BY <1>2, <1>7, MemoryIs, KernIs DEF TypeOK
  <1>9. AtIdle'
    BY <1>1, <1>2, <1>7 DEF AtIdle, AtWriteSync, Holding, Good
  <1>10. KernInv'
    BY <1>2, <1>9 DEF KernInv
  <1>11. RunsInv' /\ SinkInv'
    BY <1>2 DEF RunsInv, SinkInv, Opening
  <1>12. QED
    BY <1>8, <1>10, <1>11

LEMMA TruncatedIs ==
    ASSUME NEW m \in Memory, Good(m), NEW i \in 1..MaxIndex
    PROVE  LET n == Keep(m, i)
               t == [m EXCEPT !.log = SubSeq(@, 1, n)]
           IN  /\ n \in 0..Len(m.log) /\ n \in 0..MaxIndex
               /\ t \in Memory /\ t.hard = m.hard /\ t.base = m.base /\ t.end = m.end
               /\ t.log = SubSeq(m.log, 1, n) /\ Len(t.log) = n
               /\ Run(t.base.index, t.log)
  <1> DEFINE n == Keep(m, i)
             t == [m EXCEPT !.log = SubSeq(@, 1, n)]
  <1>1. /\ m.log \in Seq(Entry) /\ m.base.index \in Nat /\ Len(m.log) \in 0..MaxIndex
        /\ Run(m.base.index, m.log)
    BY MemoryIs DEF Good
  <1>2. n \in 0..Len(m.log)
    BY <1>1, KeepIs
  <1> HIDE DEF n
  <1>3. n \in 0..MaxIndex
    BY <1>1, <1>2, BoundsAssumption
  <1>4. SubSeq(m.log, 1, n) \in Seq(Entry) /\ Len(SubSeq(m.log, 1, n)) = n
    BY <1>1, <1>2, PrefixIs
  <1>5. Run(m.base.index, SubSeq(m.log, 1, n))
    BY <1>1, <1>2, RunPrefix
  <1>6. t \in Memory /\ t.hard = m.hard /\ t.base = m.base /\ t.end = m.end /\ t.log = SubSeq(m.log, 1, n)
    BY <1>4 DEF Memory
  <1>7. QED
    BY <1>2, <1>3, <1>4, <1>5, <1>6 DEF n

LEMMA TruncateFromKeepsFiles ==
    ASSUME FilesInv, NEW i \in 1..MaxIndex, TruncateFrom(i) PROVE FilesInv'
  <1> USE DEF FilesInv, TruncateFrom, BeginCall
  <1>1. AtIdle /\ mem \in Memory
    BY DEF KernInv, TypeOK
  <1>2. /\ kern' = kern /\ before' = before /\ flushed' = flushed /\ entry0' = mem
        /\ sinks' = sinks /\ parts' = parts /\ nextPart' = nextPart /\ kills' = kills
        /\ call' = [kind |-> "truncate", index |-> i] /\ pc' = "setLen" /\ pc = "idle"
        /\ mem' = [mem EXCEPT !.log = SubSeq(@, 1, Keep(mem, i))]
    BY DEF files, sinkVars
  <1>3. call' \in Calls /\ call'.index = i
    BY <1>2, CallIs
  <1>4. mem' \in Memory
    BY <1>1, <1>2, TruncatedIs DEF AtIdle
  <1>5. TypeOK'
    BY <1>2, <1>3, <1>4 DEF TypeOK
  <1>6. mem' = Truncated'
    BY <1>2, <1>3 DEF Truncated
  <1>7. AtSetLen'
    BY <1>1, <1>2, <1>3, <1>6, CallIs DEF AtIdle, AtSetLen, Calling, Good, Holding
  <1>8. KernInv'
    BY <1>2, <1>7 DEF KernInv
  <1>9. RunsInv' /\ SinkInv'
    BY <1>2 DEF RunsInv, SinkInv, Opening
  <1>10. QED
    BY <1>5, <1>8, <1>9

(* What the steps of a truncation work on.                                 *)
LEMMA TruncatingIs ==
    ASSUME TypeOK, Calling("truncate"), mem = Truncated
    PROVE  LET n == Keep(entry0, call.index)
           IN  /\ n \in 0..Len(entry0.log) /\ n \in 0..MaxIndex
               /\ mem.hard = entry0.hard /\ mem.base = entry0.base
               /\ mem.log = SubSeq(entry0.log, 1, n) /\ Len(mem.log) = n
               /\ Run(mem.base.index, mem.log)
               /\ entry0 \in Memory /\ Good(entry0) /\ call.index \in 1..MaxIndex
               /\ mem.log \in Seq(Entry) /\ mem.base.index \in 0..MaxIndex
  <1>1. call.index \in 1..MaxIndex /\ entry0 \in Memory /\ Good(entry0) /\ mem \in Memory
    BY CallingIs, CallIs DEF TypeOK
  <1>2. mem.log \in Seq(Entry) /\ mem.base.index \in 0..MaxIndex
    BY <1>1, MemoryIs
  <1>3. QED
    BY <1>1, <1>2, TruncatedIs DEF Truncated

LEMMA SetLenKeepsFiles ==
    ASSUME FilesInv, SetLen PROVE FilesInv'
  <1> USE DEF FilesInv, SetLen
  <1>1. AtSetLen
    BY DEF KernInv
  <1>2. /\ sinks' = sinks /\ parts' = parts /\ nextPart' = nextPart /\ kills' = kills
        /\ pc' = "setLenSync" /\ pc = "setLen" /\ mem' = mem /\ entry0' = entry0 /\ call' = call
        /\ before' = before
    BY DEF sinkVars
  <1>3. /\ mem.log = SubSeq(entry0.log, 1, Keep(entry0, call.index))
        /\ mem.hard = entry0.hard /\ mem.base = entry0.base
        /\ mem.log \in Seq(Entry) /\ mem.base.index \in 0..MaxIndex /\ Run(mem.base.index, mem.log)
    BY <1>1, TruncatingIs DEF AtSetLen
  <1>4. kern' = [kern EXCEPT !.ents = mem.log] /\ kern'.ents = mem.log
    BY <1>1, <1>3 DEF AtSetLen, Holding
  <1>5. mem.log \in File /\ Runs(mem.log) /\ flushed' = flushed \cup {mem.log}
    BY <1>3, <1>4, RunIsRuns
  <1>6. TypeOK'
    <2>1. kern' \in [hard : HardStates, snap : Meta, ents : File]
      BY <1>4, <1>5, KernIs DEF TypeOK
    <2>2. flushed' \in SUBSET File
      BY <1>5 DEF TypeOK
    <2>3. QED
      BY <1>2, <2>1, <2>2 DEF TypeOK
  <1>7. kern' = Holding(mem)
    BY <1>1, <1>3, <1>4 DEF AtSetLen, Holding
  <1>8. AtSetLenSync'
    BY <1>1, <1>2, <1>7 DEF AtSetLen, AtSetLenSync, Calling, Good, Truncated, Holding
  <1>9. KernInv'
    BY <1>2, <1>8 DEF KernInv
  <1>10. RunsInv'
    BY <1>2, <1>4, <1>5 DEF RunsInv
  <1>11. SinkInv'
    BY <1>2 DEF SinkInv, Opening
  <1>12. QED
    BY <1>6, <1>9, <1>10, <1>11

LEMMA SyncLengthKeepsFiles ==
    ASSUME FilesInv, SyncLength PROVE FilesInv'
  <1> USE DEF FilesInv, SyncLength, EndCall
  <1>1. AtSetLenSync /\ mem \in Memory
    BY DEF KernInv, TypeOK
  <1>2. /\ sinks' = sinks /\ parts' = parts /\ nextPart' = nextPart /\ kills' = kills
        /\ pc' = "idle" /\ pc = "setLenSync" /\ entry0' = NoMem /\ call' = NoCall
        /\ before' = before /\ kern' = kern /\ flushed' = {kern.ents}
    BY DEF sinkVars
  <1>3. /\ Keep(entry0, call.index) \in 0..MaxIndex
        /\ Len(mem.log) = Keep(entry0, call.index) /\ Run(mem.base.index, mem.log)
    BY <1>1, TruncatingIs DEF AtSetLenSync
  <1>4. /\ mem' \in Memory /\ mem'.hard = mem.hard /\ mem'.base = mem.base
        /\ mem'.log = mem.log /\ mem'.end = Len(mem.log)
    BY <1>1, <1>3 DEF Memory
  <1>5. TypeOK'
    BY <1>2, <1>4, MemoryIs, KernIs DEF TypeOK
  <1>6. AtIdle'
    BY <1>1, <1>2, <1>3, <1>4 DEF AtIdle, AtSetLenSync, Holding, Good
  <1>7. KernInv'
    BY <1>2, <1>6 DEF KernInv
  <1>8. RunsInv' /\ SinkInv'
    BY <1>2 DEF RunsInv, SinkInv, Opening
  <1>9. QED
    BY <1>5, <1>7, <1>8

LEMMA NewSnapshotKeepsFiles ==
    ASSUME FilesInv, NEW m \in Entry, NewSnapshot(m) PROVE FilesInv'
  <1> USE DEF FilesInv, NewSnapshot
  <1> DEFINE k == [part |-> nextPart + 1, meta |-> m]
  <1>1. /\ kern' = kern /\ before' = before /\ flushed' = flushed /\ mem' = mem /\ entry0' = entry0
        /\ pc' = "idle" /\ pc = "idle" /\ kills' = kills /\ call' = call
        /\ nextPart' = nextPart + 1 /\ sinks' = sinks \cup {k} /\ parts' = parts \cup {nextPart + 1}
    BY DEF files
  <1>2. nextPart \in Nat /\ nextPart + 1 \in 1..MaxParts /\ nextPart + 1 \in 0..MaxParts
    BY BoundsAssumption DEF TypeOK
  <1>3. k \in Sink /\ k.part = nextPart + 1
    BY <1>2 DEF Sink
  <1> HIDE DEF k
  <1>4. TypeOK'
    BY <1>1, <1>2, <1>3 DEF TypeOK
  <1>5. KernInv'
    BY <1>1 DEF KernInv, AtIdle
  <1>6. RunsInv'
    BY <1>1 DEF RunsInv
  <1>7. SinkInv'
    <2>1. \A j \in sinks : j.part \in Nat /\ j.part <= nextPart
      BY BoundsAssumption DEF TypeOK, Sink, SinkInv
    <2>2. \A j \in sinks : j.part # k.part /\ j.part <= nextPart + 1
      BY <2>1, <1>2, <1>3
    <2>3. \A i, j \in sinks' : i.part = j.part => i = j
      BY <1>1, <2>2 DEF SinkInv
    <2>4. \A j \in sinks' : j.part <= nextPart'
      BY <1>1, <1>2, <1>3, <2>2
    <2>5. parts' = {j.part : j \in sinks'}
      BY <1>1, <1>3 DEF SinkInv, Opening
    <2>6. QED
      BY <1>1, <2>3, <2>4, <2>5 DEF SinkInv
  <1>8. QED
    BY <1>4, <1>5, <1>6, <1>7

LEMMA DropSnapshotKeepsFiles ==
    ASSUME FilesInv, NEW k \in sinks, DropSnapshot(k) PROVE FilesInv'
  <1> USE DEF FilesInv, DropSnapshot
  <1>1. /\ kern' = kern /\ before' = before /\ flushed' = flushed /\ mem' = mem /\ entry0' = entry0
        /\ pc' = "idle" /\ pc = "idle" /\ kills' = kills /\ call' = call
        /\ nextPart' = nextPart /\ sinks' = sinks \ {k} /\ parts' = parts \ {k.part}
    BY DEF files
  <1>2. TypeOK'
    BY <1>1 DEF TypeOK
  <1>3. KernInv'
    BY <1>1 DEF KernInv, AtIdle
  <1>4. RunsInv'
    BY <1>1 DEF RunsInv
  <1>5. parts' = {j.part : j \in sinks'}
    BY <1>1 DEF SinkInv, Opening
  <1>6. SinkInv'
    BY <1>1, <1>5 DEF SinkInv
  <1>7. QED
    BY <1>2, <1>3, <1>4, <1>6

LEMMA InstallSnapshotKeepsFiles ==
    ASSUME FilesInv, NEW k \in sinks, InstallSnapshot(k) PROVE FilesInv'
  <1> USE DEF FilesInv, InstallSnapshot, BeginCall
  <1>1. AtIdle /\ k \in Sink
    BY DEF KernInv, TypeOK
  <1>2. /\ kern' = kern /\ before' = before /\ flushed' = flushed /\ mem' = mem /\ entry0' = mem
        /\ sinks' = sinks /\ parts' = parts /\ nextPart' = nextPart /\ kills' = kills
        /\ call' = [kind |-> "install", sink |-> k] /\ pc' = "snapRename" /\ pc = "idle"
    BY DEF files, sinkVars
  <1>3. call' \in Calls /\ call'.sink = k
    BY <1>1, <1>2, CallIs
  <1>4. TypeOK'
    BY <1>2, <1>3 DEF TypeOK
  <1>5. AtSnapRename'
    BY <1>1, <1>2, <1>3, CallIs DEF AtIdle, AtSnapRename, Calling, Good, Holding, Newer
  <1>6. KernInv'
    BY <1>2, <1>5 DEF KernInv
  <1>7. RunsInv' /\ SinkInv'
    BY <1>2 DEF RunsInv, SinkInv, Opening
  <1>8. QED
    BY <1>4, <1>6, <1>7

LEMMA RenameSnapshotKeepsFiles ==
    ASSUME FilesInv, RenameSnapshot PROVE FilesInv'
  <1> USE DEF FilesInv, RenameSnapshot
  <1>1. AtSnapRename
    BY DEF KernInv
  <1>2. call.sink \in Sink /\ call.sink \in sinks
    BY <1>1, CallingIs, CallIs DEF AtSnapRename
  <1>3. call.sink.meta \in Meta
    BY <1>2, MetaFacts DEF Sink
  <1>4. TypeOK'
    BY <1>3 DEF TypeOK
  <1>5. AtSnapDir'
    BY <1>1 DEF AtSnapRename, AtSnapDir, Calling, Good, Holding, Newer
  <1>6. KernInv'
    BY <1>5 DEF KernInv
  <1>7. before'.ents = before.ents /\ kern'.ents = kern.ents /\ flushed' = flushed
    BY KernIs
  <1>8. RunsInv'
    BY <1>7 DEF RunsInv
  <1>9. parts' = {j.part : j \in sinks'}
    <2>1. parts = {j.part : j \in sinks} /\ \A i, j \in sinks : i.part = j.part => i = j
      BY DEF SinkInv, Opening
    <2>2. QED
      BY <1>2, <2>1
  <1>10. SinkInv'
    BY <1>9 DEF SinkInv
  <1>11. QED
    BY <1>4, <1>6, <1>8, <1>10

(* What an installation leaves: what an open would make of the new         *)
(* snapshot and the old entries.                                           *)
LEMMA InstalledIs ==
    ASSUME NEW m \in Memory, Good(m), NEW meta \in Meta, meta.index > m.base.index
    PROVE  /\ Compact(m, meta) \in Memory
           /\ Compact(m, meta).hard = m.hard /\ Compact(m, meta).base = meta
           /\ Compact(m, meta).log = Above(m.base.index, m.log, meta)
           /\ Compact(m, meta).log = Reconciled(meta, m.log)
           /\ m.base.index \in 0..meta.index
           /\ Run(m.base.index, m.log) /\ m.log \in Seq(Entry)
  <1>1. /\ m.log \in Seq(Entry) /\ m.base.index \in Nat /\ meta.index \in Nat
        /\ Run(m.base.index, m.log)
    BY MemoryIs, MetaFacts DEF Good
  <1>2. m.base.index \in 0..meta.index
    BY <1>1
  <1>3. Above(m.base.index, m.log, meta) \in Seq(Entry)
    BY <1>1, AboveIs
  <1>4. Reconciled(meta, m.log) = Above(m.base.index, m.log, meta)
    BY <1>1, <1>2, ReconciledIs
  <1>5. QED
    BY <1>1, <1>2, <1>3, <1>4, CompactIs

LEMMA InstallingIs ==
    ASSUME TypeOK, Calling("install"), Newer
    PROVE  /\ call.sink \in Sink /\ call.sink.meta \in Entry /\ call.sink.meta \in Meta
           /\ entry0 \in Memory /\ Good(entry0)
           /\ Installed \in Memory
           /\ Installed.hard = entry0.hard /\ Installed.base = call.sink.meta
           /\ Installed.log = Above(entry0.base.index, entry0.log, call.sink.meta)
           /\ Installed.log = Reconciled(call.sink.meta, entry0.log)
           /\ entry0.base.index \in 0..call.sink.meta.index
           /\ Run(entry0.base.index, entry0.log) /\ entry0.log \in Seq(Entry)
  <1>1. call.sink \in Sink /\ entry0 \in Memory /\ Good(entry0)
    BY CallingIs, CallIs
  <1>2. call.sink.meta \in Entry /\ call.sink.meta \in Meta
    BY <1>1, MetaFacts DEF Sink
  <1>3. QED
    BY <1>1, <1>2, InstalledIs DEF Installed, Newer

LEMMA SyncSnapshotKeepsFiles ==
    ASSUME FilesInv, SyncSnapshot PROVE FilesInv'
  <1> USE DEF FilesInv, SyncSnapshot, SyncDir
  <1>1. AtSnapDir
    BY DEF KernInv
  <1>2. /\ sinks' = sinks /\ parts' = parts /\ nextPart' = nextPart
        /\ pc' = "rewrite" /\ pc = "snapDir" /\ kern' = kern /\ flushed' = flushed
        /\ call' = call /\ entry0' = entry0 /\ before' = NothingBefore /\ kills' = kills
    BY DEF sinkVars
  <1>3. /\ Installed \in Memory
        /\ Installed.hard = entry0.hard /\ Installed.base = call.sink.meta
        /\ Installed.log = Reconciled(call.sink.meta, entry0.log)
        /\ entry0.base.index \in 0..call.sink.meta.index
        /\ Run(entry0.base.index, entry0.log) /\ entry0.log \in Seq(Entry)
    BY <1>1, InstallingIs DEF AtSnapDir
  <1>4. mem' = Installed
    BY <1>1 DEF AtSnapDir, Installed
  <1>5. TypeOK'
    BY <1>2, <1>3, <1>4, NothingIsTyped DEF TypeOK
  <1>6. kern.hard = entry0.hard /\ kern.snap = call.sink.meta /\ kern.ents = entry0.log
    BY <1>1 DEF AtSnapDir, Holding
  <1>7. AtRewrite'
    <2>1. Read'
      BY <1>2, <1>3, <1>4, <1>6 DEF Read
    <2>2. \E b \in 0..mem'.base.index : Run(b, kern'.ents)
      BY <1>2, <1>3, <1>4, <1>6
    <2>3. mem'.log = Reconciled(mem'.base, kern'.ents)
      BY <1>2, <1>3, <1>4, <1>6
    <2>4. Calling("install")' /\ mem' = Installed' /\ Newer'
      BY <1>1, <1>2, <1>4 DEF AtSnapDir, Calling, Installed, Newer, Good
    <2>5. QED
      BY <1>2, <1>6, <2>1, <2>2, <2>3, <2>4 DEF AtRewrite
  <1>8. KernInv'
    BY <1>2, <1>7 DEF KernInv
  <1>9. RunsInv'
    BY <1>2, NothingIsTyped DEF RunsInv
  <1>10. SinkInv'
    BY <1>2 DEF SinkInv, Opening
  <1>11. QED
    BY <1>5, <1>8, <1>9, <1>10

LEMMA RewriteIs ==
    ASSUME TypeOK, AtRewrite
    PROVE  /\ mem \in Memory /\ mem.log \in Seq(Entry) /\ mem.base.index \in 0..MaxIndex
           /\ Run(mem.base.index, mem.log)
  <1>1. mem \in Memory
    BY DEF TypeOK
  <1>2. mem.base \in Meta /\ mem.base.index \in 0..MaxIndex
    BY <1>1, MemoryIs
  <1>3. PICK b \in 0..mem.base.index : Run(b, kern.ents)
    BY DEF AtRewrite
  <1>4. kern.ents \in Seq(Entry) /\ mem.log = Reconciled(mem.base, kern.ents)
    BY DEF AtRewrite, Read
  <1>5. QED
    BY <1>1, <1>2, <1>3, <1>4, ReconciledIs

LEMMA RewriteEntriesKeepsFiles ==
    ASSUME FilesInv, RewriteEntries PROVE FilesInv'
  <1> USE DEF FilesInv, RewriteEntries
  <1>1. AtRewrite
    BY DEF KernInv
  <1>2. /\ sinks' = sinks /\ parts' = parts /\ nextPart' = nextPart
        /\ pc' = "rewriteDir" /\ pc = "rewrite" /\ flushed' = {mem.log} /\ mem' = mem
        /\ call' = call /\ entry0' = entry0 /\ kills' = kills
    BY DEF sinkVars
  <1>3. /\ mem \in Memory /\ mem.log \in Seq(Entry) /\ mem.base.index \in 0..MaxIndex
        /\ Run(mem.base.index, mem.log)
    BY <1>1, RewriteIs
  <1>4. mem.log \in File /\ Runs(mem.log)
    BY <1>3, RunIsRuns
  <1>5. /\ kern' = [hard |-> kern.hard, snap |-> kern.snap, ents |-> mem.log]
        /\ before' = [hard |-> before.hard, snap |-> before.snap, ents |-> before.ents \cup flushed]
    BY KernIs
  <1>6. TypeOK'
    <2>1. kern' \in [hard : HardStates, snap : Meta, ents : File]
      BY <1>4, <1>5, KernIs
    <2>2. before' \in [hard : SUBSET HardStates, snap : SUBSET Meta, ents : SUBSET File]
      BY <1>5, KernIs
    <2>3. QED
      BY <1>2, <1>4, <2>1, <2>2 DEF TypeOK
  <1>7. AtRewriteDir'
    <2>1. kern' = Holding(mem)
      BY <1>1, <1>5 DEF AtRewrite, Read, Holding
    <2>2. call # NoCall => Calling("install") /\ mem = Installed /\ Newer
      BY <1>1 DEF AtRewrite
    <2>3. QED
      BY <1>2, <1>3, <2>1, <2>2 DEF AtRewriteDir, Calling, Good, Installed, Newer
  <1>8. KernInv'
    BY <1>2, <1>7 DEF KernInv
  <1>9. RunsInv'
    <2>1. kern'.ents = mem.log /\ before'.ents = before.ents \cup flushed
      BY <1>5
    <2>2. QED
      BY <1>2, <1>4, <2>1 DEF RunsInv
  <1>10. SinkInv'
    BY <1>2 DEF SinkInv, Opening
  <1>11. QED
    BY <1>6, <1>8, <1>9, <1>10

LEMMA SyncRewriteKeepsFiles ==
    ASSUME FilesInv, SyncRewrite PROVE FilesInv'
  <1> USE DEF FilesInv, SyncRewrite, SyncDir, EndCall
  <1>1. AtRewriteDir /\ mem \in Memory
    BY DEF KernInv, TypeOK
  <1>2. /\ sinks' = sinks /\ parts' = parts /\ nextPart' = nextPart /\ kills' = kills
        /\ pc' = "idle" /\ pc = "rewriteDir" /\ entry0' = NoMem /\ call' = NoCall
        /\ before' = NothingBefore /\ kern' = kern /\ flushed' = flushed
    BY DEF sinkVars
  <1>3. /\ mem.log \in Seq(Entry) /\ mem.base.index \in Nat /\ mem.base.index <= MaxIndex
        /\ Run(mem.base.index, mem.log) /\ Len(mem.log) \in Nat
    BY <1>1, MemoryIs, BoundsAssumption DEF AtRewriteDir
  <1>4. mem.base.index + Len(mem.log) <= MaxIndex
    BY <1>3, RunFits
  <1>5. Len(mem.log) \in 0..MaxIndex
    BY <1>3, <1>4, BoundsAssumption
  <1>6. /\ mem' \in Memory /\ mem'.hard = mem.hard /\ mem'.base = mem.base
        /\ mem'.log = mem.log /\ mem'.end = Len(mem.log)
    BY <1>1, <1>5 DEF Memory
  <1>7. TypeOK'
    BY <1>2, <1>6, MemoryIs, NothingIsTyped DEF TypeOK
  <1>8. AtIdle'
    BY <1>1, <1>2, <1>6 DEF AtIdle, AtRewriteDir, Holding, Good
  <1>9. KernInv'
    BY <1>2, <1>8 DEF KernInv
  <1>10. RunsInv' /\ SinkInv'
    BY <1>2, NothingIsTyped DEF RunsInv, SinkInv, Opening
  <1>11. QED
    BY <1>7, <1>9, <1>10

LEMMA WholeOfWhole ==
    ASSUME NEW f \in File
    PROVE  /\ Whole(f) \in Seq(Entry) /\ Whole(f) \in File
           /\ Whole(Whole(f)) = Whole(f)
           /\ Runs(f) => Runs(Whole(f))
  <1>1. Whole(f) \in Seq(Entry)
    BY WholeFacts
  <1>2. Whole(f) \in File /\ Whole(Whole(f)) = Whole(f)
    BY <1>1, EntriesAreAFile
  <1>3. QED
    BY <1>1, <1>2 DEF Runs

LEMMA OpenKeepsFiles ==
    ASSUME FilesInv, Open PROVE FilesInv'
  <1> USE DEF FilesInv, Open
  <1>1. AtDown
    BY DEF KernInv
  <1>2. /\ kern.ents \in File /\ Whole(kern.ents) \in Seq(Entry) /\ Whole(kern.ents) \in File
        /\ Runs(Whole(kern.ents))
    BY KernIs, WholeOfWhole DEF RunsInv
  <1>3. /\ kern' = [hard |-> kern.hard, snap |-> kern.snap, ents |-> Whole(kern.ents)]
        /\ flushed' = flushed \cup {Whole(kern.ents)}
        /\ before' = before /\ call' = call /\ entry0' = entry0 /\ kills' = kills
        /\ sinks' = {} /\ parts' = {} /\ nextPart' = 0 /\ pc' \in {"cut", "reconcile"}
    BY KernIs
  <1>4. mem' = [hard |-> kern.hard, base |-> kern.snap, log |-> <<>>, end |-> 0]
    BY DEF NoMem
  <1>5. mem' \in Memory
    <2>1. kern.hard \in HardStates /\ kern.snap \in Meta
      BY KernIs
    <2>2. <<>> \in Seq(Entry) /\ 0 \in 0..MaxIndex
      BY BoundsAssumption
    <2>3. [hard |-> kern.hard, base |-> kern.snap, log |-> <<>>, end |-> 0] \in Memory
      <3> HIDE DEF FilesInv, Open
      <3>1. QED
        BY <2>1, <2>2 DEF Memory
    <2>4. QED
      BY <1>4, <2>3, Zenon
  <1>6. TypeOK'
    <2>1. kern' \in [hard : HardStates, snap : Meta, ents : File]
      BY <1>2, <1>3, KernIs
    <2>2. 0 \in 0..MaxParts
      BY BoundsAssumption
    <2>3. QED
      BY <1>2, <1>3, <1>5, <2>1, <2>2 DEF TypeOK, Opening
  <1>7. Read' /\ call' = NoCall
    BY <1>1, <1>2, <1>3, <1>4 DEF Read, AtDown
  <1>8. KernInv'
    BY <1>3, <1>7 DEF KernInv, AtCut, AtReconcile
  <1>9. RunsInv'
    BY <1>2, <1>3 DEF RunsInv
  <1>10. SinkInv'
    BY <1>3 DEF SinkInv, Opening
  <1>11. QED
    BY <1>6, <1>8, <1>9, <1>10

LEMMA SyncCutKeepsFiles ==
    ASSUME FilesInv, SyncCut PROVE FilesInv'
  <1> USE DEF FilesInv, SyncCut
  <1>1. AtCut
    BY DEF KernInv
  <1>2. /\ sinks' = sinks /\ parts' = parts /\ nextPart' = nextPart
        /\ pc' = "reconcile" /\ pc = "cut" /\ flushed' = {kern.ents} /\ mem' = mem
        /\ call' = call /\ entry0' = entry0 /\ kills' = kills /\ kern' = kern /\ before' = before
    BY DEF sinkVars
  <1>3. TypeOK'
    BY <1>2, KernIs DEF TypeOK, Opening
  <1>4. KernInv'
    BY <1>1, <1>2 DEF KernInv, AtCut, AtReconcile, Read
  <1>5. RunsInv' /\ SinkInv'
    BY <1>2 DEF RunsInv, SinkInv, Opening
  <1>6. QED
    BY <1>3, <1>4, <1>5

(* What an open that finds no hole starts from.                            *)
LEMMA NoHole ==
    ASSUME NEW base \in Meta, NEW s \in Seq(Entry), Runs(s), ~Hole(base, s)
    PROVE  /\ \E b \in 0..base.index : Run(b, s)
           /\ ~Covered(base, s) => Run(base.index, s)
  <1>1. base.index \in Nat /\ base.index \in 0..base.index
    BY MetaFacts
  <1>2. CASE s = <<>>
    BY <1>1, <1>2, EmptyRun
  <1>3. CASE s # <<>>
    <2>1. PICK b \in 0..MaxIndex : Run(b, s)
      BY EntriesAreAFile DEF Runs
    <2>2. b \in Nat /\ s[1].index = b + 1
      BY <2>1, <1>3 DEF Run
    <2>3. b <= base.index
      BY <1>1, <1>3, <2>2 DEF Hole
    <2>4. ~Covered(base, s) => b = base.index
      BY <1>1, <1>3, <2>2, <2>3 DEF Covered
    <2>5. b \in 0..base.index
      BY <1>1, <2>2, <2>3
    <2>6. QED
      BY <2>1, <2>4, <2>5
  <1>4. QED
    BY <1>2, <1>3

LEMMA ReconcileKeepsFiles ==
    ASSUME FilesInv, Reconcile PROVE FilesInv'
  <1> USE DEF FilesInv, Reconcile
  <1>1. AtReconcile /\ mem \in Memory
    BY DEF KernInv, TypeOK
  <1>2. /\ kern' = kern /\ before' = before /\ flushed' = flushed /\ entry0' = entry0
        /\ sinks' = sinks /\ parts' = parts /\ nextPart' = nextPart /\ kills' = kills
        /\ call' = call /\ pc = "reconcile"
    BY DEF files, sinkVars
  <1>3. kern.ents \in Seq(Entry) /\ mem.hard = kern.hard /\ mem.base = kern.snap /\ call = NoCall
    BY <1>1 DEF AtReconcile, Read
  <1>4. mem.base \in Meta /\ Runs(kern.ents) /\ Len(kern.ents) \in Nat
    BY <1>1, <1>3, MemoryIs DEF RunsInv
  <1>5. Reconciled(mem.base, kern.ents) \in Seq(Entry)
    <2>1. CASE Hole(mem.base, kern.ents)
      <3>1. ~Covered(mem.base, kern.ents)
        <4>1. kern.ents # <<>> => 1 \in 1..Len(kern.ents) /\ kern.ents[1] \in Entry
          BY <1>3
        <4>2. kern.ents # <<>> => kern.ents[1].index \in Nat /\ mem.base.index \in Nat
          BY <4>1, <1>4, MetaFacts
        <4>3. QED
          BY <2>1, <4>2 DEF Hole, Covered
      <3>2. QED
        BY <3>1, <1>3 DEF Reconciled
    <2>2. CASE ~Hole(mem.base, kern.ents)
      <3>1. PICK b \in 0..mem.base.index : Run(b, kern.ents)
        BY <2>2, <1>3, <1>4, NoHole
      <3>2. QED
        BY <3>1, <1>3, <1>4, ReconciledIs
    <2>3. QED
      BY <2>1, <2>2
  <1>6. Len(kern.ents) \in 0..MaxIndex
    <2>1. PICK b \in 0..MaxIndex : Run(b, kern.ents)
      BY <1>3, <1>4, EntriesAreAFile DEF Runs
    <2>2. b \in Nat /\ b <= MaxIndex /\ MaxIndex \in Nat
      BY BoundsAssumption
    <2>3. b + Len(kern.ents) <= MaxIndex
      BY <2>1, <2>2, <1>3, RunFits
    <2>4. QED
      BY <2>2, <2>3, <1>4
  <1>7. /\ mem' \in Memory /\ mem'.hard = mem.hard /\ mem'.base = mem.base
        /\ mem'.log = Reconciled(mem.base, kern.ents) /\ mem'.end = Len(kern.ents)
    BY <1>1, <1>5, <1>6 DEF Memory
  <1>8. pc' \in {"corrupt", "rewrite", "idle"}
    BY Zenon
  <1>9. TypeOK'
    BY <1>2, <1>7, <1>8 DEF TypeOK, Opening
  <1>10. pc' = "rewrite" => AtRewrite'
    <2> SUFFICES ASSUME pc' = "rewrite" PROVE AtRewrite'
      OBVIOUS
    <2>1. ~Hole(mem.base, kern.ents)
      OBVIOUS
    <2>2. \E b \in 0..mem.base.index : Run(b, kern.ents)
      BY <2>1, <1>3, <1>4, NoHole
    <2>3. QED
      BY <1>2, <1>3, <1>7, <2>2 DEF AtRewrite, Read
  <1>11. pc' = "idle" => AtIdle'
    <2> SUFFICES ASSUME pc' = "idle" PROVE AtIdle'
      OBVIOUS
    <2>1. ~Hole(mem.base, kern.ents) /\ ~Covered(mem.base, kern.ents)
      OBVIOUS
    <2>2. Run(mem.base.index, kern.ents)
      BY <2>1, <1>3, <1>4, NoHole
    <2>3. mem'.log = kern.ents
      BY <2>1, <1>7 DEF Reconciled
    <2>4. kern = [hard |-> kern.hard, snap |-> kern.snap, ents |-> kern.ents]
      BY KernIs
    <2>5. kern' = Holding(mem')
      BY <1>2, <1>3, <1>7, <2>3, <2>4 DEF Holding
    <2>6. Good(mem')
      BY <1>7, <2>2, <2>3 DEF Good
    <2>7. QED
      BY <1>2, <1>3, <2>5, <2>6 DEF AtIdle
  <1>12. KernInv'
    BY <1>8, <1>10, <1>11 DEF KernInv
  <1>13. RunsInv' /\ SinkInv'
    BY <1>2, <1>8 DEF RunsInv, SinkInv, Opening
  <1>14. QED
    BY <1>9, <1>12, <1>13

LEMMA StopKeepsFiles ==
    ASSUME TypeOK, Stop,
           kern' \in [hard : HardStates, snap : Meta, ents : File],
           before' \in [hard : SUBSET HardStates, snap : SUBSET Meta, ents : SUBSET File],
           flushed' \in SUBSET File, kills' \in 0..MaxKills
    PROVE  TypeOK' /\ KernInv' /\ SinkInv'
  <1>1. TypeOK'
    <2>1. 0 \in 0..MaxParts
      BY BoundsAssumption
    <2>2. QED
      BY <2>1, MemoryIs DEF TypeOK, Stop, Opening
  <1>2. KernInv'
    BY DEF Stop, KernInv, AtDown
  <1>3. SinkInv'
    BY DEF Stop, SinkInv, Opening
  <1>4. QED
    BY <1>1, <1>2, <1>3

LEMMA KillKeepsFiles ==
    ASSUME FilesInv, Kill PROVE FilesInv'
  <1>1. Stop /\ kern' = kern /\ before' = before /\ flushed' = flushed
    BY DEF Kill, files
  <1>2. kills' \in 0..MaxKills
    BY BoundsAssumption DEF Kill, FilesInv, TypeOK
  <1>3. TypeOK' /\ KernInv' /\ SinkInv'
    BY <1>1, <1>2, StopKeepsFiles DEF FilesInv, TypeOK
  <1>4. RunsInv'
    BY <1>1 DEF FilesInv, RunsInv
  <1>5. QED
    BY <1>3, <1>4 DEF FilesInv

LEMMA FailWriteKeepsFiles ==
    ASSUME FilesInv, FailWrite PROVE FilesInv'
  <1>1. TypeOK /\ AtWrite
    BY DEF FilesInv, KernInv, FailWrite
  <1>2. PICK p \in Partials(call.entries) :
          /\ kern' = [kern EXCEPT !.ents = WriteAt(mem.end, p)]
          /\ flushed' = flushed \cup
                {WriteAt(mem.end, q) : q \in {q \in Partials(call.entries) :
                     Len(q) <= Len(p) /\ Len(Whole(q)) <= Len(Whole(p))}}
    BY DEF FailWrite
  <1>3. \A q \in Partials(call.entries) :
           WriteAt(mem.end, q) \in File /\ Runs(WriteAt(mem.end, q))
    BY <1>1, WriteIs
  <1>4. kern' = [hard |-> kern.hard, snap |-> kern.snap, ents |-> WriteAt(mem.end, p)]
    BY <1>1, <1>2, KernIs
  <1>5. kern' \in [hard : HardStates, snap : Meta, ents : File]
    BY <1>1, <1>3, <1>4, KernIs
  <1>6. \A f \in flushed' : f \in flushed \/ (f \in File /\ Runs(f))
    BY <1>2, <1>3
  <1>7. flushed' \in SUBSET File
    BY <1>1, <1>6, KernIs
  <1>8. Stop /\ before' = before /\ kills' \in 0..MaxKills
    BY <1>1, BoundsAssumption DEF FailWrite, TypeOK
  <1>9. TypeOK' /\ KernInv' /\ SinkInv'
    BY <1>1, <1>5, <1>7, <1>8, StopKeepsFiles DEF TypeOK
  <1>10. RunsInv'
    <2>1. kern'.ents = WriteAt(mem.end, p)
      BY <1>4
    <2>2. QED
      BY <1>3, <1>6, <1>8, <2>1 DEF FilesInv, RunsInv
  <1>11. QED
    BY <1>9, <1>10 DEF FilesInv

LEMMA PowerCutKeepsFiles ==
    ASSUME FilesInv, PowerCut PROVE FilesInv'
  <1>1. PICK h \in before.hard \cup {kern.hard}, s \in before.snap \cup {kern.snap},
             es \in before.ents \cup flushed :
          /\ kern' = [hard |-> h, snap |-> s, ents |-> es]
          /\ flushed' = {es}
    BY DEF PowerCut
  <1>2. TypeOK
    BY DEF FilesInv
  <1>3. h \in HardStates /\ s \in Meta /\ es \in File
    BY <1>2, KernIs
  <1>4. Stop /\ before' = NothingBefore /\ kills' \in 0..MaxKills
    BY BoundsAssumption DEF PowerCut, SyncDir
  <1>5. TypeOK' /\ KernInv' /\ SinkInv'
    BY <1>1, <1>2, <1>3, <1>4, NothingIsTyped, StopKeepsFiles
  <1>6. Runs(es)
    BY DEF FilesInv, RunsInv
  <1>7. RunsInv'
    BY <1>1, <1>4, <1>6, NothingIsTyped DEF RunsInv
  <1>8. QED
    BY <1>5, <1>7 DEF FilesInv

LEMMA FilesStep ==
    ASSUME FilesInv, [Next]_vars PROVE FilesInv'
  <1>1. CASE UNCHANGED vars
    BY <1>1 DEF vars, FilesInv, TypeOK, KernInv, RunsInv, SinkInv, AtIdle, AtHardRename, AtHardDir,
          AtWrite, AtWriteSync, AtSetLen, AtSetLenSync, AtSnapRename, AtSnapDir, AtRewrite,
          AtRewriteDir, AtDown, AtCut, AtReconcile, Calling, Truncated, Installed, Newer, Read
  <1>2. CASE Next
    BY <1>2, SaveHardStateKeepsFiles, RenameHardKeepsFiles, SyncHardKeepsFiles,
       AppendEntriesKeepsFiles, WriteEntriesKeepsFiles, SyncEntriesKeepsFiles,
       TruncateFromKeepsFiles, SetLenKeepsFiles, SyncLengthKeepsFiles, NewSnapshotKeepsFiles,
       DropSnapshotKeepsFiles, InstallSnapshotKeepsFiles, RenameSnapshotKeepsFiles,
       SyncSnapshotKeepsFiles, RewriteEntriesKeepsFiles, SyncRewriteKeepsFiles, OpenKeepsFiles,
       SyncCutKeepsFiles, ReconcileKeepsFiles, KillKeepsFiles, FailWriteKeepsFiles,
       PowerCutKeepsFiles DEF Next
  <1>3. QED
    BY <1>1, <1>2

LEMMA FilesInitially ==
    Init => FilesInv
  <1> SUFFICES ASSUME Init PROVE FilesInv
    OBVIOUS
  <1> USE DEF Init
  <1>1. <<>> \in Seq(Entry) /\ 0 \in 0..MaxIndex /\ 0 \in 0..MaxParts /\ 0 \in 0..MaxKills
    BY BoundsAssumption
  <1>2. <<>> \in File /\ Runs(<<>>)
    BY <1>1, EmptyRun, RunIsRuns
  <1>3. kern \in [hard : HardStates, snap : Meta, ents : File]
    BY <1>2, DefaultHardAssumption DEF Meta
  <1>4. TypeOK
    BY <1>1, <1>2, <1>3, MemoryIs, NothingIsTyped DEF TypeOK
  <1>5. AtIdle
    BY EmptyRun DEF AtIdle, Good, Holding, NoMem
  <1>6. KernInv
    BY <1>5 DEF KernInv
  <1>7. RunsInv /\ SinkInv
    BY <1>2, NothingIsTyped DEF RunsInv, SinkInv, Opening
  <1>8. QED
    BY <1>4, <1>6, <1>7 DEF FilesInv

LEMMA FilesAlways ==
    Spec => []FilesInv
  BY FilesInitially, FilesStep, PTL DEF Spec

(* Whatever fails, and in whatever order, the storage's state has its      *)
(* types: no step of a call or of an open reads a file or a field that is  *)
(* not what the code takes it for.                                         *)
THEOREM TypesAreKept ==
    Spec => []TypeOK
  <1>1. FilesInv => TypeOK
    BY DEF FilesInv
  <1>2. QED
    BY <1>1, FilesAlways, PTL

(* Whatever fails, every snapshot being written has a part file of its     *)
(* own, and a running storage keeps no other: new_snapshot, Drop,          *)
(* install_snapshot and remove_stray_parts.                                *)
THEOREM EverySinkHasItsPart ==
    Spec => []EachSinkHasItsPart
  <1>1. ASSUME FilesInv PROVE EachSinkHasItsPart
    <2> SUFFICES ASSUME pc \notin Opening
                 PROVE  parts = {k.part : k \in sinks} /\ Cardinality(parts) = Cardinality(sinks)
      BY DEF EachSinkHasItsPart
    <2>1. parts = {k.part : k \in sinks} /\ \A j, k \in sinks : j.part = k.part => j = k
      BY <1>1 DEF FilesInv, SinkInv
    <2>2. parts \in SUBSET (1..MaxParts) /\ MaxParts \in Nat
      BY <1>1, BoundsAssumption DEF FilesInv, TypeOK
    <2>3. IsFiniteSet(parts)
      <3>1. 1 \in Int /\ MaxParts \in Int
        BY <2>2
      <3>2. IsFiniteSet(1..MaxParts)
        BY <3>1, FS_Interval
      <3>3. QED
        BY <2>2, <3>2, FS_Subset
    <2> DEFINE f == [p \in parts |-> CHOOSE k \in sinks : k.part = p]
    <2>4. \A p \in parts : f[p] \in sinks /\ f[p].part = p
      BY <2>1
    <2>5. f \in Bijection(parts, sinks)
      <3> HIDE DEF f
      <3>1. f \in [parts -> sinks]
        BY <2>4 DEF f
      <3>2. \A p, q \in parts : f[p] = f[q] => p = q
        BY <2>4
      <3>3. \A k \in sinks : k.part \in parts /\ f[k.part] = k
        BY <2>1, <2>4
      <3>4. QED
        BY <3>1, <3>2, <3>3, Fun_IsBij
    <2>6. Cardinality(sinks) = Cardinality(parts)
      BY <2>3, <2>5, FS_Bijection DEF ExistsBijection
    <2>7. QED
      BY <2>1, <2>6
  <1>2. QED
    BY <1>1, FilesAlways, PTL

-----------------------------------------------------------------------------
(* What a crash leaves.                                                    *)

LEMMA RecoveredIs ==
    ASSUME NEW h, NEW base \in Meta, NEW s \in Seq(Entry), Run(base.index, s)
    PROVE  /\ Reaches(base.index, s)
           /\ Recovered([hard |-> h, snap |-> base, ents |-> s])
                 = [hard |-> h, base |-> base, log |-> Range(s)]
  <1>1. base.index \in 0..base.index
    BY MetaFacts
  <1>2. Whole(s) = s
    BY EntriesAreAFile
  <1>3. Reconciled(base, s) = s
    BY <1>1, ReconciledIs
  <1>4. QED
    BY <1>1, <1>2, <1>3 DEF Reaches, Recovered

LEMMA HoldingIs ==
    ASSUME NEW m \in Memory, Run(m.base.index, m.log)
    PROVE  /\ Reaches(m.base.index, m.log)
           /\ Recovered(Holding(m)) = Logical(m)
           /\ Holding(m).hard = m.hard /\ Holding(m).snap = m.base /\ Holding(m).ents = m.log
  BY MemoryIs, RecoveredIs DEF Holding, Logical

LEMMA RunningIs ==
    ASSUME call \in Calls
    PROVE  /\ Running \in Atomic!Call /\ Running # NoCall
           /\ call.kind = "append" => Running = [kind |-> "append", entries |-> Range(call.entries)]
           /\ call.kind = "install" => Running = [kind |-> "install", meta |-> call.sink.meta]
           /\ call.kind \in {"save", "truncate"} => Running = call
  <1>1. call # NoCall
    BY CallIs
  <1>2. CASE call \in [kind : {"save"}, hard : HardStates]
    <2>1. call.kind = "save"
      BY <1>2
    <2>2. Running = call
      BY <1>1, <2>1 DEF Running
    <2>3. Running \in Atomic!Call
      BY <1>2, <2>2 DEF Atomic!Call
    <2>4. QED
      BY <2>1, <2>2, <2>3, NoCallAssumption
  <1>3. CASE call \in [kind : {"append"}, entries : Seq(Entry)]
    <2>1. call.kind = "append" /\ call.entries \in Seq(Entry)
      BY <1>3
    <2>2. Running = [kind |-> "append", entries |-> Range(call.entries)]
      BY <1>1, <2>1 DEF Running
    <2>3. Range(call.entries) \in SUBSET Atomic!Entry
      BY <2>1, RangeIs DEF Entry, Atomic!Entry
    <2>4. Running \in Atomic!Call
      BY <2>2, <2>3 DEF Atomic!Call
    <2>5. QED
      BY <2>1, <2>2, <2>4, NoCallAssumption
  <1>4. CASE call \in [kind : {"truncate"}, index : 1..MaxIndex]
    <2>1. call.kind = "truncate"
      BY <1>4
    <2>2. Running = call
      BY <1>1, <2>1 DEF Running
    <2>3. Running \in Atomic!Call
      BY <1>4, <2>2 DEF Atomic!Call
    <2>4. QED
      BY <2>1, <2>2, <2>3, NoCallAssumption
  <1>5. CASE call \in [kind : {"install"}, sink : Sink]
    <2>1. call.kind = "install" /\ call.sink \in Sink
      BY <1>5
    <2>2. Running = [kind |-> "install", meta |-> call.sink.meta]
      BY <1>1, <2>1 DEF Running
    <2>3. call.sink.meta \in Atomic!Entry
      BY <2>1 DEF Sink, Entry, Atomic!Entry
    <2>4. Running \in Atomic!Call
      BY <2>2, <2>3 DEF Atomic!Call
    <2>5. QED
      BY <2>1, <2>2, <2>4, NoCallAssumption
  <1>6. QED
    BY <1>2, <1>3, <1>4, <1>5 DEF Calls

LEMMA UndoneOrDone ==
    ASSUME NEW c, NEW s
    PROVE  s \in Atomic!Outcomes(c, s) /\ Atomic!Effect(c, s) \in Atomic!Outcomes(c, s)
  BY DEF Atomic!Outcomes

LEMMA MoreLog ==
    \A h, base, log, more, s :
        s = [hard |-> h, base |-> base, log |-> log] =>
            [s EXCEPT !.log = @ \cup more] = [hard |-> h, base |-> base, log |-> log \cup more]
  OBVIOUS

LEMMA EffectOf ==
    ASSUME NEW c, NEW h, NEW base, NEW log, NEW s,
           s = [hard |-> h, base |-> base, log |-> log]
    PROVE  /\ c.kind = "save" =>
                 Atomic!Effect(c, s) = [hard |-> c.hard, base |-> base, log |-> log]
           /\ c.kind = "append" =>
                 Atomic!Effect(c, s) = [hard |-> h, base |-> base, log |-> log \cup c.entries]
           /\ c.kind = "truncate" =>
                 Atomic!Effect(c, s) = [hard |-> h, base |-> base,
                                        log |-> {e \in log : e.index < c.index}]
           /\ c.kind = "install" =>
                 Atomic!Effect(c, s) = [hard |-> h, base |-> c.meta,
                                        log |-> IF c.meta \in log
                                                THEN {e \in log : e.index > c.meta.index}
                                                ELSE {}]
  <1>1. c.kind = "save" =>
          Atomic!Effect(c, s) = [hard |-> c.hard, base |-> base, log |-> log]
    BY DEF Atomic!Effect
  <1>2. c.kind = "append" =>
          Atomic!Effect(c, s) = [hard |-> h, base |-> base, log |-> log \cup c.entries]
    BY DEF Atomic!Effect
  <1>3. c.kind = "truncate" =>
          Atomic!Effect(c, s) = [hard |-> h, base |-> base, log |-> {e \in log : e.index < c.index}]
    BY DEF Atomic!Effect
  <1>4. c.kind = "install" =>
          Atomic!Effect(c, s) = [hard |-> h, base |-> c.meta,
                                 log |-> IF c.meta \in log
                                         THEN {e \in log : e.index > c.meta.index} ELSE {}]
    BY DEF Atomic!Effect
  <1>5. QED
    BY <1>1, <1>2, <1>3, <1>4

(* What the call in progress is to AtomicStorage, from where it began.     *)
LEMMA EffectIs ==
    ASSUME TypeOK, call # NoCall
    PROVE  /\ call \in Calls /\ Stored = Logical(entry0)
           /\ call.kind = "save" =>
                 Atomic!Effect(Running, Stored)
                   = [hard |-> call.hard, base |-> entry0.base, log |-> Range(entry0.log)]
           /\ call.kind = "append" =>
                 Atomic!Effect(Running, Stored)
                   = [hard |-> entry0.hard, base |-> entry0.base,
                      log |-> Range(entry0.log) \cup Range(call.entries)]
           /\ call.kind = "truncate" =>
                 Atomic!Effect(Running, Stored)
                   = [hard |-> entry0.hard, base |-> entry0.base,
                      log |-> {e \in Range(entry0.log) : e.index < call.index}]
           /\ call.kind = "install" =>
                 Atomic!Effect(Running, Stored)
                   = [hard |-> entry0.hard, base |-> call.sink.meta,
                      log |-> IF call.sink.meta \in Range(entry0.log)
                              THEN {e \in Range(entry0.log) : e.index > call.sink.meta.index}
                              ELSE {}]
  <1>1. call \in Calls /\ Stored = Logical(entry0)
    BY DEF TypeOK, Stored
  <1>0. Stored = [hard |-> entry0.hard, base |-> entry0.base, log |-> Range(entry0.log)]
    BY <1>1 DEF Logical
  <1>2. ASSUME call.kind = "save"
        PROVE  Atomic!Effect(Running, Stored)
                 = [hard |-> call.hard, base |-> entry0.base, log |-> Range(entry0.log)]
    <2>1. Running = call
      BY <1>1, <1>2, RunningIs
    <2>2. QED
      BY <1>0, <1>2, <2>1, EffectOf
  <1>3. ASSUME call.kind = "append"
        PROVE  Atomic!Effect(Running, Stored)
                 = [hard |-> entry0.hard, base |-> entry0.base,
                    log |-> Range(entry0.log) \cup Range(call.entries)]
    <2>1. Running.kind = "append" /\ Running.entries = Range(call.entries)
      BY <1>1, <1>3, RunningIs
    <2>2. Atomic!Effect(Running, Stored) = [Stored EXCEPT !.log = @ \cup Running.entries]
      BY <2>1 DEF Atomic!Effect
    <2>3. QED
      BY <1>0, <2>1, <2>2, MoreLog
  <1>4. ASSUME call.kind = "truncate"
        PROVE  Atomic!Effect(Running, Stored)
                 = [hard |-> entry0.hard, base |-> entry0.base,
                    log |-> {e \in Range(entry0.log) : e.index < call.index}]
    <2>1. Running = call
      BY <1>1, <1>4, RunningIs
    <2>2. QED
      BY <1>0, <1>4, <2>1, EffectOf
  <1>5. ASSUME call.kind = "install"
        PROVE  Atomic!Effect(Running, Stored)
                 = [hard |-> entry0.hard, base |-> call.sink.meta,
                    log |-> IF call.sink.meta \in Range(entry0.log)
                            THEN {e \in Range(entry0.log) : e.index > call.sink.meta.index}
                            ELSE {}]
    <2>1. Running.kind = "install" /\ Running.meta = call.sink.meta
      BY <1>1, <1>5, RunningIs
    <2>2. Atomic!Effect(Running, Stored)
            = [hard |-> entry0.hard, base |-> Running.meta,
               log |-> IF Running.meta \in Range(entry0.log)
                       THEN {e \in Range(entry0.log) : e.index > Running.meta.index}
                       ELSE {}]
      BY <1>0, <2>1, EffectOf, SMTT(30)
    <2>3. QED
      BY <2>1, <2>2
  <1>6. QED
    BY <1>1, <1>2, <1>3, <1>4, <1>5

LEMMA MoreStored ==
    ASSUME TypeOK, call # NoCall
    PROVE  \A more : [Stored EXCEPT !.log = @ \cup more]
                       = [hard |-> entry0.hard, base |-> entry0.base,
                          log |-> Range(entry0.log) \cup more]
  <1>1. Stored = [hard |-> entry0.hard, base |-> entry0.base, log |-> Range(entry0.log)]
    BY EffectIs DEF Logical
  <1>2. QED
    BY <1>1, MoreLog

(* A write that stopped part way is an append done for its first entries.  *)
LEMMA PartialOutcome ==
    ASSUME TypeOK, Calling("append"), Run(entry0.base.index, entry0.log \o call.entries),
           NEW p \in Partials(call.entries)
    PROVE  Left([hard |-> entry0.hard, snap |-> entry0.base, ents |-> entry0.log \o p])
  <1> DEFINE es == call.entries
             s == entry0.log
             b == entry0.base.index
             k == [hard |-> entry0.hard, snap |-> entry0.base, ents |-> s \o p]
  <1>1. call \in Calls /\ call # NoCall /\ call.kind = "append" /\ entry0 \in Memory
    BY CallingIs DEF Calling
  <1>2. es \in Seq(Entry) /\ s \in Seq(Entry) /\ b \in 0..MaxIndex /\ b \in Nat /\ entry0.base \in Meta
    BY <1>1, CallIs, MemoryIs
  <1>3. PICK n \in 0..Len(es) : Whole(s \o p) = s \o SubSeq(es, 1, n)
    BY <1>2, PartialIs
  <1> DEFINE q == SubSeq(es, 1, n)
  <1>4. Run(b, Whole(s \o p))
    BY <1>2, PartialRuns
  <1>5. q \in Seq(Entry) /\ Len(q) = n /\ \A i \in 1..n : q[i] = es[i]
    BY <1>2, PrefixIs
  <1>6. Run(b + Len(s), es)
    BY <1>2, RunConcat
  <1> HIDE DEF es, s, b, q
  <1>7. Reconciled(entry0.base, Whole(s \o p)) = s \o q
    <2>1. b \in 0..b /\ s \o q \in Seq(Entry)
      BY <1>2, <1>5, ConcatIs
    <2>2. QED
      BY <1>2, <1>3, <1>4, <2>1, ReconciledIs DEF b, q
  <1>8. Recovered(k) = [hard |-> entry0.hard, base |-> entry0.base, log |-> Range(s) \cup Range(q)]
    BY <1>2, <1>5, <1>7, RangeConcat, Zenon DEF Recovered
  <1>9. Range(q) \in Atomic!Beginnings(Range(es))
    <2>1. Range(q) = {q[i] : i \in 1..Len(q)} /\ Range(es) = {es[i] : i \in 1..Len(es)}
      BY <1>2, <1>5, RangeIs
    <2>2. Len(es) \in Nat /\ n \in Nat /\ Len(s) \in Nat /\ b + Len(s) \in Nat
      BY <1>2
    <2>3. \A i \in 1..n : i \in 1..Len(es)
      BY <2>2
    <2>4. Range(q) \subseteq Range(es)
      BY <1>5, <2>1, <2>3
    <2>5. ASSUME NEW x \in Range(q), NEW y \in Range(es) \ Range(q) PROVE x.index < y.index
      <3>1. PICK i \in 1..n : x = es[i]
        BY <1>5, <2>1
      <3>2. PICK j \in 1..Len(es) : y = es[j]
        BY <2>1
      <3>3. j \notin 1..n
        BY <1>5, <2>1, <3>2
      <3>4. i < j
        BY <2>2, <3>3
      <3>5. x.index = b + Len(s) + i /\ y.index = b + Len(s) + j
        BY <1>6, <2>3, <3>1, <3>2 DEF Run
      <3>6. QED
        BY <2>2, <3>4, <3>5
    <2>6. QED
      BY <2>4, <2>5 DEF Atomic!Beginnings
  <1>10. Recovered(k) \in Atomic!Outcomes(Running, Stored)
    <2>1. Running.kind = "append" /\ Running.entries = Range(es)
      BY <1>1, RunningIs DEF es
    <2>2. Stored = [hard |-> entry0.hard, base |-> entry0.base, log |-> Range(s)]
      BY <1>1, EffectIs DEF Logical, s
    <2>3. Recovered(k) = [Stored EXCEPT !.log = @ \cup Range(q)]
      <3> HIDE DEF k
      <3>1. [Stored EXCEPT !.log = @ \cup Range(q)]
              = [hard |-> entry0.hard, base |-> entry0.base, log |-> Range(s) \cup Range(q)]
        BY <1>1, MoreStored, Zenon DEF s
      <3>2. QED
        BY <1>8, <3>1, Zenon
    <2>4. QED
      BY <1>9, <2>1, <2>3 DEF Atomic!Outcomes
  <1>11. Reaches(b, s \o p)
    <2>1. b \in 0..b
      BY <1>2
    <2>2. QED
      BY <1>4, <2>1 DEF Reaches
  <1>12. QED
    BY <1>1, <1>10, <1>11 DEF Left, b, s

(* Quiet files leave a crash nothing but what the kernel has.              *)
LEMMA QuietCrash ==
    ASSUME TypeOK, Left(kern), kills = 0 => Only(NothingBefore, {kern.ents})
    PROVE  CrashInv
  <1> SUFFICES ASSUME kills = 0, NEW h \in before.hard \cup {kern.hard},
                      NEW s \in before.snap \cup {kern.snap}, NEW f \in before.ents \cup flushed
               PROVE  Left([hard |-> h, snap |-> s, ents |-> f])
    BY DEF CrashInv
  <1>1. h = kern.hard /\ s = kern.snap /\ f = kern.ents
    BY NothingIsTyped DEF Only
  <1>2. kern = [hard |-> h, snap |-> s, ents |-> f]
    BY <1>1, KernIs
  <1>3. QED
    BY <1>2

(* Files that hold the memory a call began with, or its effect.            *)
LEMMA UndoneLeft ==
    ASSUME TypeOK, NEW kind, Calling(kind) PROVE Left(Holding(entry0))
  <1>1. entry0 \in Memory /\ Run(entry0.base.index, entry0.log) /\ call # NoCall
    BY CallingIs DEF Calling
  <1>2. Stored = Logical(entry0)
    BY <1>1, EffectIs
  <1>3. QED
    BY <1>1, <1>2, HoldingIs, UndoneOrDone DEF Left

LEMMA DoneLeft ==
    ASSUME TypeOK, call # NoCall, NEW k, Reaches(k.snap.index, k.ents),
           Recovered(k) = Atomic!Effect(Running, Stored)
    PROVE  Left(k)
  BY UndoneOrDone DEF Left

(* The effect of an installation, and of a truncation, in memory.          *)
LEMMA InstalledEffect ==
    ASSUME TypeOK, Calling("install"), Newer
    PROVE  Logical(Installed) = Atomic!Effect(Running, Stored)
  <1>1. /\ call.sink.meta \in Meta /\ entry0 \in Memory
        /\ Installed.hard = entry0.hard /\ Installed.base = call.sink.meta
        /\ Installed.log = Above(entry0.base.index, entry0.log, call.sink.meta)
        /\ Run(entry0.base.index, entry0.log) /\ entry0.log \in Seq(Entry)
    BY InstallingIs
  <1>2. entry0.base.index \in Nat /\ entry0.base.index < call.sink.meta.index
    BY <1>1, MemoryIs, MetaFacts DEF Newer
  <1>3. Range(Installed.log) =
          IF call.sink.meta \in Range(entry0.log)
          THEN {e \in Range(entry0.log) : e.index > call.sink.meta.index} ELSE {}
    BY <1>1, <1>2, AboveIs
  <1>4. Atomic!Effect(Running, Stored)
          = [hard |-> entry0.hard, base |-> call.sink.meta,
             log |-> IF call.sink.meta \in Range(entry0.log)
                     THEN {e \in Range(entry0.log) : e.index > call.sink.meta.index}
                     ELSE {}]
    BY EffectIs DEF Calling
  <1>5. QED
    BY <1>1, <1>3, <1>4, Zenon DEF Logical

LEMMA TruncatedEffect ==
    ASSUME TypeOK, Calling("truncate"), mem = Truncated
    PROVE  Logical(mem) = Atomic!Effect(Running, Stored)
  <1>1. /\ entry0 \in Memory /\ Run(entry0.base.index, entry0.log) /\ call.index \in 1..MaxIndex
        /\ mem.hard = entry0.hard /\ mem.base = entry0.base
        /\ mem.log = SubSeq(entry0.log, 1, Keep(entry0, call.index))
    BY TruncatingIs DEF Good
  <1>2. Range(mem.log) = {e \in Range(entry0.log) : e.index < call.index}
    BY <1>1, KeepIs
  <1>3. Atomic!Effect(Running, Stored)
          = [hard |-> entry0.hard, base |-> entry0.base,
             log |-> {e \in Range(entry0.log) : e.index < call.index}]
    BY EffectIs DEF Calling
  <1>4. QED
    BY <1>1, <1>2, <1>3, Zenon DEF Logical

LEMMA SavedEffect ==
    ASSUME TypeOK, Calling("save")
    PROVE  LET k == [Holding(entry0) EXCEPT !.hard = call.hard]
           IN  /\ Reaches(k.snap.index, k.ents)
               /\ Recovered(k) = Atomic!Effect(Running, Stored)
               /\ k = [hard |-> call.hard, snap |-> entry0.base, ents |-> entry0.log]
  <1> DEFINE k == [Holding(entry0) EXCEPT !.hard = call.hard]
  <1>1. k = [hard |-> call.hard, snap |-> entry0.base, ents |-> entry0.log]
    BY DEF Holding
  <1>2. entry0.base \in Meta /\ entry0.log \in Seq(Entry) /\ Run(entry0.base.index, entry0.log)
    BY CallingIs, MemoryIs
  <1>3. /\ Reaches(entry0.base.index, entry0.log)
        /\ Recovered([hard |-> call.hard, snap |-> entry0.base, ents |-> entry0.log])
             = [hard |-> call.hard, base |-> entry0.base, log |-> Range(entry0.log)]
    BY <1>2, RecoveredIs
  <1>4. Atomic!Effect(Running, Stored)
          = [hard |-> call.hard, base |-> entry0.base, log |-> Range(entry0.log)]
    BY EffectIs DEF Calling
  <1> HIDE DEF k
  <1>5. k.snap = entry0.base /\ k.ents = entry0.log
    BY <1>1
  <1>6. QED
    BY <1>1, <1>3, <1>4, <1>5 DEF k

(* The new snapshot over the old entries is an installation done.          *)
LEMMA InstalledLeft ==
    ASSUME TypeOK, Calling("install"), Newer
    PROVE  LET k == [hard |-> entry0.hard, snap |-> call.sink.meta, ents |-> entry0.log]
           IN  /\ Reaches(k.snap.index, k.ents)
               /\ Recovered(k) = Atomic!Effect(Running, Stored)
  <1> DEFINE k == [hard |-> entry0.hard, snap |-> call.sink.meta, ents |-> entry0.log]
  <1>1. /\ Installed.hard = entry0.hard /\ Installed.base = call.sink.meta
        /\ Installed.log = Reconciled(call.sink.meta, entry0.log)
        /\ entry0.base.index \in 0..call.sink.meta.index
        /\ Run(entry0.base.index, entry0.log) /\ entry0.log \in Seq(Entry)
    BY InstallingIs
  <1>2. Whole(entry0.log) = entry0.log
    BY <1>1, EntriesAreAFile
  <1>3. Reaches(call.sink.meta.index, entry0.log)
    BY <1>1, <1>2 DEF Reaches
  <1>4. Recovered(k) = Logical(Installed)
    BY <1>1, <1>2 DEF Recovered, Logical
  <1>5. QED
    BY <1>3, <1>4, InstalledEffect

LEMMA CrashLeaves ==
    ASSUME FilesInv, DurableInv PROVE CrashInv
  <1>0. TypeOK
    BY DEF FilesInv
  <1> DEFINE Quiet == kills = 0 => Only(NothingBefore, {kern.ents})
  <1>1. CASE pc = "idle"
    <2>1. AtIdle /\ Quiet
      BY <1>1 DEF FilesInv, KernInv, DurableInv
    <2>2. mem \in Memory /\ Run(mem.base.index, mem.log) /\ Stored = Logical(mem)
      BY <1>0, <1>1, <2>1 DEF TypeOK, AtIdle, Good, Stored
    <2>3. Left(kern)
      BY <2>1, <2>2, HoldingIs DEF AtIdle, Left
    <2>4. QED
      BY <1>0, <2>1, <2>3, QuietCrash
  <1>2. CASE pc \in {"hardRename", "write", "setLen", "snapRename"}
    <2>1. Quiet
      BY <1>2 DEF DurableInv
    <2>2. kern = Holding(entry0) /\ \E kind \in {"save", "append", "truncate", "install"} : Calling(kind)
      BY <1>2 DEF FilesInv, KernInv, AtHardRename, AtWrite, AtSetLen, AtSnapRename
    <2>3. Left(kern)
      BY <1>0, <2>2, UndoneLeft
    <2>4. QED
      BY <1>0, <2>1, <2>3, QuietCrash
  <1>3. CASE pc = "hardDir"
    <2>1. AtHardDir
      BY <1>3 DEF FilesInv, KernInv
    <2>2. /\ Calling("save") /\ mem = entry0 /\ call # NoCall
          /\ kern = [Holding(entry0) EXCEPT !.hard = call.hard]
      BY <2>1 DEF AtHardDir, Calling
    <2>3. /\ Left(kern)
          /\ kern = [hard |-> call.hard, snap |-> entry0.base, ents |-> entry0.log]
      BY <1>0, <2>2, SavedEffect, DoneLeft
    <2>4. Left([hard |-> entry0.hard, snap |-> entry0.base, ents |-> entry0.log])
      BY <1>0, <2>2, UndoneLeft DEF Holding
    <2>5. ASSUME kills = 0, NEW h \in before.hard \cup {kern.hard},
                 NEW s \in before.snap \cup {kern.snap}, NEW f \in before.ents \cup flushed
          PROVE  Left([hard |-> h, snap |-> s, ents |-> f])
      <3>1. Only([NothingBefore EXCEPT !.hard = {mem.hard}], {kern.ents})
        BY <1>3, <2>5 DEF DurableInv
      <3>2. /\ before.hard = {entry0.hard} /\ before.snap = {} /\ before.ents = {}
            /\ flushed \subseteq {kern.ents}
        BY <2>2, <3>1 DEF Only, NothingBefore
      <3>3. (h = entry0.hard \/ h = call.hard) /\ s = entry0.base /\ f = entry0.log
        BY <2>3, <3>2
      <3>4. QED
        BY <2>3, <2>4, <3>3
    <2>6. QED
      BY <2>3, <2>5 DEF CrashInv
  <1>4. CASE pc = "writeSync"
    <2>1. AtWriteSync
      BY <1>4 DEF FilesInv, KernInv
    <2>2. /\ Calling("append") /\ mem = entry0 /\ Run(entry0.base.index, entry0.log \o call.entries)
          /\ kern = [hard |-> entry0.hard, snap |-> entry0.base, ents |-> entry0.log \o call.entries]
      BY <2>1 DEF AtWriteSync, Holding
    <2>3. call.entries \in Partials(call.entries)
      <3>1. call.entries \in Seq(Entry)
        BY <1>0, <2>2, CallingIs, CallIs
      <3>2. Len(call.entries) \in 0..Len(call.entries)
        BY <3>1
      <3>3. call.entries = SubSeq(call.entries, 1, Len(call.entries))
        BY <3>1, WholePrefix
      <3>4. QED
        BY <3>2, <3>3 DEF Partials
    <2>4. \A p \in Partials(call.entries) :
             Left([hard |-> entry0.hard, snap |-> entry0.base, ents |-> entry0.log \o p])
      BY <1>0, <2>2, PartialOutcome
    <2>5. Left(kern)
      BY <2>2, <2>3, <2>4
    <2>6. ASSUME kills = 0, NEW h \in before.hard \cup {kern.hard},
                 NEW s \in before.snap \cup {kern.snap}, NEW f \in before.ents \cup flushed
          PROVE  Left([hard |-> h, snap |-> s, ents |-> f])
      <3>1. Only(NothingBefore, {mem.log \o p : p \in Partials(call.entries)})
        BY <1>4, <2>6 DEF DurableInv
      <3>2. f \in {entry0.log \o p : p \in Partials(call.entries)}
        BY <2>2, <3>1, NothingIsTyped DEF Only
      <3>3. h = entry0.hard /\ s = entry0.base
        BY <2>2, <3>1, NothingIsTyped DEF Only
      <3>4. QED
        BY <2>4, <3>2, <3>3
    <2>7. QED
      BY <2>5, <2>6 DEF CrashInv
  <1>5. CASE pc = "setLenSync"
    <2>1. AtSetLenSync
      BY <1>5 DEF FilesInv, KernInv
    <2>2. Calling("truncate") /\ mem = Truncated /\ kern = Holding(mem) /\ call # NoCall
      BY <2>1 DEF AtSetLenSync, Calling
    <2>3. mem \in Memory /\ Run(mem.base.index, mem.log) /\ mem.hard = entry0.hard /\ mem.base = entry0.base
      BY <1>0, <2>2, TruncatingIs DEF TypeOK
    <2>4. Left(kern)
      BY <1>0, <2>2, <2>3, HoldingIs, TruncatedEffect, DoneLeft
    <2>5. Left([hard |-> entry0.hard, snap |-> entry0.base, ents |-> entry0.log])
      BY <1>0, <2>2, UndoneLeft DEF Holding
    <2>6. kern = [hard |-> entry0.hard, snap |-> entry0.base, ents |-> kern.ents]
      BY <2>2, <2>3 DEF Holding
    <2>7. ASSUME kills = 0, NEW h \in before.hard \cup {kern.hard},
                 NEW s \in before.snap \cup {kern.snap}, NEW f \in before.ents \cup flushed
          PROVE  Left([hard |-> h, snap |-> s, ents |-> f])
      <3>1. Only(NothingBefore, {entry0.log, kern.ents})
        BY <1>5, <2>7 DEF DurableInv
      <3>2. f = entry0.log \/ f = kern.ents
        BY <3>1, NothingIsTyped DEF Only
      <3>3. kern.hard = entry0.hard /\ kern.snap = entry0.base
        BY <2>6
      <3>4. h = entry0.hard /\ s = entry0.base
        BY <3>1, <3>3, NothingIsTyped DEF Only
      <3>5. QED
        BY <2>4, <2>5, <2>6, <3>2, <3>4
    <2>8. QED
      BY <2>4, <2>7 DEF CrashInv
  <1>6. CASE pc = "snapDir"
    <2>1. AtSnapDir
      BY <1>6 DEF FilesInv, KernInv
    <2>2. /\ Calling("install") /\ mem = entry0 /\ Newer /\ call # NoCall
          /\ kern = [hard |-> entry0.hard, snap |-> call.sink.meta, ents |-> entry0.log]
      BY <2>1 DEF AtSnapDir, Calling, Holding
    <2>3. Left(kern)
      BY <1>0, <2>2, InstalledLeft, DoneLeft
    <2>4. Left([hard |-> entry0.hard, snap |-> entry0.base, ents |-> entry0.log])
      BY <1>0, <2>2, UndoneLeft DEF Holding
    <2>5. ASSUME kills = 0, NEW h \in before.hard \cup {kern.hard},
                 NEW s \in before.snap \cup {kern.snap}, NEW f \in before.ents \cup flushed
          PROVE  Left([hard |-> h, snap |-> s, ents |-> f])
      <3>1. Only([NothingBefore EXCEPT !.snap = {mem.base}], {kern.ents})
        BY <1>6, <2>5 DEF DurableInv
      <3>2. /\ before.hard = {} /\ before.snap = {entry0.base} /\ before.ents = {}
            /\ flushed \subseteq {kern.ents}
        BY <2>2, <3>1 DEF Only, NothingBefore
      <3>3. h = entry0.hard /\ (s = entry0.base \/ s = call.sink.meta) /\ f = entry0.log
        BY <2>2, <3>2
      <3>4. QED
        BY <2>2, <2>3, <2>4, <3>3
    <2>6. QED
      BY <2>3, <2>5 DEF CrashInv
  <1>7. CASE pc = "rewrite"
    <2>1. AtRewrite /\ Quiet
      BY <1>7 DEF FilesInv, KernInv, DurableInv
    <2>2. Reaches(kern.snap.index, kern.ents)
      BY <2>1, EntriesAreAFile DEF AtRewrite, Read, Reaches
    <2>3. call = NoCall => Left(kern)
      BY <1>7, <2>2 DEF Left, Stored
    <2>4. call # NoCall => Left(kern)
      <3> SUFFICES ASSUME call # NoCall PROVE Left(kern)
        OBVIOUS
      <3>1. Calling("install") /\ mem = Installed /\ Newer /\ kern.ents = entry0.log
        BY <2>1 DEF AtRewrite
      <3>2. mem.hard = kern.hard /\ mem.base = kern.snap
        BY <2>1 DEF AtRewrite, Read
      <3>3. mem.hard = entry0.hard /\ mem.base = call.sink.meta
        BY <1>0, <3>1, InstallingIs
      <3>4. kern = [hard |-> entry0.hard, snap |-> call.sink.meta, ents |-> entry0.log]
        BY <1>0, <3>1, <3>2, <3>3, KernIs
      <3>5. QED
        BY <1>0, <3>1, <3>4, InstalledLeft, DoneLeft
    <2>5. QED
      BY <1>0, <2>1, <2>3, <2>4, QuietCrash
  <1>8. CASE pc = "rewriteDir"
    <2>1. AtRewriteDir /\ mem \in Memory
      BY <1>0, <1>8 DEF FilesInv, KernInv, TypeOK
    <2>2. kern = Holding(mem) /\ Run(mem.base.index, mem.log)
      BY <2>1 DEF AtRewriteDir
    <2>3. /\ Reaches(mem.base.index, mem.log) /\ Recovered(kern) = Logical(mem)
          /\ kern.hard = mem.hard /\ kern.snap = mem.base /\ kern.ents = mem.log
      BY <2>1, <2>2, HoldingIs
    <2>4. /\ call = NoCall => Logical(mem) = Stored
          /\ call # NoCall => Logical(mem) \in Atomic!Outcomes(Running, Stored)
      <3>1. call = NoCall => Logical(mem) = Stored
        BY <1>8, <2>3 DEF Stored
      <3>2. call # NoCall => Logical(mem) = Atomic!Effect(Running, Stored)
        BY <1>0, <2>1, InstalledEffect DEF AtRewriteDir
      <3>3. QED
        BY <3>1, <3>2, UndoneOrDone
    <2>5. Left(kern)
      BY <2>3, <2>4 DEF Left
    <2>6. ASSUME kills = 0, NEW h \in before.hard \cup {kern.hard},
                 NEW s \in before.snap \cup {kern.snap}, NEW f \in before.ents \cup flushed
          PROVE  Left([hard |-> h, snap |-> s, ents |-> f])
      <3>1. /\ before.hard = {} /\ before.snap = {} /\ flushed \subseteq {kern.ents}
            /\ \A g \in before.ents :
                  Reaches(mem.base.index, g) /\ Reconciled(mem.base, Whole(g)) = mem.log
        BY <1>8, <2>6 DEF DurableInv
      <3>2. h = mem.hard /\ s = mem.base
        BY <2>3, <3>1
      <3>3. CASE f \in flushed
        <4>1. kern = [hard |-> h, snap |-> s, ents |-> f]
          BY <1>0, <2>3, <3>1, <3>2, <3>3, KernIs
        <4>2. QED
          BY <2>5, <4>1
      <3>4. CASE f \in before.ents
        <4>1. Reaches(mem.base.index, f) /\ Reconciled(mem.base, Whole(f)) = mem.log
          BY <3>1, <3>4
        <4>2. Recovered([hard |-> h, snap |-> s, ents |-> f]) = Logical(mem)
          BY <3>2, <4>1 DEF Recovered, Logical
        <4>3. QED
          BY <2>4, <3>2, <4>1, <4>2 DEF Left
      <3>5. QED
        BY <3>3, <3>4
    <2>7. QED
      BY <2>5, <2>6 DEF CrashInv
  <1>9. CASE pc \in {"down", "cut", "reconcile"}
    <2>1. call = NoCall /\ Reaches(kern.snap.index, kern.ents)
      BY <1>9 DEF FilesInv, KernInv, DurableInv, AtDown, AtCut, AtReconcile
    <2>2. Stored = Recovered(kern)
      BY <1>9, <2>1 DEF Stored
    <2>3. Left(kern)
      BY <2>1, <2>2 DEF Left
    <2>4. CASE pc # "cut"
      <3>1. Quiet
        BY <1>9, <2>4 DEF DurableInv
      <3>2. QED
        BY <1>0, <2>3, <3>1, QuietCrash
    <2>5. CASE pc = "cut"
      <3>1. kern.ents \in Seq(Entry)
        BY <2>5 DEF FilesInv, KernInv, AtCut, Read
      <3>2. Whole(kern.ents) = kern.ents
        BY <3>1, EntriesAreAFile
      <3>3. ASSUME kills = 0, NEW h \in before.hard \cup {kern.hard},
                   NEW s \in before.snap \cup {kern.snap}, NEW f \in before.ents \cup flushed
            PROVE  Left([hard |-> h, snap |-> s, ents |-> f])
        <4>1. before = NothingBefore /\ \A g \in flushed : Whole(g) = kern.ents
          BY <2>5, <3>3 DEF DurableInv
        <4>2. h = kern.hard /\ s = kern.snap /\ Whole(f) = Whole(kern.ents)
          BY <3>2, <4>1, NothingIsTyped
        <4>3. Recovered([hard |-> h, snap |-> s, ents |-> f]) = Recovered(kern)
          BY <4>2 DEF Recovered
        <4>4. Reaches(s.index, f)
          BY <2>1, <4>2 DEF Reaches
        <4>5. QED
          BY <2>1, <2>2, <4>3, <4>4 DEF Left
      <3>4. QED
        BY <2>3, <3>3 DEF CrashInv
    <2>6. QED
      BY <2>4, <2>5
  <1>10. pc # "corrupt"
    BY DEF DurableInv
  <1>11. QED
    BY <1>0, <1>1, <1>2, <1>3, <1>4, <1>5, <1>6, <1>7, <1>8, <1>9, <1>10 DEF TypeOK, Opening

-----------------------------------------------------------------------------
(* DurableInv is inductive when the power does not fail on top of what a   *)
(* killed process left unsynced.                                           *)

(* Steps that begin a call, and those on part files, leave the files alone.*)
LEMMA BeginKeepsDurable ==
    ASSUME DurableInv, pc = "idle", UNCHANGED <<kern, before, flushed, kills>>,
           pc' \in {"idle", "hardRename", "write", "setLen", "snapRename"}
    PROVE  DurableInv'
  BY DEF DurableInv, Only

(* Steps that end a call leave nothing unsynced.                           *)
LEMMA EndKeepsDurable ==
    ASSUME pc' \in {"idle", "rewrite"},
           kills' = 0 => before' = NothingBefore /\ flushed' \subseteq {kern'.ents}
    PROVE  DurableInv'
  BY DEF DurableInv, Only

LEMMA SaveKeepsDurable ==
    ASSUME FilesInv, DurableInv, RenameHard \/ SyncHard PROVE DurableInv'
  <1>0. TypeOK
    BY DEF FilesInv
  <1>1. CASE RenameHard
    <2>1. AtHardRename
      BY <1>1 DEF FilesInv, KernInv, RenameHard
    <2>2. kern.hard = mem.hard /\ kern'.ents = kern.ents
      BY <1>0, <1>1, <2>1, KernIs DEF AtHardRename, Holding, RenameHard
    <2>3. ASSUME kills' = 0
          PROVE  before' = [NothingBefore EXCEPT !.hard = {mem'.hard}] /\ flushed' \subseteq {kern'.ents}
      <3>1. before = NothingBefore /\ flushed \subseteq {kern.ents}
        BY <1>1, <2>3 DEF DurableInv, Only, RenameHard
      <3>2. QED
        BY <1>1, <2>2, <3>1 DEF RenameHard, NothingBefore
    <2>4. pc' = "hardDir"
      BY <1>1 DEF RenameHard
    <2>5. QED
      BY <2>3, <2>4 DEF DurableInv, Only
  <1>2. CASE SyncHard
    <2>1. kills' = 0 => flushed' \subseteq {kern'.ents}
      BY <1>2 DEF DurableInv, Only, SyncHard
    <2>2. QED
      BY <1>2, <2>1, EndKeepsDurable DEF SyncHard, SyncDir, EndCall
  <1>3. QED
    BY <1>1, <1>2

LEMMA AppendKeepsDurable ==
    ASSUME FilesInv, DurableInv, WriteEntries \/ SyncEntries PROVE DurableInv'
  <1>0. TypeOK
    BY DEF FilesInv
  <1>1. CASE WriteEntries
    <2>1. AtWrite
      BY <1>1 DEF FilesInv, KernInv, WriteEntries
    <2>2. /\ kern.ents = mem.log /\ mem.log \in Seq(Entry) /\ call.entries \in Seq(Entry)
          /\ \A p : WriteAt(mem.end, p) = mem.log \o p
      BY <1>0, <2>1, WriteIs
    <2>3. <<>> \in Partials(call.entries) /\ mem.log \o <<>> = mem.log
      <3>1. 0 \in 0..Len(call.entries) /\ SubSeq(call.entries, 1, 0) = <<>>
        BY <2>2
      <3>2. <<>> \in Partials(call.entries)
        BY <3>1 DEF Partials
      <3>3. mem.log \o <<>> = mem.log
        <4>1. <<>> \in Seq(Entry) /\ Len(<<>>) = 0
          OBVIOUS
        <4>2. /\ mem.log \o <<>> \in Seq(Entry) /\ Len(mem.log \o <<>>) = Len(mem.log) + Len(<<>>)
              /\ \A i \in 1..Len(mem.log) : (mem.log \o <<>>)[i] = mem.log[i]
          BY <2>2, <4>1, ConcatIs
        <4>3. Len(mem.log \o <<>>) = Len(mem.log)
          BY <2>2, <4>1, <4>2
        <4>4. QED
          BY <2>2, <4>2, <4>3, SameSeq
      <3>4. QED
        BY <3>2, <3>3
    <2>4. ASSUME kills' = 0
          PROVE  before' = NothingBefore /\ flushed' \subseteq {mem'.log \o p : p \in Partials(call'.entries)}
      <3>1. before = NothingBefore /\ flushed \subseteq {mem.log}
        BY <1>1, <2>2, <2>4 DEF DurableInv, Only, WriteEntries
      <3>2. flushed' = flushed \cup {mem.log \o p : p \in Partials(call.entries)}
        BY <1>1, <2>2 DEF WriteEntries
      <3>3. mem.log \in {mem.log \o p : p \in Partials(call.entries)}
        BY <2>3
      <3>4. QED
        BY <1>1, <3>1, <3>2, <3>3 DEF WriteEntries
    <2>5. pc' = "writeSync"
      BY <1>1 DEF WriteEntries
    <2>6. QED
      BY <2>4, <2>5 DEF DurableInv, Only
  <1>2. CASE SyncEntries
    <2>1. kills' = 0 => before' = NothingBefore
      BY <1>2 DEF DurableInv, Only, SyncEntries
    <2>2. QED
      BY <1>2, <2>1, EndKeepsDurable DEF SyncEntries, EndCall
  <1>3. QED
    BY <1>1, <1>2

LEMMA TruncateKeepsDurable ==
    ASSUME FilesInv, DurableInv, SetLen \/ SyncLength PROVE DurableInv'
  <1>1. CASE SetLen
    <2>1. AtSetLen
      BY <1>1 DEF FilesInv, KernInv, SetLen
    <2>2. kern.ents = entry0.log
      BY <2>1 DEF AtSetLen, Holding
    <2>3. ASSUME kills' = 0
          PROVE  before' = NothingBefore /\ flushed' \subseteq {entry0'.log, kern'.ents}
      <3>1. before = NothingBefore /\ flushed \subseteq {entry0.log}
        BY <1>1, <2>2, <2>3 DEF DurableInv, Only, SetLen
      <3>2. QED
        BY <1>1, <3>1 DEF SetLen
    <2>4. pc' = "setLenSync"
      BY <1>1 DEF SetLen
    <2>5. QED
      BY <2>3, <2>4 DEF DurableInv, Only
  <1>2. CASE SyncLength
    <2>1. kills' = 0 => before' = NothingBefore
      BY <1>2 DEF DurableInv, Only, SyncLength
    <2>2. QED
      BY <1>2, <2>1, EndKeepsDurable DEF SyncLength, EndCall
  <1>3. QED
    BY <1>1, <1>2

LEMMA InstallKeepsDurable ==
    ASSUME FilesInv, DurableInv, RenameSnapshot \/ SyncSnapshot PROVE DurableInv'
  <1>0. TypeOK
    BY DEF FilesInv
  <1>1. CASE RenameSnapshot
    <2>1. AtSnapRename
      BY <1>1 DEF FilesInv, KernInv, RenameSnapshot
    <2>2. kern.snap = mem.base /\ kern'.ents = kern.ents
      BY <1>0, <1>1, <2>1, KernIs DEF AtSnapRename, Holding, RenameSnapshot
    <2>3. ASSUME kills' = 0
          PROVE  before' = [NothingBefore EXCEPT !.snap = {mem'.base}] /\ flushed' \subseteq {kern'.ents}
      <3>1. before = NothingBefore /\ flushed \subseteq {kern.ents}
        BY <1>1, <2>3 DEF DurableInv, Only, RenameSnapshot
      <3>2. QED
        BY <1>1, <2>2, <3>1 DEF RenameSnapshot, NothingBefore
    <2>4. pc' = "snapDir"
      BY <1>1 DEF RenameSnapshot
    <2>5. QED
      BY <2>3, <2>4 DEF DurableInv, Only
  <1>2. CASE SyncSnapshot
    <2>1. kills' = 0 => flushed' \subseteq {kern'.ents}
      BY <1>2 DEF DurableInv, Only, SyncSnapshot
    <2>2. QED
      BY <1>2, <2>1, EndKeepsDurable DEF SyncSnapshot, SyncDir
  <1>3. QED
    BY <1>1, <1>2

LEMMA RewriteKeepsDurable ==
    ASSUME FilesInv, DurableInv, RewriteEntries \/ SyncRewrite PROVE DurableInv'
  <1>0. TypeOK
    BY DEF FilesInv
  <1>1. CASE RewriteEntries
    <2>1. AtRewrite
      BY <1>1 DEF FilesInv, KernInv, RewriteEntries
    <2>2. Whole(kern.ents) = kern.ents /\ Reconciled(mem.base, kern.ents) = mem.log
      BY <2>1, EntriesAreAFile DEF AtRewrite, Read
    <2>3. Reaches(mem.base.index, kern.ents)
      BY <2>1, <2>2 DEF AtRewrite, Reaches
    <2>4. /\ kern' = [hard |-> kern.hard, snap |-> kern.snap, ents |-> mem.log]
          /\ before' = [hard |-> before.hard, snap |-> before.snap, ents |-> before.ents \cup flushed]
          /\ flushed' = {mem.log} /\ mem' = mem /\ kills' = kills /\ pc' = "rewriteDir"
      BY <1>0, <1>1, KernIs DEF RewriteEntries
    <2>5. ASSUME kills' = 0
          PROVE  /\ before'.hard = {} /\ before'.snap = {} /\ flushed' \subseteq {kern'.ents}
                 /\ \A f \in before'.ents : /\ Reaches(mem'.base.index, f)
                                            /\ Reconciled(mem'.base, Whole(f)) = mem'.log
      <3>1. before = NothingBefore /\ flushed \subseteq {kern.ents}
        BY <1>1, <2>4, <2>5 DEF DurableInv, Only, RewriteEntries
      <3>2. before'.hard = {} /\ before'.snap = {} /\ before'.ents \subseteq {kern.ents} /\ kern'.ents = mem.log
        BY <2>4, <3>1, NothingIsTyped
      <3>3. QED
        BY <2>2, <2>3, <2>4, <3>2
    <2>6. QED
      BY <2>4, <2>5 DEF DurableInv
  <1>2. CASE SyncRewrite
    <2>1. kills' = 0 => flushed' \subseteq {kern'.ents}
      BY <1>2 DEF DurableInv, SyncRewrite
    <2>2. QED
      BY <1>2, <2>1, EndKeepsDurable DEF SyncRewrite, SyncDir, EndCall
  <1>3. QED
    BY <1>1, <1>2

LEMMA OpenKeepsDurable ==
    ASSUME FilesInv, DurableInv, Open \/ SyncCut \/ Reconcile PROVE DurableInv'
  <1>0. TypeOK /\ kern.ents \in File /\ kern.snap \in Meta
    BY KernIs DEF FilesInv
  <1>1. CASE Open
    <2> DEFINE w == Whole(kern.ents)
    <2>1. /\ kern' = [hard |-> kern.hard, snap |-> kern.snap, ents |-> w]
          /\ flushed' = flushed \cup {w} /\ before' = before /\ kills' = kills
          /\ pc = "down" /\ pc' \in {"cut", "reconcile"}
          /\ pc' = "reconcile" => w = kern.ents
      BY <1>0, <1>1, KernIs DEF Open
    <2>2. Whole(w) = w
      BY <1>0, WholeOfWhole
    <2>3. kern'.snap = kern.snap /\ kern'.ents = w
      BY <2>1
    <2>4. Reaches(kern'.snap.index, kern'.ents)
      BY <2>1, <2>2, <2>3 DEF DurableInv, Reaches
    <2>5. kills' = 0 => before' = NothingBefore /\ flushed' \subseteq {kern.ents, w}
      BY <2>1 DEF DurableInv, Only
    <2> HIDE DEF w
    <2>6. kills' = 0 /\ pc' = "reconcile" => Only(NothingBefore, {kern.ents})'
      BY <2>1, <2>3, <2>5 DEF Only
    <2>7. kills' = 0 /\ pc' = "cut" => before' = NothingBefore /\ \A f \in flushed' : Whole(f) = kern'.ents
      BY <2>2, <2>3, <2>5 DEF w
    <2>8. QED
      BY <2>1, <2>4, <2>6, <2>7 DEF DurableInv
  <1>2. CASE SyncCut
    <2>1. /\ kern' = kern /\ before' = before /\ flushed' = {kern.ents} /\ kills' = kills
          /\ pc = "cut" /\ pc' = "reconcile"
      BY <1>2 DEF SyncCut
    <2>2. QED
      BY <2>1 DEF DurableInv, Only
  <1>3. CASE Reconcile
    <2>1. /\ kern' = kern /\ before' = before /\ flushed' = flushed /\ kills' = kills
          /\ pc = "reconcile"
      BY <1>3 DEF Reconcile, files
    <2>2. kern.ents \in Seq(Entry) /\ mem.base = kern.snap
      BY <2>1 DEF FilesInv, KernInv, AtReconcile, Read
    <2>3. Whole(kern.ents) = kern.ents
      BY <2>2, EntriesAreAFile
    <2>4. PICK b \in 0..kern.snap.index : Run(b, kern.ents)
      BY <2>1, <2>3 DEF DurableInv, Reaches
    <2>5. ~Hole(mem.base, kern.ents)
      BY <1>0, <2>2, <2>4, ReconciledIs
    <2>6. pc' \in {"idle", "rewrite"}
      BY <1>3, <2>5, Zenon DEF Reconcile
    <2>7. kills' = 0 => before' = NothingBefore /\ flushed' \subseteq {kern'.ents}
      BY <2>1 DEF DurableInv, Only
    <2>8. QED
      BY <2>6, <2>7, EndKeepsDurable
  <1>4. QED
    BY <1>1, <1>2, <1>3

LEMMA CrashKeepsDurable ==
    ASSUME ~PowerAfterKill, FilesInv, DurableInv, Kill \/ FailWrite \/ PowerCut PROVE DurableInv'
  <1>0. TypeOK /\ CrashInv
    BY CrashLeaves DEF FilesInv
  <1>1. CASE Kill
    <2>1. /\ kern' = kern /\ before' = before /\ flushed' = flushed /\ pc' = "down"
          /\ (AllSynced /\ kills' = kills) \/ kills' = kills + 1
      BY <1>1 DEF Kill, Stop, files
    <2>2. kills \in Nat
      BY <1>0, BoundsAssumption DEF TypeOK
    <2>3. kills' = 0 => AllSynced
      BY <2>1, <2>2
    <2>4. Reaches(kern.snap.index, kern.ents)
      BY <1>0 DEF CrashInv, Left
    <2>5. QED
      BY <2>1, <2>3, <2>4 DEF DurableInv, Only, AllSynced
  <1>2. CASE FailWrite
    <2>1. AtWrite /\ kills \in Nat /\ kills' = kills + 1 /\ pc' = "down"
      BY <1>0, <1>2, BoundsAssumption DEF FilesInv, KernInv, FailWrite, TypeOK, Stop
    <2>2. PICK p \in Partials(call.entries) : kern' = [kern EXCEPT !.ents = WriteAt(mem.end, p)]
      BY <1>2 DEF FailWrite
    <2>3. mem.base.index \in 0..MaxIndex /\ Run(mem.base.index, Whole(mem.log \o p)) /\ WriteAt(mem.end, p) = mem.log \o p
      BY <1>0, <2>1, WriteIs
    <2>4. kern'.snap = mem.base /\ kern'.ents = mem.log \o p
      BY <2>1, <2>2, <2>3 DEF AtWrite, Holding
    <2>5. mem.base.index \in 0..mem.base.index
      BY <2>3
    <2>6. Reaches(kern'.snap.index, kern'.ents)
      BY <2>3, <2>4, <2>5 DEF Reaches
    <2>7. kills' # 0
      BY <2>1
    <2>8. QED
      BY <2>1, <2>6, <2>7 DEF DurableInv
  <1>3. CASE PowerCut
    <2>1. kills = 0 /\ pc' = "down" /\ before' = NothingBefore
      BY <1>3 DEF PowerCut, Stop, SyncDir
    <2>2. PICK h \in before.hard \cup {kern.hard}, s \in before.snap \cup {kern.snap},
               es \in before.ents \cup flushed :
            /\ kern' = [hard |-> h, snap |-> s, ents |-> es]
            /\ flushed' = {es}
      BY <1>3 DEF PowerCut
    <2>3. Left([hard |-> h, snap |-> s, ents |-> es])
      BY <1>0, <2>1 DEF CrashInv
    <2>4. Reaches(kern'.snap.index, kern'.ents) /\ flushed' \subseteq {kern'.ents}
      BY <2>2, <2>3 DEF Left
    <2>5. QED
      BY <2>1, <2>4 DEF DurableInv, Only
  <1>4. QED
    BY <1>1, <1>2, <1>3

LEMMA DurableStep ==
    ASSUME ~PowerAfterKill, FilesInv, DurableInv, [Next]_vars PROVE DurableInv'
  <1>1. CASE UNCHANGED vars
    BY <1>1 DEF vars, DurableInv, Only
  <1>2. ASSUME NEW h \in HardStates, SaveHardState(h) PROVE DurableInv'
    BY <1>2, BeginKeepsDurable DEF SaveHardState, BeginCall, files
  <1>3. ASSUME NEW es \in Batches, AppendEntries(es) PROVE DurableInv'
    BY <1>3, BeginKeepsDurable DEF AppendEntries, BeginCall, files
  <1>4. ASSUME NEW i \in 1..MaxIndex, TruncateFrom(i) PROVE DurableInv'
    BY <1>4, BeginKeepsDurable DEF TruncateFrom, BeginCall, files
  <1>5. ASSUME NEW m \in Entry, NewSnapshot(m) PROVE DurableInv'
    BY <1>5, BeginKeepsDurable DEF NewSnapshot, files
  <1>6. ASSUME NEW k \in sinks, DropSnapshot(k) \/ InstallSnapshot(k) PROVE DurableInv'
    BY <1>6, BeginKeepsDurable DEF DropSnapshot, InstallSnapshot, BeginCall, files
  <1>7. CASE Next
    BY <1>7, <1>2, <1>3, <1>4, <1>5, <1>6, SaveKeepsDurable, AppendKeepsDurable,
       TruncateKeepsDurable, InstallKeepsDurable, RewriteKeepsDurable, OpenKeepsDurable,
       CrashKeepsDurable DEF Next
  <1>8. QED
    BY <1>1, <1>7

LEMMA DurableAlways ==
    ASSUME ~PowerAfterKill PROVE Spec => []DurableInv
  <1>1. Init => DurableInv
    BY DEF Init, DurableInv, Only
  <1>2. FilesInv /\ DurableInv /\ [Next]_vars => DurableInv'
    BY DurableStep
  <1>3. QED
    BY <1>1, <1>2, FilesAlways, PTL DEF Spec

(* No crash, in a call, in an earlier recovery or of the power, leaves     *)
(* files that the next open refuses: the arm of DiskStorage::open for a    *)
(* hole between the snapshot and the entries is never reached.             *)
THEOREM NoOpenIsRefused ==
    ASSUME ~PowerAfterKill PROVE Spec => []OpenIsNeverRefused
  <1>1. DurableInv => OpenIsNeverRefused
    BY DEF DurableInv, OpenIsNeverRefused
  <1>2. QED
    BY <1>1, DurableAlways, PTL

-----------------------------------------------------------------------------
(* The storage implements AtomicStorage, step by step.                     *)

AtomicStep == [Atomic!Next]_<<Stored, Running>>

LEMMA StoredInACall ==
    ASSUME call # NoCall, call' = call, entry0' = entry0 PROVE AtomicStep
  BY DEF AtomicStep, Stored, Running

LEMMA RunningIsACall ==
    call \in Calls => Running \in Atomic!Call
  BY RunningIs

(* A call that begins.                                                     *)
LEMMA BeginIsBegin ==
    ASSUME TypeOK, TypeOK', pc = "idle", call = NoCall, call' # NoCall, entry0' = mem
    PROVE  Atomic!Begin
  <1>1. Running = NoCall /\ Stored = Logical(mem)
    BY DEF Running, Stored
  <1>2. call' \in Calls
    BY DEF TypeOK
  <1>3. Running' \in Atomic!Call
    <2>1. (call \in Calls => Running \in Atomic!Call)'
      BY RunningIsACall, PTL
    <2>2. QED
      BY <1>2, <2>1
  <1>4. Stored' = Logical(mem)
    BY DEF Stored, Logical
  <1>5. QED
    BY <1>1, <1>3, <1>4 DEF Atomic!Begin

(* A call that returns.                                                    *)
LEMMA ReturnIsReturn ==
    ASSUME TypeOK, call # NoCall, call' = NoCall, pc' = "idle",
           Logical(mem') = Atomic!Effect(Running, Stored)
    PROVE  Atomic!Return
  <1>1. call \in Calls
    BY DEF TypeOK
  <1>2. Running # NoCall
    BY <1>1, RunningIs
  <1>3. Running' = NoCall /\ Stored' = Logical(mem')
    BY DEF Running, Stored, Logical
  <1>4. QED
    BY <1>2, <1>3 DEF Atomic!Return

(* A crash, whatever files it leaves.                                      *)
LEMMA CrashIsCrash ==
    ASSUME TypeOK, Stop, Left(kern')
    PROVE  AtomicStep
  <1>1. Running' = NoCall /\ Stored' = Recovered(kern')
    BY DEF Stop, Running, Stored, Recovered
  <1>2. CASE call = NoCall
    <2>1. Running = NoCall /\ Stored' = Stored
      BY <1>1, <1>2 DEF Left, Running
    <2>2. QED
      BY <1>1, <2>1 DEF AtomicStep
  <1>3. CASE call # NoCall
    <2>1. Stored' \in Atomic!Outcomes(Running, Stored)
      BY <1>1, <1>3 DEF Left
    <2>2. Running # NoCall
      BY <1>3, RunningIs DEF TypeOK
    <2>3. QED
      BY <1>1, <2>1, <2>2 DEF AtomicStep, Atomic!Next, Atomic!Crash
  <1>4. QED
    BY <1>2, <1>3

LEMMA BeginImplements ==
    ASSUME FilesInv, FilesInv', pc = "idle",
           pc' \in {"hardRename", "write", "setLen", "snapRename"}, entry0' = mem
    PROVE  AtomicStep
  <1>1. TypeOK /\ TypeOK' /\ call = NoCall
    BY DEF FilesInv, KernInv, AtIdle
  <1>2. call' # NoCall
    BY DEF FilesInv, KernInv, AtHardRename, AtWrite, AtSetLen, AtSnapRename, Calling
  <1>3. Atomic!Begin
    BY <1>1, <1>2, BeginIsBegin
  <1>4. QED
    BY <1>3 DEF AtomicStep, Atomic!Next

LEMMA ReturnImplements ==
    ASSUME FilesInv, SyncHard \/ SyncEntries \/ SyncLength PROVE AtomicStep
  <1>0. TypeOK /\ mem \in Memory
    BY DEF FilesInv, TypeOK
  <1>1. call' = NoCall /\ pc' = "idle"
    BY DEF SyncHard, SyncEntries, SyncLength, EndCall
  <1>2. CASE SyncHard
    <2>1. Calling("save") /\ mem = entry0 /\ call # NoCall /\ call.kind = "save"
      BY <1>2 DEF FilesInv, KernInv, AtHardDir, SyncHard, Calling
    <2>2. mem'.hard = call.hard /\ mem'.base = entry0.base /\ mem'.log = entry0.log
      BY <1>0, <1>2, <2>1 DEF SyncHard, Memory
    <2>3. Atomic!Effect(Running, Stored)
            = [hard |-> call.hard, base |-> entry0.base, log |-> Range(entry0.log)]
      BY <1>0, <2>1, EffectIs
    <2>4. Logical(mem') = Atomic!Effect(Running, Stored)
      BY <2>2, <2>3, Zenon DEF Logical
    <2>5. QED
      BY <1>0, <1>1, <2>1, <2>4, ReturnIsReturn DEF AtomicStep, Atomic!Next
  <1>3. CASE SyncEntries
    <2>1. Calling("append") /\ mem = entry0 /\ call # NoCall /\ call.kind = "append"
      BY <1>3 DEF FilesInv, KernInv, AtWriteSync, SyncEntries, Calling
    <2>2. mem'.hard = entry0.hard /\ mem'.base = entry0.base /\ mem'.log = entry0.log \o call.entries
      BY <1>0, <1>3, <2>1 DEF SyncEntries, Memory
    <2>3. entry0.log \in Seq(Entry) /\ call.entries \in Seq(Entry)
      BY <1>0, <2>1, CallingIs, CallIs, MemoryIs
    <2>4. Range(mem'.log) = Range(entry0.log) \cup Range(call.entries)
      BY <2>2, <2>3, RangeConcat
    <2>5. Atomic!Effect(Running, Stored)
            = [hard |-> entry0.hard, base |-> entry0.base,
               log |-> Range(entry0.log) \cup Range(call.entries)]
      BY <1>0, <2>1, EffectIs
    <2>6. Logical(mem') = Atomic!Effect(Running, Stored)
      BY <2>2, <2>4, <2>5, Zenon DEF Logical
    <2>7. QED
      BY <1>0, <1>1, <2>1, <2>6, ReturnIsReturn DEF AtomicStep, Atomic!Next
  <1>4. CASE SyncLength
    <2>1. Calling("truncate") /\ mem = Truncated /\ call # NoCall
      BY <1>4 DEF FilesInv, KernInv, AtSetLenSync, SyncLength, Calling
    <2>2. mem'.hard = mem.hard /\ mem'.base = mem.base /\ mem'.log = mem.log
      BY <1>0, <1>4 DEF SyncLength, Memory
    <2>3. Logical(mem) = Atomic!Effect(Running, Stored)
      BY <1>0, <2>1, TruncatedEffect
    <2>4. Logical(mem') = Atomic!Effect(Running, Stored)
      BY <2>2, <2>3 DEF Logical
    <2>5. QED
      BY <1>0, <1>1, <2>1, <2>4, ReturnIsReturn DEF AtomicStep, Atomic!Next
  <1>5. QED
    BY <1>2, <1>3, <1>4

LEMMA InnerImplements ==
    ASSUME FilesInv, RenameHard \/ WriteEntries \/ SetLen \/ RenameSnapshot \/ SyncSnapshot
    PROVE  AtomicStep
  <1>1. call # NoCall
    BY DEF FilesInv, KernInv, AtHardRename, AtWrite, AtSetLen, AtSnapRename, AtSnapDir, Calling,
           RenameHard, WriteEntries, SetLen, RenameSnapshot, SyncSnapshot
  <1>2. call' = call /\ entry0' = entry0
    BY DEF RenameHard, WriteEntries, SetLen, RenameSnapshot, SyncSnapshot
  <1>3. QED
    BY <1>1, <1>2, StoredInACall

LEMMA RewriteImplements ==
    ASSUME FilesInv, RewriteEntries \/ SyncRewrite PROVE AtomicStep
  <1>0. TypeOK /\ mem \in Memory
    BY DEF FilesInv, TypeOK
  <1>1. CASE RewriteEntries
    <2>1. call' = call /\ entry0' = entry0 /\ pc = "rewrite" /\ pc' = "rewriteDir"
      BY <1>1 DEF RewriteEntries
    <2>2. CASE call # NoCall
      BY <2>1, <2>2, StoredInACall
    <2>3. CASE call = NoCall
      <3>1. AtRewrite
        BY <2>1 DEF FilesInv, KernInv
      <3>2. mem.hard = kern.hard /\ mem.base = kern.snap /\ mem.log = Reconciled(mem.base, kern.ents)
            /\ Whole(kern.ents) = kern.ents
        BY <3>1, EntriesAreAFile DEF AtRewrite, Read
      <3>3. Recovered(kern) = Logical(mem)
        BY <3>2 DEF Recovered, Logical
      <3>4. Run(mem.base.index, mem.log)
        BY <1>0, <3>1, RewriteIs
      <3>5. kern' = Holding(mem)
        BY <1>0, <1>1, <3>2, KernIs DEF RewriteEntries, Holding
      <3>6. Recovered(kern') = Logical(mem)
        BY <1>0, <3>4, <3>5, HoldingIs
      <3>7. Stored = Recovered(kern) /\ Stored' = Recovered(kern')
        BY <2>1, <2>3 DEF Stored, Recovered
      <3>8. Running' = Running
        BY <2>1, <2>3 DEF Running
      <3>9. QED
        BY <3>3, <3>6, <3>7, <3>8 DEF AtomicStep
    <2>4. QED
      BY <2>2, <2>3
  <1>2. CASE SyncRewrite
    <2>1. AtRewriteDir
      BY <1>2 DEF FilesInv, KernInv, SyncRewrite
    <2>2. call' = NoCall /\ pc = "rewriteDir" /\ pc' = "idle"
      BY <1>2 DEF SyncRewrite, EndCall
    <2>3. mem'.hard = mem.hard /\ mem'.base = mem.base /\ mem'.log = mem.log
      BY <1>0, <1>2 DEF SyncRewrite, Memory
    <2>4. Logical(mem') = Logical(mem)
      BY <2>3 DEF Logical
    <2>5. CASE call # NoCall
      <3>1. Calling("install") /\ mem = Installed /\ Newer
        BY <2>1, <2>5 DEF AtRewriteDir
      <3>2. Logical(mem') = Atomic!Effect(Running, Stored)
        BY <1>0, <2>4, <3>1, InstalledEffect
      <3>3. QED
        BY <1>0, <2>2, <2>5, <3>2, ReturnIsReturn DEF AtomicStep, Atomic!Next
    <2>6. CASE call = NoCall
      <3>1. Recovered(kern) = Logical(mem)
        BY <1>0, <2>1, HoldingIs DEF AtRewriteDir
      <3>2. Stored = Recovered(kern)
        BY <2>2, <2>6 DEF Stored
      <3>3. Stored' = Logical(mem')
        BY <2>2 DEF Stored, Logical
      <3>4. Running' = Running
        BY <2>2, <2>6 DEF Running
      <3>5. QED
        BY <2>4, <3>1, <3>2, <3>3, <3>4 DEF AtomicStep
    <2>7. QED
      BY <2>5, <2>6
  <1>3. QED
    BY <1>1, <1>2

LEMMA OpenImplements ==
    ASSUME FilesInv, DurableInv, Open \/ SyncCut \/ Reconcile PROVE AtomicStep
  <1>0. TypeOK /\ kern.ents \in File /\ mem \in Memory
    BY KernIs DEF FilesInv, TypeOK
  <1>1. pc \in {"down", "cut", "reconcile"} /\ call' = call
    BY DEF Open, SyncCut, Reconcile
  <1>2. call = NoCall
    BY <1>1 DEF FilesInv, KernInv, AtDown, AtCut, AtReconcile
  <1>3. Running' = Running /\ Stored = Recovered(kern)
    BY <1>1, <1>2 DEF Running, Stored
  <1>4. pc' # "idle" => Stored' = Recovered(kern')
    BY <1>1, <1>2 DEF Stored, Recovered
  <1>5. CASE Open
    <2>1. /\ kern' = [hard |-> kern.hard, snap |-> kern.snap, ents |-> Whole(kern.ents)]
          /\ pc' # "idle"
      BY <1>0, <1>5, KernIs DEF Open
    <2>2. Whole(Whole(kern.ents)) = Whole(kern.ents)
      BY <1>0, WholeOfWhole
    <2>3. Recovered(kern') = Recovered(kern)
      BY <2>1, <2>2 DEF Recovered
    <2>4. QED
      BY <1>3, <1>4, <2>1, <2>3 DEF AtomicStep
  <1>6. CASE SyncCut
    <2>1. kern' = kern /\ pc' # "idle"
      BY <1>6 DEF SyncCut
    <2>2. QED
      BY <1>3, <1>4, <2>1 DEF AtomicStep
  <1>7. CASE Reconcile
    <2>1. kern' = kern
      BY <1>7 DEF Reconcile, files
    <2>2. CASE pc' # "idle"
      BY <1>3, <1>4, <2>1, <2>2 DEF AtomicStep
    <2>3. CASE pc' = "idle"
      <3>1. kern.ents \in Seq(Entry) /\ mem.base = kern.snap /\ mem.hard = kern.hard
        BY <1>7 DEF FilesInv, KernInv, AtReconcile, Read, Reconcile
      <3>2. Whole(kern.ents) = kern.ents
        BY <3>1, EntriesAreAFile
      <3>3. /\ mem'.hard = mem.hard /\ mem'.base = mem.base
            /\ mem'.log = Reconciled(mem.base, kern.ents)
        BY <1>0, <1>7 DEF Reconcile, Memory
      <3>4. Logical(mem') = Recovered(kern)
        BY <3>1, <3>2, <3>3 DEF Logical, Recovered
      <3>5. Stored' = Logical(mem')
        BY <1>1, <1>2, <2>3 DEF Stored, Logical
      <3>6. QED
        BY <1>3, <3>4, <3>5 DEF AtomicStep
    <2>4. QED
      BY <2>2, <2>3
  <1>8. QED
    BY <1>5, <1>6, <1>7

LEMMA CrashImplements ==
    ASSUME ~PowerAfterKill, FilesInv, DurableInv, Kill \/ FailWrite \/ PowerCut PROVE AtomicStep
  <1>0. TypeOK /\ CrashInv
    BY CrashLeaves DEF FilesInv
  <1>1. CASE Kill
    <2>1. Stop /\ kern' = kern
      BY <1>1 DEF Kill, files
    <2>2. Left(kern')
      BY <1>0, <2>1 DEF CrashInv
    <2>3. QED
      BY <1>0, <2>1, <2>2, CrashIsCrash
  <1>2. CASE FailWrite
    <2>1. AtWrite /\ Stop
      BY <1>2 DEF FilesInv, KernInv, FailWrite
    <2>2. PICK p \in Partials(call.entries) : kern' = [kern EXCEPT !.ents = WriteAt(mem.end, p)]
      BY <1>2 DEF FailWrite
    <2>3. WriteAt(mem.end, p) = mem.log \o p
      BY <1>0, <2>1, WriteIs
    <2>4. /\ Calling("append") /\ Run(entry0.base.index, entry0.log \o call.entries)
          /\ kern' = [hard |-> entry0.hard, snap |-> entry0.base, ents |-> entry0.log \o p]
      BY <2>1, <2>2, <2>3 DEF AtWrite, Holding
    <2>5. Left(kern')
      BY <1>0, <2>4, PartialOutcome
    <2>6. QED
      BY <1>0, <2>1, <2>5, CrashIsCrash
  <1>3. CASE PowerCut
    <2>1. kills = 0 /\ Stop
      BY <1>3 DEF PowerCut
    <2>2. PICK h \in before.hard \cup {kern.hard}, s \in before.snap \cup {kern.snap},
               es \in before.ents \cup flushed :
            kern' = [hard |-> h, snap |-> s, ents |-> es]
      BY <1>3 DEF PowerCut
    <2>3. Left(kern')
      BY <1>0, <2>1, <2>2 DEF CrashInv
    <2>4. QED
      BY <1>0, <2>1, <2>3, CrashIsCrash
  <1>4. QED
    BY <1>1, <1>2, <1>3

LEMMA StepImplements ==
    ASSUME ~PowerAfterKill, FilesInv, DurableInv, FilesInv', [Next]_vars PROVE AtomicStep
  <1>1. CASE UNCHANGED vars
    BY <1>1 DEF vars, AtomicStep, Stored, Running, Logical, Recovered
  <1>2. ASSUME NEW h \in HardStates, SaveHardState(h) PROVE AtomicStep
    BY <1>2, BeginImplements DEF SaveHardState, BeginCall
  <1>3. ASSUME NEW es \in Batches, AppendEntries(es) PROVE AtomicStep
    BY <1>3, BeginImplements DEF AppendEntries, BeginCall
  <1>4. ASSUME NEW i \in 1..MaxIndex, TruncateFrom(i) PROVE AtomicStep
    BY <1>4, BeginImplements DEF TruncateFrom, BeginCall
  <1>5. ASSUME NEW k \in sinks, InstallSnapshot(k) PROVE AtomicStep
    BY <1>5, BeginImplements DEF InstallSnapshot, BeginCall
  <1>6. ASSUME UNCHANGED <<files, mem, pc, call, entry0>> PROVE AtomicStep
    BY <1>6 DEF files, AtomicStep, Stored, Running, Logical, Recovered
  <1>7. ASSUME NEW m \in Entry, NewSnapshot(m) PROVE AtomicStep
    BY <1>6, <1>7 DEF NewSnapshot
  <1>8. ASSUME NEW k \in sinks, DropSnapshot(k) PROVE AtomicStep
    BY <1>6, <1>8 DEF DropSnapshot
  <1>9. CASE Next
    BY <1>9, <1>2, <1>3, <1>4, <1>5, <1>7, <1>8, ReturnImplements, InnerImplements,
       RewriteImplements, OpenImplements, CrashImplements DEF Next
  <1>10. QED
    BY <1>1, <1>9

LEMMA InitImplements ==
    Init => Atomic!Init
  <1> SUFFICES ASSUME Init PROVE Atomic!Init
    OBVIOUS
  <1>1. Stored = Logical(NoMem) /\ Running = NoCall
    BY DEF Init, Stored, Running
  <1>2. Range(<<>>) = {}
    BY DEF Range
  <1>3. Logical(NoMem) = [hard |-> DefaultHard, base |-> Atomic!NoSnapshot, log |-> {}]
    BY <1>2 DEF Logical, NoMem, NoSnapshot, Atomic!NoSnapshot
  <1>4. QED
    BY <1>1, <1>3 DEF Atomic!Init

(* The storage implements AtomicStorage: whatever step of a call, of an    *)
(* open or of an installation a kill, a failed write or a power cut comes  *)
(* between, the next open finds the call done or not done, an append's     *)
(* entries from the first on, and everything that had returned before.     *)
THEOREM TheStorageIsAtomic ==
    ASSUME ~PowerAfterKill PROVE Spec => Implements
  <1>1. FilesInv /\ DurableInv /\ FilesInv' /\ [Next]_vars => [Atomic!Next]_<<Stored, Running>>
    BY StepImplements DEF AtomicStep
  <1>2. QED
    BY <1>1, InitImplements, FilesAlways, DurableAlways, PTL DEF Spec, Implements, Atomic!Spec
=============================================================================
