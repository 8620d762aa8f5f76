---------------------------- MODULE RaftProofs ----------------------------
(***************************************************************************)
(* What is proved of Raft for every number of nodes, every scenario and    *)
(* every network: a snapshot is never put together from the pieces of two, *)
(* whatever the memberships; and one term has one leader, for as long as   *)
(* nobody asks for a change of the membership.                             *)
(***************************************************************************)
EXTENDS Raft, OrderedProofs

Office == {"Candidate", "Leader"}

-----------------------------------------------------------------------------
(* The types of a node and of what it sends, for a set M of memberships    *)
(* that may be in force and a set E of those an entry of a log may hold.   *)
(* Both are Membership for a cluster that changes; where nobody asks for a *)
(* change, no entry holds one.                                             *)

Closed(M, E) ==
    /\ Nobody \in E /\ E \subseteq M /\ M \subseteq Membership
    /\ \A ms \in M : \A p \in ms.learners :
          [voters |-> ms.voters \cup {p}, learners |-> ms.learners \ {p}] \in E

EntryOf(E) == [term : Nat \ {0}, cmd : Values \cup {Noop, Nil}, members : E]
Piece == [by : Server, index : Nat, part : 1 .. Pieces]

SnapshotOf(M) == [index : Nat, file : Seq(Piece), members : M]
IncomingOf(M) ==
    [from : Server \cup {Nil}, index : Nat, term : Nat, members : M, pieces : Seq(Piece)]
BuildingOf(M, E) == [index : Nat, term : Nat, members : M, state : Seq(EntryOf(E))]
Sending == [index : Nat, offset : 0 .. Pieces - 1]
Remote == [from : Server, id : Nat, seq : Nat, index : Nat]
Maybe == Server \cup {Nil}

Asked ==
    [kind : {"Local"}, term : Nat, seq : Nat, index : Nat, asked : Nat]
    \cup [kind : {"Forwarded"}, id : Nat, leader : Maybe, answer : Int, asked : Nat]

Node(M, E) ==
    [id : Server, boot : M, term : Nat, votedFor : Maybe, log : Seq(EntryOf(E)),
     snap : SnapshotOf(M), role : Role, leader : Maybe, votes : SUBSET Server,
     active : SUBSET Server, start : Nat, commit : Nat, applied : Nat,
     next : [Server -> Nat], match : [Server -> Nat], progress : [Server -> Sending],
     departing : SUBSET Server, members : M, membersAt : Nat, incoming : IncomingOf(M),
     building : BuildingOf(M, E), seq : Nat, acked : [Server -> Nat],
     remote : SUBSET Remote, reads : SUBSET Asked, nextRead : Nat]

(* A log reaches as far as the node's snapshot, and so does the state a    *)
(* snapshot is written from.                                               *)
Sized(s) == s.snap.index <= Len(s.log) /\ Len(s.building.state) = s.building.index

(* A node only stands, or leads, in a term it has moved to.                *)
Termed(s) == s.role \in Office => s.term > 0

(* The node's snapshot is one file, and what has arrived of the next is    *)
(* the start of one.                                                       *)
Whole(s) == s.snap.index > 0 => s.snap.file = File(s.snap.file[1].by, s.snap.index)
Begun(s) ==
    s.incoming.pieces # <<>> =>
        /\ Len(s.incoming.pieces) < Pieces
        /\ \A k \in 1 .. Len(s.incoming.pieces) :
              s.incoming.pieces[k] = File(s.incoming.pieces[1].by, s.incoming.index)[k]

WellMade(s, M, E) ==
    s \in Node(M, E) /\ Sized(s) /\ Termed(s) /\ Whole(s) /\ Begun(s)

(* What the steps of most calls leave alone.                               *)
Keeps(s, r) ==
    /\ r.id = s.id /\ r.boot = s.boot /\ r.term = s.term /\ r.votedFor = s.votedFor
    /\ r.role = s.role /\ r.votes = s.votes /\ r.snap = s.snap
    /\ r.incoming = s.incoming /\ r.building = s.building
    /\ Len(r.log) >= Len(s.log)

-----------------------------------------------------------------------------
(* The operators of the log.                                               *)

LEMMA NodeTypes ==
    ASSUME NEW M, NEW E, NEW s \in Node(M, E)
    PROVE  /\ s.id \in Server /\ s.boot \in M /\ s.term \in Nat /\ s.votedFor \in Maybe
           /\ s.log \in Seq(EntryOf(E)) /\ Len(s.log) \in Nat /\ s.snap \in SnapshotOf(M)
           /\ s.snap.index \in Nat /\ s.snap.file \in Seq(Piece) /\ s.snap.members \in M
           /\ s.role \in Role /\ s.leader \in Maybe /\ s.votes \in SUBSET Server
           /\ s.active \in SUBSET Server /\ s.start \in Nat /\ s.commit \in Nat
           /\ s.applied \in Nat /\ s.next \in [Server -> Nat]
           /\ s.match \in [Server -> Nat] /\ s.progress \in [Server -> Sending]
           /\ s.departing \in SUBSET Server /\ s.members \in M /\ s.membersAt \in Nat
           /\ s.incoming \in IncomingOf(M) /\ s.building \in BuildingOf(M, E)
           /\ s.seq \in Nat /\ s.acked \in [Server -> Nat] /\ s.remote \in SUBSET Remote
           /\ s.reads \in SUBSET Asked /\ s.nextRead \in Nat
  <1>1. s.snap \in SnapshotOf(M) /\ s.log \in Seq(EntryOf(E))
    BY DEF Node
  <1>2. Len(s.log) \in Nat /\ s.snap.index \in Nat /\ s.snap.file \in Seq(Piece)
        /\ s.snap.members \in M
    BY <1>1 DEF SnapshotOf
  <1>3. QED
    BY <1>1, <1>2 DEF Node

LEMMA KeepsIsTransitive ==
    ASSUME NEW M, NEW E, NEW s \in Node(M, E), NEW r \in Node(M, E), NEW q \in Node(M, E),
           Keeps(s, r), Keeps(r, q)
    PROVE  Keeps(s, q)
  <1>1. Len(s.log) \in Nat /\ Len(r.log) \in Nat /\ Len(q.log) \in Nat
    BY NodeTypes
  <1>2. QED
    BY <1>1 DEF Keeps

LEMMA WhatIsKeptIsWellMade ==
    ASSUME NEW M, NEW E, NEW s, WellMade(s, M, E), NEW r \in Node(M, E), Keeps(s, r)
    PROVE  WellMade(r, M, E)
  <1>1. Len(s.log) \in Nat /\ Len(r.log) \in Nat /\ s.snap.index \in Nat
    BY NodeTypes DEF WellMade
  <1>2. Sized(r)
    BY <1>1 DEF Sized, Keeps, WellMade
  <1>3. Termed(r) /\ Whole(r) /\ Begun(r)
    BY DEF Termed, Whole, Begun, Keeps, WellMade
  <1>4. QED
    BY <1>2, <1>3 DEF WellMade

LEMMA TermAtFacts ==
    ASSUME NEW M, NEW E, NEW s \in Node(M, E), NEW i \in Int
    PROVE  /\ TermAt(s, i) \in Nat \cup {-1}
           /\ TermAt(s, i) # -1 <=> s.snap.index <= i /\ i <= Len(s.log)
  <1>1. s.snap.index \in Nat /\ s.log \in Seq(EntryOf(E)) /\ Len(s.log) \in Nat
    BY NodeTypes
  <1>2. \A j \in 1 .. Len(s.log) : s.log[j].term \in Nat
    <2>1. \A j \in 1 .. Len(s.log) : s.log[j] \in EntryOf(E)
      BY <1>1
    <2>2. QED
      BY <2>1 DEF EntryOf
  <1>3. i \in 1 .. Len(s.log) \/ i <= 0 \/ i > Len(s.log)
    BY <1>1
  <1>4. QED
    BY <1>1, <1>2, <1>3 DEF TermAt, LastIndex

LEMMA ConfigsToFacts ==
    ASSUME NEW M, NEW E, NEW s \in Node(M, E), NEW i \in Int
    PROVE  /\ ConfigsTo(s, i) \subseteq 1 .. Len(s.log)
           /\ \A j \in ConfigsTo(s, i) : s.log[j].members \in E
  <1>1. s.snap.index \in Nat /\ s.log \in Seq(EntryOf(E)) /\ Len(s.log) \in Nat
    BY NodeTypes
  <1>2. ConfigsTo(s, i) \subseteq 1 .. Len(s.log)
    BY <1>1 DEF ConfigsTo, Held, LastIndex
  <1>3. \A j \in 1 .. Len(s.log) : s.log[j].members \in E
    <2>1. \A j \in 1 .. Len(s.log) : s.log[j] \in EntryOf(E)
      BY <1>1
    <2>2. QED
      BY <2>1 DEF EntryOf
  <1>4. QED
    BY <1>2, <1>3

LEMMA MembersAtFacts ==
    ASSUME NEW M, NEW E, Closed(M, E), NEW s \in Node(M, E), NEW i \in Int
    PROVE  MembersAt(s, i) \in M
  <1>1. s.snap.members \in M /\ s.boot \in M /\ Len(s.log) \in Nat
    BY NodeTypes
  <1>2. ASSUME ConfigsTo(s, i) # {} PROVE s.log[Max(ConfigsTo(s, i))].members \in M
    <2>1. /\ ConfigsTo(s, i) \in SUBSET Nat
          /\ \A x \in ConfigsTo(s, i) : x <= Len(s.log)
      BY <1>1, ConfigsToFacts
    <2>2. Max(ConfigsTo(s, i)) \in ConfigsTo(s, i)
      BY <2>1, <1>1, <1>2, MaxFacts
    <2>3. QED
      BY <2>2, ConfigsToFacts DEF Closed
  <1>3. QED
    BY <1>1, <1>2 DEF MembersAt

LEMMA ReloadFacts ==
    ASSUME NEW M, NEW E, Closed(M, E), NEW s \in Node(M, E)
    PROVE  Reload(s) \in Node(M, E) /\ Keeps(s, Reload(s)) /\ Reload(s).log = s.log
  <1> DEFINE C  == ConfigsTo(s, LastIndex(s)) \cup {s.snap.index}
             at == Max(C)
             ms == MembersAt(s, at)
             dep == IF at > s.commit
                    THEN Everyone(MembersAt(s, at - 1)) \ (Everyone(ms) \cup {s.id}) ELSE {}
             r  == [s EXCEPT !.members = ms, !.membersAt = at, !.departing = dep]
  <1>1. LastIndex(s) \in Nat /\ s.snap.index \in Nat /\ s.commit \in Nat
    BY NodeTypes DEF LastIndex
  <1>2. at \in Nat
    <2>1. C \in SUBSET Nat /\ C # {}
      BY <1>1, ConfigsToFacts DEF LastIndex
    <2>2. LastIndex(s) + s.snap.index \in Nat /\ \A x \in C : x <= LastIndex(s) + s.snap.index
      BY <1>1, ConfigsToFacts DEF LastIndex
    <2>3. QED
      BY <2>1, <2>2, MaxFacts
  <1>3. ms \in M /\ MembersAt(s, at - 1) \in M
    BY <1>2, MembersAtFacts
  <1>4. dep \in SUBSET Server
    <2>1. MembersAt(s, at - 1) \in Membership
      BY <1>3 DEF Closed
    <2>2. QED
      BY <2>1 DEF Everyone, Membership
  <1> HIDE DEF C, at, ms, dep
  <1>a. r \in Node(M, E)
    BY <1>1, <1>2, <1>3, <1>4 DEF Node
  <1>b. r.log = s.log
    BY <1>1, <1>2, <1>3, <1>4 DEF Node
  <1>c. Keeps(s, r)
    BY <1>1, <1>b DEF Node, Keeps, LastIndex
  <1>5. r \in Node(M, E) /\ Keeps(s, r) /\ r.log = s.log
    BY <1>a, <1>b, <1>c
  <1>6. CASE s.role # "Leader"
    <2>1. Reload(s) = r
      BY <1>6, Zenon DEF Reload, r, at, ms, dep, C
    <2>2. QED
      BY <2>1, <1>5
  <1>7. CASE s.role = "Leader"
    <2> DEFINE nx == [p \in Server |-> IF p \in Replicas(r) THEN [q \in Server |-> NextFor(s, q)][p] ELSE 0]
               mt == [p \in Server |-> IF p \in Replicas(r) THEN r.match[p] ELSE 0]
               pg == [p \in Server |-> IF p \in Replicas(r) THEN r.progress[p] ELSE Sent(0, 0)]
    <2>1. Reload(s) = [r EXCEPT !.next = nx, !.match = mt, !.progress = pg]
      BY <1>7 DEF Reload, r, at, ms, dep, C
    <2>2. nx \in [Server -> Nat]
      <3>1. s.next \in [Server -> Nat]
        BY NodeTypes
      <3>2. \A p \in Server : NextFor(s, p) \in Nat
        BY <3>1, <1>1 DEF NextFor
      <3>3. QED
        BY <3>2
    <2>3. mt \in [Server -> Nat]
      BY <1>5 DEF Node
    <2>4. pg \in [Server -> Sending]
      <3>1. Sent(0, 0) \in Sending
        BY SizesAssumption DEF Sent, Sending
      <3>2. QED
        BY <3>1, <1>5, NodeTypes
    <2> HIDE DEF nx, mt, pg, r
    <2> DEFINE q == [r EXCEPT !.next = nx, !.match = mt, !.progress = pg]
    <2>5. q \in Node(M, E)
      BY <2>2, <2>3, <2>4, <1>5 DEF Node
    <2>6. q.log = r.log
      BY <1>5 DEF Node
    <2>7. Keeps(r, q)
      BY <1>5, <2>6, NodeTypes DEF Node, Keeps
    <2>8. Keeps(s, q)
      BY <1>5, <2>5, <2>7, KeepsIsTransitive
    <2>9. QED
      BY <2>1, <2>5, <2>6, <2>8, <1>5
  <1>8. QED
    BY <1>6, <1>7

(* maybe_commit only moves the commit index.                               *)
LEMMA MajorityHoldsFacts ==
    ASSUME NEW M, NEW E, NEW s \in Node(M, E)
    PROVE  MajorityHolds(s) \in 0 .. Len(s.log)
  <1> DEFINE held(i) == {v \in Voters(s) : i <= IF v = s.id THEN LastIndex(s) ELSE s.match[v]}
             S == {i \in 0 .. LastIndex(s) : i = 0 \/ HasQuorum(s, held(i))}
  <1>1. LastIndex(s) \in Nat
    BY NodeTypes DEF LastIndex
  <1>2. S \in SUBSET Nat /\ 0 \in S /\ \A x \in S : x <= LastIndex(s)
    BY <1>1
  <1>3. Max(S) \in S
    BY <1>1, <1>2, MaxFacts
  <1>4. MajorityHolds(s) = Max(S)
    BY DEF MajorityHolds
  <1>5. QED
    BY <1>3, <1>4 DEF LastIndex

LEMMA MaybeCommitFacts ==
    ASSUME NEW M, NEW E, NEW s \in Node(M, E)
    PROVE  MaybeCommit(s) \in Node(M, E) /\ Keeps(s, MaybeCommit(s)) /\ MaybeCommit(s).log = s.log
  <1> DEFINE r == [s EXCEPT !.commit = MajorityHolds(s)]
  <1>1. MajorityHolds(s) \in Nat
    BY MajorityHoldsFacts, NodeTypes
  <1>2. r \in Node(M, E)
    BY <1>1 DEF Node
  <1>3. r.log = s.log
    BY DEF Node
  <1>4. Keeps(s, r) /\ Keeps(s, s)
    BY <1>3, NodeTypes DEF Node, Keeps
  <1>5. MaybeCommit(s) = r \/ MaybeCommit(s) = s
    BY DEF MaybeCommit
  <1> HIDE DEF r
  <1>6. QED
    BY <1>2, <1>3, <1>4, <1>5

LEMMA AppendLocalFacts ==
    ASSUME NEW M, NEW E, Closed(M, E), NEW s \in Node(M, E), NEW e \in EntryOf(E)
    PROVE  AppendLocal(s, e) \in Node(M, E) /\ Keeps(s, AppendLocal(s, e))
           /\ AppendLocal(s, e).log = Append(s.log, e)
  <1> DEFINE r == [s EXCEPT !.log = Append(@, e)]
  <1>1. Append(s.log, e) \in Seq(EntryOf(E)) /\ Len(Append(s.log, e)) = Len(s.log) + 1
    BY NodeTypes
  <1>2. r \in Node(M, E) /\ r.log = Append(s.log, e)
    BY <1>1 DEF Node
  <1>3. Keeps(s, r)
    BY <1>1, <1>2, NodeTypes DEF Node, Keeps
  <1> DEFINE q == IF e.members = Nobody THEN r ELSE Reload(r)
  <1>4. q \in Node(M, E) /\ Keeps(r, q) /\ q.log = r.log
    <2>1. Keeps(r, r)
      BY <1>2, NodeTypes DEF Keeps
    <2> HIDE DEF r
    <2>2. QED
      BY <2>1, <1>2, ReloadFacts
  <1>5. AppendLocal(s, e) = MaybeCommit(q)
    BY DEF AppendLocal
  <1> HIDE DEF r, q
  <1>6. QED
    BY <1>2, <1>3, <1>4, <1>5, MaybeCommitFacts, KeepsIsTransitive

-----------------------------------------------------------------------------
(* Messages.                                                               *)

VoteRequest ==
    [type : {"PreVote", "RequestVote"}, from : Server, to : Server, term : Nat,
     lastIndex : Nat, lastTerm : Nat]
VoteAnswer ==
    [type : {"PreVoteReply", "RequestVoteReply"}, from : Server, to : Server, term : Nat,
     granted : BOOLEAN]
AppendOf(E) ==
    [type : {"AppendEntries"}, from : Server, to : Server, term : Nat, prev : Nat,
     prevTerm : Nat, entries : Seq(EntryOf(E)), commit : Nat, seq : Nat]
AppendAnswer ==
    [type : {"AppendReply"}, from : Server, to : Server, term : Nat, success : BOOLEAN,
     match : Nat, conflict : Nat, conflictTerm : Int, seq : Nat]
InstallOf(M, E) ==
    [type : {"InstallSnapshot"}, from : Server, to : Server, term : Nat, index : Nat \ {0},
     lastTerm : Nat, offset : 0 .. Pieces - 1, data : Piece, state : Seq(EntryOf(E)),
     done : BOOLEAN, seq : Nat, members : M]
InstallAnswer ==
    [type : {"SnapshotReply"}, from : Server, to : Server, term : Nat, index : Nat,
     offset : 0 .. Pieces, done : BOOLEAN, seq : Nat]
ReadRequest ==
    [type : {"ReadIndex"}, from : Server, to : Server, term : Nat, id : Nat]
ReadAnswer ==
    [type : {"ReadIndexReply"}, from : Server, to : Server, term : Nat, id : Nat, index : Int]

(* A piece says which it is and whether it is the last, and its state is   *)
(* as long as it says; a refusal asks for a piece there is.                *)
Exact(m) ==
    /\ m.type = "InstallSnapshot" =>
          /\ m.data = File(m.data.by, m.index)[m.offset + 1]
          /\ m.done = (m.offset + 1 >= Pieces) /\ Len(m.state) = m.index
    /\ m.type = "SnapshotReply" /\ ~m.done => m.offset < Pieces

MessageOf(M, E) ==
    {m \in VoteRequest \cup VoteAnswer \cup AppendOf(E) \cup AppendAnswer
           \cup InstallOf(M, E) \cup InstallAnswer \cup ReadRequest \cup ReadAnswer : Exact(m)}

(* What a message shows of the node that sent it.                          *)
Shows(r, m) ==
    /\ m.type = "RequestVoteReply" /\ m.granted =>
          m.from = r.id /\ m.term = r.term /\ m.to = r.votedFor
    /\ m.type = "InstallSnapshot" =>
          /\ m.from = r.id /\ m.index = r.snap.index
          /\ m.data.by = r.snap.file[1].by

Sends(r, out, M, E) == \A m \in out : m \in MessageOf(M, E) /\ Shows(r, m)

LEMMA KindsOfMessages ==
    ASSUME NEW M, NEW E, NEW m \in MessageOf(M, E)
    PROVE  /\ m.type \in {"PreVote", "RequestVote"} => m \in VoteRequest
           /\ m.type \in {"PreVoteReply", "RequestVoteReply"} => m \in VoteAnswer
           /\ m.type = "AppendEntries" => m \in AppendOf(E)
           /\ m.type = "AppendReply" => m \in AppendAnswer
           /\ m.type = "InstallSnapshot" => m \in InstallOf(M, E) /\ Exact(m)
           /\ m.type = "SnapshotReply" => m \in InstallAnswer /\ Exact(m)
           /\ m.type = "ReadIndex" => m \in ReadRequest
           /\ m.type = "ReadIndexReply" => m \in ReadAnswer
           /\ m.from \in Server /\ m.to \in Server /\ m.term \in Nat
  <1>1. /\ m \in VoteRequest => m.type \in {"PreVote", "RequestVote"} 
        /\ m \in VoteAnswer => m.type \in {"PreVoteReply", "RequestVoteReply"} 
        /\ m \in AppendOf(E) => m.type = "AppendEntries" 
        /\ m \in AppendAnswer => m.type = "AppendReply" 
        /\ m \in InstallOf(M, E) => m.type = "InstallSnapshot" 
        /\ m \in InstallAnswer => m.type = "SnapshotReply" 
        /\ m \in ReadRequest => m.type = "ReadIndex" 
        /\ m \in ReadAnswer => m.type = "ReadIndexReply" 
    BY DEF VoteRequest, VoteAnswer, AppendOf, AppendAnswer, InstallOf, InstallAnswer,
           ReadRequest, ReadAnswer
  <1>2. \/ m \in VoteRequest \/ m \in VoteAnswer \/ m \in AppendOf(E) \/ m \in AppendAnswer
        \/ m \in InstallOf(M, E) \/ m \in InstallAnswer \/ m \in ReadRequest \/ m \in ReadAnswer
    BY DEF MessageOf
  <1>3. Exact(m)
    BY DEF MessageOf
  <1>4. m.from \in Server /\ m.to \in Server /\ m.term \in Nat
    BY <1>2 DEF VoteRequest, VoteAnswer, AppendOf, AppendAnswer, InstallOf, InstallAnswer,
           ReadRequest, ReadAnswer
  <1>5. QED
    BY <1>1, <1>2, <1>3, <1>4

LEMMA ShownByWhatIsKept ==
    ASSUME NEW M, NEW E, NEW s, NEW r, Keeps(s, r), NEW out, Sends(r, out, M, E)
    PROVE  Sends(s, out, M, E)
  BY DEF Sends, Shows, Keeps

(* All but granted votes and pieces of snapshots show nothing.             *)
LEMMA PlainMessages ==
    ASSUME NEW M, NEW E, NEW r, NEW m,
           \/ m \in VoteRequest \/ m \in AppendOf(E) \/ m \in AppendAnswer
           \/ m \in ReadRequest \/ m \in ReadAnswer
           \/ m \in VoteAnswer /\ (m.type = "PreVoteReply" \/ ~m.granted)
           \/ m \in InstallAnswer /\ (m.done \/ m.offset < Pieces)
    PROVE  m \in MessageOf(M, E) /\ Shows(r, m)
  <1>1. /\ m \in VoteRequest => m.type \in {"PreVote", "RequestVote"} 
        /\ m \in VoteAnswer => m.type \in {"PreVoteReply", "RequestVoteReply"} 
        /\ m \in AppendOf(E) => m.type = "AppendEntries" 
        /\ m \in AppendAnswer => m.type = "AppendReply" 
        /\ m \in InstallAnswer => m.type = "SnapshotReply" 
        /\ m \in ReadRequest => m.type = "ReadIndex" 
        /\ m \in ReadAnswer => m.type = "ReadIndexReply" 
    BY DEF VoteRequest, VoteAnswer, AppendOf, AppendAnswer, InstallAnswer,
           ReadRequest, ReadAnswer
  <1>2. Exact(m) /\ Shows(r, m)
    BY <1>1 DEF Exact, Shows
  <1>3. QED
    BY <1>2 DEF MessageOf

LEMMA LastTermFacts ==
    ASSUME NEW M, NEW E, NEW s \in Node(M, E), Sized(s)
    PROVE  /\ LastTerm(s) \in Nat /\ LastIndex(s) \in Nat
           /\ TermAt(s, s.snap.index) \in Nat
  <1>1. Len(s.log) \in Nat /\ s.snap.index \in Nat /\ Len(s.log) \in Int /\ s.snap.index \in Int
    BY NodeTypes
  <1>2. s.snap.index <= Len(s.log)
    BY DEF Sized
  <1>3. TermAt(s, Len(s.log)) \in Nat \cup {-1} /\ TermAt(s, Len(s.log)) # -1
    BY <1>1, <1>2, TermAtFacts
  <1>4. TermAt(s, s.snap.index) \in Nat \cup {-1} /\ TermAt(s, s.snap.index) # -1
    BY <1>1, <1>2, TermAtFacts
  <1>5. QED
    BY <1>1, <1>3, <1>4 DEF LastTerm, LastIndex

LEMMA VoteRequestFacts ==
    ASSUME NEW M, NEW E, NEW s \in Node(M, E), Sized(s), NEW p \in Server
    PROVE  PreVote(s, p) \in VoteRequest /\ RequestVote(s, p) \in VoteRequest
  <1>1. s.id \in Server /\ s.term \in Nat /\ s.term + 1 \in Nat
        /\ LastTerm(s) \in Nat /\ LastIndex(s) \in Nat
    BY NodeTypes, LastTermFacts
  <1>2. QED
    BY <1>1 DEF PreVote, RequestVote, VoteRequest

LEMMA NextForFacts ==
    ASSUME NEW M, NEW E, NEW s \in Node(M, E), NEW p \in Server
    PROVE  NextFor(s, p) \in Nat \ {0} /\ NextFor(s, p) - 1 \in Nat
  <1>1. s.next[p] \in Nat /\ LastIndex(s) \in Nat
    BY NodeTypes DEF LastIndex
  <1>2. QED
    BY <1>1 DEF NextFor

LEMMA EntriesWithinFacts ==
    ASSUME NEW M, NEW E, NEW s \in Node(M, E), NEW i \in Nat \ {0}
    PROVE  EntriesWithin(s, i) \in Seq(EntryOf(E))
  <1>1. s.log \in Seq(EntryOf(E)) /\ Len(s.log) \in Nat /\ Batch \in Nat
    BY NodeTypes, SizesAssumption
  <1>2. \A a, b \in Int : Min({a, b}) = IF a <= b THEN a ELSE b
    BY DEF Min
  <1>3. i + Batch - 1 \in Int /\ Len(s.log) \in Int
    BY <1>1
  <1> DEFINE n == Min({LastIndex(s), i + Batch - 1})
  <1>4. n \in Int /\ n <= Len(s.log)
    BY <1>1, <1>2, <1>3 DEF LastIndex
  <1> HIDE DEF n
  <1>5. SubSeq(s.log, i, n) \in Seq(EntryOf(E))
    BY <1>1, <1>4
  <1>6. QED
    BY <1>5 DEF EntriesWithin, n

LEMMA AppendEntriesFacts ==
    ASSUME NEW M, NEW E, NEW s \in Node(M, E), NEW p \in Server,
           NEW entries \in Seq(EntryOf(E))
    PROVE  AppendEntries(s, p, entries) \in AppendOf(E)
  <1>1. s.id \in Server /\ s.term \in Nat /\ s.commit \in Nat /\ s.seq \in Nat
    BY NodeTypes
  <1>2. NextFor(s, p) - 1 \in Nat /\ NextFor(s, p) - 1 \in Int
    BY NextForFacts
  <1>3. \A x \in Nat \cup {-1} : Max({x, 0}) \in Nat
    <2>1. \A x \in Int : Max({x, 0}) = IF x >= 0 THEN x ELSE 0
      BY DEF Max
    <2>2. QED
      BY <2>1
  <1>4. Max({TermAt(s, NextFor(s, p) - 1), 0}) \in Nat
    BY <1>2, <1>3, TermAtFacts
  <1>5. QED
    BY <1>1, <1>2, <1>4 DEF AppendEntries, AppendOf

LEMMA FileFacts ==
    ASSUME NEW w \in Server, NEW i \in Nat
    PROVE  File(w, i) \in Seq(Piece) /\ Len(File(w, i)) = Pieces
           /\ \A k \in 1 .. Pieces : File(w, i)[k] = [by |-> w, index |-> i, part |-> k]
  <1>1. Pieces \in Nat
    BY SizesAssumption
  <1>2. \A k \in 1 .. Pieces : [by |-> w, index |-> i, part |-> k] \in Piece
    BY DEF Piece
  <1>3. QED
    BY <1>1, <1>2 DEF File

LEMMA InstallSnapshotFacts ==
    ASSUME NEW M, NEW E, NEW s, WellMade(s, M, E), NEW p \in Server, s.snap.index > 0
    PROVE  InstallSnapshot(s, p) \in MessageOf(M, E) /\ Shows(s, InstallSnapshot(s, p))
  <1> DEFINE offset == IF s.progress[p].index = s.snap.index THEN s.progress[p].offset ELSE 0
             m == InstallSnapshot(s, p)
  <1>1. /\ s \in Node(M, E) /\ s.id \in Server /\ s.term \in Nat /\ s.seq \in Nat
        /\ s.snap.index \in Nat /\ s.snap.index <= Len(s.log) /\ s.snap.members \in M
        /\ s.log \in Seq(EntryOf(E)) /\ s.snap.file \in Seq(Piece) /\ Pieces \in Nat \ {0}
        /\ s.progress[p] \in Sending
    BY NodeTypes, SizesAssumption DEF WellMade, Sized
  <1>2. offset \in 0 .. Pieces - 1
    BY <1>1 DEF Sending
  <1>3. TermAt(s, s.snap.index) \in Nat
    BY <1>1, LastTermFacts DEF WellMade
  <1>4. SubSeq(s.log, 1, s.snap.index) \in Seq(EntryOf(E))
        /\ Len(SubSeq(s.log, 1, s.snap.index)) = s.snap.index
    BY <1>1
  <1> DEFINE w == s.snap.file[1].by
             d == s.snap.file[offset + 1]
  <1> HIDE DEF offset
  <1>5. s.snap.file = File(w, s.snap.index) /\ Len(s.snap.file) = Pieces
    BY <1>1 DEF WellMade, Whole, File
  <1>6. w \in Server
    <2>1. s.snap.file[1] \in Piece
      BY <1>1, <1>5
    <2>2. QED
      BY <2>1 DEF Piece
  <1>7. offset + 1 \in 1 .. Pieces
    BY <1>1, <1>2
  <1>8. d = [by |-> w, index |-> s.snap.index, part |-> offset + 1]
    BY <1>1, <1>5, <1>6, <1>7, FileFacts
  <1>9. d \in Piece /\ d.by = w
    BY <1>1, <1>6, <1>7, <1>8 DEF Piece
  <1>10. d = File(w, s.snap.index)[offset + 1]
    BY <1>5
  <1>11. m = [type |-> "InstallSnapshot", from |-> s.id, to |-> p, term |-> s.term,
              index |-> s.snap.index, lastTerm |-> TermAt(s, s.snap.index), offset |-> offset,
              data |-> d, state |-> SubSeq(s.log, 1, s.snap.index),
              done |-> offset + 1 >= Pieces, seq |-> s.seq, members |-> s.snap.members]
    BY DEF InstallSnapshot, offset
  <1> HIDE DEF d, w, m
  <1>12. m \in InstallOf(M, E)
    BY <1>1, <1>2, <1>3, <1>4, <1>9, <1>11 DEF InstallOf
  <1>13. Exact(m)
    BY <1>4, <1>9, <1>10, <1>11 DEF Exact
  <1>14. Shows(s, m)
    BY <1>9, <1>11, Zenon DEF Shows, w
  <1>15. QED
    BY <1>12, <1>13, <1>14 DEF MessageOf, m

LEMMA AppendMessageForFacts ==
    ASSUME NEW M, NEW E, NEW s, WellMade(s, M, E), NEW p \in Server
    PROVE  AppendMessageFor(s, p) \in MessageOf(M, E) /\ Shows(s, AppendMessageFor(s, p))
  <1>1. s \in Node(M, E)
    BY DEF WellMade
  <1>2. s.snap.index \in Nat /\ NextFor(s, p) \in Nat \ {0}
    BY <1>1, NodeTypes, NextForFacts
  <1>3. CASE NextFor(s, p) <= s.snap.index
    <2>1. s.snap.index > 0
      BY <1>2, <1>3
    <2>2. QED
      BY <2>1, <1>3, InstallSnapshotFacts DEF AppendMessageFor
  <1>4. CASE ~(NextFor(s, p) <= s.snap.index)
    <2>1. EntriesWithin(s, NextFor(s, p)) \in Seq(EntryOf(E))
      BY <1>1, <1>2, EntriesWithinFacts
    <2>2. AppendEntries(s, p, EntriesWithin(s, NextFor(s, p))) \in AppendOf(E)
      BY <2>1, <1>1, AppendEntriesFacts
    <2>3. AppendMessageFor(s, p) \in AppendOf(E)
      BY <2>2, <1>4 DEF AppendMessageFor
    <2>4. QED
      BY <2>3, PlainMessages
  <1>5. QED
    BY <1>3, <1>4

-----------------------------------------------------------------------------
(* What a call does to a node, from s to r: everything the theorems need,  *)
(* stated once for all the calls.  more are the voters, with the term, and *)
(* got the origins of a snapshot, that the call was told of.               *)

(* The snapshot that is arriving: from whom, of which index, whose file.   *)
Origin(s) == <<s.incoming.from, s.incoming.index, s.incoming.pieces[1].by>>
Arrives(s, r, got) ==
    \/ r.incoming.pieces = <<>>
    \/ s.incoming.pieces # <<>> /\ Origin(r) = Origin(s)
    \/ Origin(r) \in got

(* A candidate's and a leader's votes are its own, ones it had in the same *)
(* term, or one it was just given.                                         *)
Backed(s, r, more) ==
    r.role \in Office =>
        \A v \in r.votes : \/ v = r.id /\ r.votedFor = r.id
                           \/ s.role \in Office /\ s.term = r.term /\ v \in s.votes
                           \/ <<v, r.term>> \in more

Majority(vs, ids) == vs # {} /\ Cardinality(ids \cap vs) >= Quorum(vs)
Wins(s, r, M) ==
    r.role = "Leader" =>
        \/ s.role = "Leader" /\ s.term = r.term /\ s.votes = r.votes
        \/ \E ms \in M : Majority(ms.voters, r.votes)

Step(s, r, more, got, M, E) ==
    /\ WellMade(r, M, E)
    /\ r.id = s.id /\ r.boot = s.boot
    /\ r.snap = s.snap \/ r.snap.index > s.snap.index
    /\ r.term >= s.term
    /\ r.term = s.term /\ s.votedFor # Nil => r.votedFor = s.votedFor
    /\ Arrives(s, r, got) /\ Backed(s, r, more) /\ Wins(s, r, M)

LEMMA StepTold ==
    ASSUME NEW M, NEW E, NEW s, NEW r, NEW more, NEW got, Step(s, r, {}, {}, M, E)
    PROVE  Step(s, r, more, got, M, E)
  BY DEF Step, Arrives, Backed

LEMMA StepsCompose ==
    ASSUME NEW M, NEW E, NEW s, NEW u, NEW r, NEW more, NEW got,
           WellMade(s, M, E), Step(s, u, more, got, M, E), Step(u, r, more, got, M, E)
    PROVE  Step(s, r, more, got, M, E)
  <1>1. /\ s.term \in Nat /\ u.term \in Nat /\ r.term \in Nat /\ u.id \in Server
        /\ s.snap.index \in Nat /\ u.snap.index \in Nat /\ r.snap.index \in Nat
    BY NodeTypes DEF WellMade, Step
  <1>2. r.id = s.id /\ r.boot = s.boot /\ r.id = u.id /\ WellMade(r, M, E)
    BY DEF Step
  <1>3. r.snap = s.snap \/ r.snap.index > s.snap.index
    BY <1>1 DEF Step
  <1>4. r.term >= s.term
    BY <1>1 DEF Step
  <1>5. r.term = u.term /\ u.votedFor # Nil => r.votedFor = u.votedFor
    BY DEF Step
  <1>6. ASSUME r.term = s.term, s.votedFor # Nil PROVE r.votedFor = s.votedFor
    <2>1. u.term = s.term /\ r.term = u.term
      BY <1>1, <1>6 DEF Step
    <2>2. QED
      BY <2>1, <1>5, <1>6 DEF Step
  <1>7. Arrives(s, r, got)
    BY DEF Arrives, Step
  <1>8. Backed(s, r, more)
    <2> SUFFICES ASSUME r.role \in Office, NEW v \in r.votes
                 PROVE  \/ v = r.id /\ r.votedFor = r.id
                        \/ s.role \in Office /\ s.term = r.term /\ v \in s.votes
                        \/ <<v, r.term>> \in more
      BY DEF Backed
    <2>1. \/ v = r.id /\ r.votedFor = r.id
          \/ u.role \in Office /\ u.term = r.term /\ v \in u.votes
          \/ <<v, r.term>> \in more
      BY DEF Backed, Step
    <2>2. ASSUME u.role \in Office, u.term = r.term, v \in u.votes
          PROVE  \/ v = r.id /\ r.votedFor = r.id
                 \/ s.role \in Office /\ s.term = r.term /\ v \in s.votes
                 \/ <<v, r.term>> \in more
      <3>1. \/ v = u.id /\ u.votedFor = u.id
            \/ s.role \in Office /\ s.term = u.term /\ v \in s.votes
            \/ <<v, u.term>> \in more
        BY <2>2 DEF Backed, Step
      <3>2. ASSUME v = u.id, u.votedFor = u.id PROVE v = r.id /\ r.votedFor = r.id
        BY <3>2, <2>2, <1>1, <1>2, <1>5, NilAssumption
      <3>3. QED
        BY <3>1, <3>2, <2>2
    <2>3. QED
      BY <2>1, <2>2
  <1>9. Wins(s, r, M)
    <2> SUFFICES ASSUME r.role = "Leader"
                 PROVE  \/ s.role = "Leader" /\ s.term = r.term /\ s.votes = r.votes
                        \/ \E ms \in M : Majority(ms.voters, r.votes)
      BY DEF Wins
    <2>1. \/ u.role = "Leader" /\ u.term = r.term /\ u.votes = r.votes
          \/ \E ms \in M : Majority(ms.voters, r.votes)
      BY DEF Wins, Step
    <2>2. u.role = "Leader" =>
              \/ s.role = "Leader" /\ s.term = u.term /\ s.votes = u.votes
              \/ \E ms \in M : Majority(ms.voters, u.votes)
      BY DEF Wins, Step
    <2>3. QED
      BY <2>1, <2>2
  <1>10. QED
    BY <1>2, <1>3, <1>4, <1>6, <1>7, <1>8, <1>9 DEF Step

LEMMA KeepingIsAStep ==
    ASSUME NEW M, NEW E, NEW s, WellMade(s, M, E), NEW r \in Node(M, E), Keeps(s, r)
    PROVE  Step(s, r, {}, {}, M, E)
  <1>1. WellMade(r, M, E) /\ s.term \in Nat
    BY WhatIsKeptIsWellMade, NodeTypes DEF WellMade
  <1>2. Arrives(s, r, {})
    BY DEF Arrives, Keeps, Origin
  <1>3. Backed(s, r, {}) /\ Wins(s, r, M)
    BY DEF Backed, Wins, Keeps
  <1>4. QED
    BY <1>1, <1>2, <1>3 DEF Step, Keeps

LEMMA StandingStill ==
    ASSUME NEW M, NEW E, NEW s, WellMade(s, M, E)
    PROVE  Step(s, s, {}, {}, M, E)
  <1>1. s \in Node(M, E) /\ Keeps(s, s)
    BY NodeTypes DEF WellMade, Keeps
  <1>2. QED
    BY <1>1, KeepingIsAStep

(* A step that ends out of office, with the snapshots it had.              *)
Retires(s, r) ==
    /\ r.id = s.id /\ r.boot = s.boot /\ r.log = s.log /\ r.snap = s.snap
    /\ r.incoming = s.incoming /\ r.building = s.building
    /\ r.term >= s.term
    /\ r.term = s.term /\ s.votedFor # Nil => r.votedFor = s.votedFor
    /\ r.role \notin Office

LEMMA RetiringIsAStep ==
    ASSUME NEW M, NEW E, NEW s, WellMade(s, M, E), NEW r \in Node(M, E), Retires(s, r)
    PROVE  Step(s, r, {}, {}, M, E)
  <1>1. Sized(r) /\ Termed(r) /\ Whole(r) /\ Begun(r)
    BY DEF Sized, Termed, Whole, Begun, Retires, WellMade
  <1>2. Arrives(s, r, {})
    BY DEF Arrives, Retires, Origin
  <1>3. Backed(s, r, {}) /\ Wins(s, r, M)
    BY DEF Backed, Wins, Retires, Office
  <1>4. QED
    BY <1>1, <1>2, <1>3 DEF Step, Retires, WellMade

LEMMA BecomeFollowerFacts ==
    ASSUME NEW M, NEW E, NEW s, WellMade(s, M, E), NEW t \in Nat, t >= s.term
    PROVE  /\ BecomeFollower(s, t) \in Node(M, E) /\ BecomeFollower(s, t).term = t
           /\ Step(s, BecomeFollower(s, t), {}, {}, M, E)
  <1> DEFINE r == BecomeFollower(s, t)
  <1>1. s \in Node(M, E) /\ s.term \in Nat /\ s.votedFor \in Maybe
    BY NodeTypes DEF WellMade
  <1> DEFINE vote == IF t = s.term THEN s.votedFor ELSE Nil
  <1>a. vote \in Maybe /\ Nil \in Maybe
    BY <1>1 DEF Maybe
  <1>b. r = [s EXCEPT !.role = "Follower", !.leader = Nil, !.votes = {}, !.active = {},
                      !.remote = {}, !.term = t, !.votedFor = vote]
    BY <1>1 DEF BecomeFollower, Node
  <1>c. t = s.term => vote = s.votedFor
    OBVIOUS
  <1> HIDE DEF r, vote
  <1>2. r \in Node(M, E)
    BY <1>1, <1>a, <1>b DEF Node, Role
  <1>3. Retires(s, r) /\ r.term = t
    BY <1>1, <1>b, <1>c DEF Node, Retires, Office
  <1>4. QED
    BY <1>2, <1>3, RetiringIsAStep DEF r

LEMMA UptodateFacts ==
    ASSUME NEW M, NEW E, NEW s, WellMade(s, M, E), NEW m, m.term \in Nat
    PROVE  /\ WellMade(Uptodate(s, m), M, E) /\ Uptodate(s, m).term >= m.term
           /\ Step(s, Uptodate(s, m), {}, {}, M, E)
  <1>1. s.term \in Nat
    BY NodeTypes DEF WellMade
  <1>2. CASE m.term > s.term
    <2>1. Uptodate(s, m) = BecomeFollower(s, m.term) /\ m.term >= s.term
      BY <1>1, <1>2 DEF Uptodate
    <2>2. Step(s, Uptodate(s, m), {}, {}, M, E) /\ Uptodate(s, m).term = m.term
      BY <2>1, BecomeFollowerFacts
    <2>3. QED
      BY <2>2 DEF Step
  <1>3. CASE ~(m.term > s.term)
    <2>1. Uptodate(s, m) = s /\ s.term >= m.term
      BY <1>1, <1>3 DEF Uptodate
    <2>2. QED
      BY <2>1, StandingStill
  <1>4. QED
    BY <1>2, <1>3

(* A call, with what it sends.                                             *)
Acts(s, d, more, got, M, E) ==
    Step(s, d.s, more, got, M, E) /\ Sends(d.s, d.out, M, E)

LEMMA ActsOf ==
    ASSUME NEW M, NEW E, NEW s, NEW more, NEW got, NEW r, NEW out,
           Step(s, r, more, got, M, E), Sends(r, out, M, E)
    PROVE  Acts(s, Does(r, out), more, got, M, E)
  BY DEF Acts, Does

LEMMA OnlyActs ==
    ASSUME NEW M, NEW E, NEW s, NEW more, NEW got, NEW r, Step(s, r, more, got, M, E)
    PROVE  Acts(s, Only(r), more, got, M, E)
  BY ActsOf DEF Only, Sends

LEMMA ActsAfterStep ==
    ASSUME NEW M, NEW E, NEW s, NEW u, NEW d, NEW more, NEW got, WellMade(s, M, E),
           Step(s, u, {}, {}, M, E), Acts(u, d, more, got, M, E)
    PROVE  Acts(s, d, more, got, M, E)
  BY StepsCompose, StepTold DEF Acts

LEMMA ActsBeforeStep ==
    ASSUME NEW M, NEW E, NEW s, NEW u, NEW d, NEW more, NEW got, WellMade(s, M, E),
           Step(s, u, more, got, M, E), Acts(u, d, {}, {}, M, E)
    PROVE  Acts(s, d, more, got, M, E)
  BY StepsCompose, StepTold DEF Acts

LEMMA ReplicasFacts ==
    ASSUME NEW M, NEW E, Closed(M, E), NEW s \in Node(M, E)
    PROVE  Replicas(s) \subseteq Server /\ Peers(s) \subseteq Server /\ Voters(s) \subseteq Server
  <1>1. s.members \in Membership /\ s.departing \in SUBSET Server
    BY NodeTypes DEF Closed
  <1>2. QED
    BY <1>1 DEF Replicas, Peers, Voters, Everyone, Membership

LEMMA BroadcastAppendFacts ==
    ASSUME NEW M, NEW E, Closed(M, E), NEW s, WellMade(s, M, E)
    PROVE  LET d == BroadcastAppend(s) IN
           /\ d.s \in Node(M, E) /\ Keeps(s, d.s) /\ d.s.log = s.log
           /\ WellMade(d.s, M, E) /\ Sends(d.s, d.out, M, E)
  <1> DEFINE r == IF s.departing # {} /\ s.membersAt <= s.commit THEN Reload(s) ELSE s
             out == {AppendMessageFor(r, p) : p \in Replicas(r)}
  <1>1. s \in Node(M, E) /\ Keeps(s, s)
    BY NodeTypes DEF WellMade, Keeps
  <1>2. r \in Node(M, E) /\ Keeps(s, r) /\ r.log = s.log
    BY <1>1, ReloadFacts
  <1>3. BroadcastAppend(s) = [s |-> r, out |-> out]
    BY DEF BroadcastAppend, Does
  <1> HIDE DEF r
  <1>4. WellMade(r, M, E)
    BY <1>2, WhatIsKeptIsWellMade
  <1>5. \A p \in Replicas(r) : AppendMessageFor(r, p) \in MessageOf(M, E)
                               /\ Shows(r, AppendMessageFor(r, p))
    BY <1>2, <1>4, ReplicasFacts, AppendMessageForFacts
  <1>6. Sends(r, out, M, E)
    BY <1>5 DEF Sends
  <1> HIDE DEF out
  <1>7. QED
    BY <1>2, <1>3, <1>4, <1>6

LEMMA BroadcastAppendActs ==
    ASSUME NEW M, NEW E, Closed(M, E), NEW s, WellMade(s, M, E)
    PROVE  Acts(s, BroadcastAppend(s), {}, {}, M, E)
  BY BroadcastAppendFacts, KeepingIsAStep DEF Acts

LEMMA BecomeLeaderActs ==
    ASSUME NEW M, NEW E, Closed(M, E), NEW s, WellMade(s, M, E),
           s.role = "Candidate", HasQuorum(s, s.votes)
    PROVE  Acts(s, BecomeLeader(s), {}, {}, M, E)
  <1> DEFINE pg == [p \in Server |-> Sent(0, 0)]
             zero == [p \in Server |-> 0]
             nx == [p \in Server |-> IF p \in Replicas(s) THEN LastIndex(s) + 1 ELSE 0]
             r == [s EXCEPT !.role = "Leader", !.leader = s.id, !.active = {}, !.remote = {},
                       !.progress = pg, !.acked = zero, !.next = nx, !.match = zero]
             e == DataEntry(s.term, Noop)
             a == AppendLocal(r, e)
             b == [a EXCEPT !.start = LastIndex(a)]
  <1>1. s \in Node(M, E) /\ s.term \in Nat /\ s.term > 0 /\ s.id \in Server /\ LastIndex(s) \in Nat
    BY NodeTypes DEF WellMade, Termed, Office, LastIndex
  <1>2. pg \in [Server -> Sending] /\ zero \in [Server -> Nat] /\ nx \in [Server -> Nat]
    BY <1>1, SizesAssumption DEF Sent, Sending
  <1>3. e \in EntryOf(E)
    BY <1>1 DEF DataEntry, EntryOf, Closed
  <1> HIDE DEF pg, zero, nx, e
  <1>4. r \in Node(M, E)
    BY <1>1, <1>2 DEF Node, Role, Maybe
  <1>5. /\ r.id = s.id /\ r.boot = s.boot /\ r.term = s.term /\ r.votedFor = s.votedFor
        /\ r.votes = s.votes /\ r.snap = s.snap /\ r.incoming = s.incoming
        /\ r.building = s.building /\ r.log = s.log /\ r.role = "Leader"
    BY <1>1 DEF Node
  <1> HIDE DEF r
  <1>6. WellMade(r, M, E)
    <2>1. Sized(r) /\ Termed(r) /\ Whole(r) /\ Begun(r)
      BY <1>1, <1>5 DEF Sized, Termed, Whole, Begun, WellMade
    <2>2. QED
      BY <2>1, <1>4 DEF WellMade
  <1>7. Step(s, r, {}, {}, M, E)
    <2>1. Arrives(s, r, {})
      BY <1>5 DEF Arrives, Origin
    <2>2. Backed(s, r, {})
      BY <1>5 DEF Backed, Office
    <2>3. s.members \in M /\ Majority(s.members.voters, r.votes)
      BY <1>1, <1>5, NodeTypes DEF HasQuorum, Majority, Voters
    <2>4. Wins(s, r, M)
      BY <2>3 DEF Wins
    <2>5. QED
      BY <2>1, <2>2, <2>4, <1>1, <1>5, <1>6 DEF Step
  <1>8. a \in Node(M, E) /\ Keeps(r, a)
    BY <1>3, <1>4, AppendLocalFacts
  <1> HIDE DEF a
  <1>9. LastIndex(a) \in Nat
    BY <1>8, NodeTypes DEF LastIndex
  <1>10. b \in Node(M, E) /\ b.log = a.log
    BY <1>8, <1>9 DEF Node
  <1>11. Keeps(a, b)
    BY <1>8, <1>10, NodeTypes DEF Node, Keeps
  <1> HIDE DEF b
  <1>12. Keeps(r, b)
    BY <1>4, <1>8, <1>10, <1>11, KeepsIsTransitive
  <1>13. WellMade(b, M, E) /\ Step(r, b, {}, {}, M, E)
    BY <1>6, <1>10, <1>12, WhatIsKeptIsWellMade, KeepingIsAStep
  <1>14. Step(s, b, {}, {}, M, E)
    BY <1>7, <1>13, StepsCompose
  <1>15. BecomeLeader(s) = BroadcastAppend(b)
    BY DEF BecomeLeader, b, a, e, r, pg, zero, nx
  <1>16. QED
    BY <1>13, <1>14, <1>15, BroadcastAppendActs, ActsAfterStep

LEMMA BecomeCandidateActs ==
    ASSUME NEW M, NEW E, Closed(M, E), NEW s, WellMade(s, M, E)
    PROVE  Acts(s, BecomeCandidate(s), {}, {}, M, E)
  <1> DEFINE r == [s EXCEPT !.role = "Candidate", !.leader = Nil, !.remote = {},
                       !.term = NextTerm(s), !.votedFor = s.id, !.votes = {s.id}]
             out == {RequestVote(r, p) : p \in Peers(r)}
  <1>1. s \in Node(M, E) /\ s.term \in Nat /\ s.id \in Server
    BY NodeTypes DEF WellMade
  <1>2. NextTerm(s) = s.term + 1 /\ NextTerm(s) \in Nat
    BY <1>1 DEF NextTerm
  <1>3. r \in Node(M, E)
    BY <1>1, <1>2 DEF Node, Role, Maybe
  <1>4. /\ r.id = s.id /\ r.boot = s.boot /\ r.term = s.term + 1 /\ r.votedFor = s.id
        /\ r.votes = {s.id} /\ r.snap = s.snap /\ r.incoming = s.incoming
        /\ r.building = s.building /\ r.log = s.log /\ r.role = "Candidate"
    BY <1>1, <1>2 DEF Node
  <1> HIDE DEF r
  <1>5. Sized(r) /\ Termed(r) /\ Whole(r) /\ Begun(r)
    BY <1>1, <1>4 DEF Sized, Termed, Whole, Begun, WellMade
  <1>6. WellMade(r, M, E)
    BY <1>3, <1>5 DEF WellMade
  <1>7. Step(s, r, {}, {}, M, E)
    <2>1. Arrives(s, r, {}) /\ Backed(s, r, {}) /\ Wins(s, r, M)
      BY <1>4 DEF Arrives, Origin, Backed, Wins
    <2>2. QED
      BY <2>1, <1>1, <1>4, <1>6 DEF Step
  <1>8. BecomeCandidate(s) = IF HasQuorum(r, r.votes) THEN BecomeLeader(r) ELSE Does(r, out)
    BY DEF BecomeCandidate, r
  <1>9. CASE HasQuorum(r, r.votes)
    BY <1>4, <1>6, <1>7, <1>8, <1>9, BecomeLeaderActs, ActsAfterStep
  <1>10. CASE ~HasQuorum(r, r.votes)
    <2>1. \A p \in Peers(r) : RequestVote(r, p) \in VoteRequest
      BY <1>3, <1>5, ReplicasFacts, VoteRequestFacts
    <2>2. Sends(r, out, M, E)
      BY <2>1, PlainMessages DEF Sends
    <2>3. QED
      BY <2>2, <1>7, <1>8, <1>10, ActsOf
  <1>11. QED
    BY <1>9, <1>10

LEMMA BecomePreCandidateActs ==
    ASSUME NEW M, NEW E, Closed(M, E), NEW s, WellMade(s, M, E)
    PROVE  Acts(s, BecomePreCandidate(s), {}, {}, M, E)
  <1> DEFINE r == [s EXCEPT !.role = "PreCandidate", !.leader = Nil, !.remote = {},
                       !.votes = {s.id}]
             out == {PreVote(r, p) : p \in Peers(r)}
  <1>1. s \in Node(M, E) /\ s.term \in Nat /\ s.id \in Server
    BY NodeTypes DEF WellMade
  <1>2. r \in Node(M, E)
    BY <1>1 DEF Node, Role, Maybe
  <1>3. Retires(s, r)
    BY <1>1 DEF Node, Retires, Office
  <1> HIDE DEF r
  <1>4. Step(s, r, {}, {}, M, E)
    BY <1>2, <1>3, RetiringIsAStep
  <1>5. WellMade(r, M, E) /\ Sized(r)
    BY <1>4 DEF Step, WellMade
  <1>6. BecomePreCandidate(s) = IF HasQuorum(r, r.votes) THEN BecomeCandidate(r) ELSE Does(r, out)
    BY DEF BecomePreCandidate, r
  <1>7. CASE HasQuorum(r, r.votes)
    BY <1>4, <1>5, <1>6, <1>7, BecomeCandidateActs, ActsAfterStep
  <1>8. CASE ~HasQuorum(r, r.votes)
    <2>1. \A p \in Peers(r) : PreVote(r, p) \in VoteRequest
      BY <1>2, <1>5, ReplicasFacts, VoteRequestFacts
    <2>2. Sends(r, out, M, E)
      BY <2>1, PlainMessages DEF Sends
    <2>3. QED
      BY <2>2, <1>4, <1>6, <1>8, ActsOf
  <1>9. QED
    BY <1>7, <1>8

LEMMA CampaignActs ==
    ASSUME NEW M, NEW E, Closed(M, E), NEW s, WellMade(s, M, E)
    PROVE  Acts(s, Campaign(s), {}, {}, M, E)
  BY BecomeCandidateActs, StandingStill, OnlyActs DEF Campaign

LEMMA VoteReplyFacts ==
    ASSUME NEW M, NEW E, NEW s \in Node(M, E), NEW m, m.from \in Server,
           NEW type \in {"PreVoteReply", "RequestVoteReply"}, NEW t \in Nat,
           NEW granted \in BOOLEAN
    PROVE  VoteReply(type, s, m, t, granted) \in VoteAnswer
  BY NodeTypes DEF VoteReply, VoteAnswer

LEMMA HandlePreVoteActs ==
    ASSUME NEW M, NEW E, NEW s, WellMade(s, M, E), NEW m \in VoteRequest
    PROVE  Acts(s, HandlePreVote(s, m), {}, {}, M, E)
  <1> DEFINE granted == s.leader = Nil /\ m.term > s.term /\ IsUpToDate(s, m)
             t == IF granted THEN m.term ELSE s.term
             a == VoteReply("PreVoteReply", s, m, t, granted)
  <1>1. s \in Node(M, E) /\ m.from \in Server /\ t \in Nat /\ granted \in BOOLEAN
    BY NodeTypes DEF WellMade, VoteRequest
  <1>2. HandlePreVote(s, m) = Does(s, {a})
    BY DEF HandlePreVote
  <1> HIDE DEF t, granted
  <1>3. a \in VoteAnswer /\ a.type = "PreVoteReply"
    BY <1>1, VoteReplyFacts DEF VoteReply
  <1> HIDE DEF a
  <1>4. Sends(s, {a}, M, E)
    BY <1>3, PlainMessages DEF Sends
  <1>5. QED
    BY <1>2, <1>4, StandingStill, ActsOf

LEMMA HandlePreVoteReplyActs ==
    ASSUME NEW M, NEW E, Closed(M, E), NEW s, WellMade(s, M, E), NEW m \in VoteAnswer
    PROVE  Acts(s, HandlePreVoteReply(s, m), {}, {}, M, E)
  <1> DEFINE r == [s EXCEPT !.votes = @ \cup {m.from}]
  <1>1. s \in Node(M, E) /\ s.term \in Nat /\ m.from \in Server /\ m.term \in Nat
        /\ s.votes \in SUBSET Server
    BY NodeTypes DEF WellMade, VoteAnswer
  <1>2. ASSUME s.role = "PreCandidate" PROVE Step(s, r, {}, {}, M, E)
    <2>1. r \in Node(M, E)
      BY <1>1 DEF Node
    <2>2. Retires(s, r)
      <3>1. /\ r.id = s.id /\ r.boot = s.boot /\ r.log = s.log /\ r.snap = s.snap
            /\ r.incoming = s.incoming /\ r.building = s.building /\ r.term = s.term
            /\ r.votedFor = s.votedFor /\ r.role = s.role
        BY <1>1 DEF Node
      <3> HIDE DEF r
      <3>2. QED
        BY <3>1, <1>1, <1>2 DEF Retires, Office
    <2>3. QED
      BY <2>1, <2>2, RetiringIsAStep
  <1>3. ASSUME s.role = "PreCandidate" PROVE Acts(s, BecomeCandidate(r), {}, {}, M, E)
    <2>1. Step(s, r, {}, {}, M, E) /\ WellMade(r, M, E)
      BY <1>2, <1>3 DEF Step
    <2> HIDE DEF r
    <2>2. QED
      BY <2>1, BecomeCandidateActs, ActsAfterStep
  <1>4. m.term > s.term => Step(s, BecomeFollower(s, m.term), {}, {}, M, E)
    BY <1>1, BecomeFollowerFacts
  <1>5. \/ HandlePreVoteReply(s, m) = Only(s)
        \/ s.role = "PreCandidate" /\ HandlePreVoteReply(s, m) = BecomeCandidate(r)
        \/ s.role = "PreCandidate" /\ HandlePreVoteReply(s, m) = Only(r)
        \/ m.term > s.term /\ HandlePreVoteReply(s, m) = Only(BecomeFollower(s, m.term))
    BY DEF HandlePreVoteReply
  <1> HIDE DEF r
  <1>6. QED
    BY <1>2, <1>3, <1>4, <1>5, StandingStill, OnlyActs

LEMMA HandleRequestVoteActs ==
    ASSUME NEW M, NEW E, NEW s, WellMade(s, M, E), NEW m \in VoteRequest
    PROVE  Acts(s, HandleRequestVote(s, m), {}, {}, M, E)
  <1> DEFINE granted == s.votedFor \in {Nil, m.from} /\ IsUpToDate(s, m)
             vote == IF granted THEN m.from ELSE s.votedFor
             r == [s EXCEPT !.votedFor = vote]
             a == VoteReply("RequestVoteReply", s, m, s.term, granted)
  <1>1. s \in Node(M, E) /\ s.term \in Nat /\ m.from \in Server /\ vote \in Maybe
        /\ s.votedFor \in Maybe /\ granted \in BOOLEAN
    BY NodeTypes DEF WellMade, VoteRequest, Maybe
  <1>2. s.votedFor # Nil => vote = s.votedFor
    OBVIOUS
  <1>3. HandleRequestVote(s, m) = Does(r, {a})
    BY Zenon DEF HandleRequestVote
  <1>4. granted => vote = m.from
    OBVIOUS
  <1> HIDE DEF vote, granted
  <1>5. r \in Node(M, E)
    BY <1>1 DEF Node
  <1>6. /\ r.id = s.id /\ r.boot = s.boot /\ r.term = s.term /\ r.votedFor = vote
        /\ r.votes = s.votes /\ r.snap = s.snap /\ r.incoming = s.incoming
        /\ r.building = s.building /\ r.log = s.log /\ r.role = s.role
    BY <1>1 DEF Node
  <1> HIDE DEF r
  <1>7. Sized(r) /\ Termed(r) /\ Whole(r) /\ Begun(r)
    BY <1>6 DEF Sized, Termed, Whole, Begun, WellMade
  <1>8. Arrives(s, r, {}) /\ Backed(s, r, {}) /\ Wins(s, r, M)
    BY <1>6 DEF Arrives, Origin, Backed, Wins
  <1>9. Step(s, r, {}, {}, M, E)
    BY <1>1, <1>2, <1>5, <1>6, <1>7, <1>8 DEF Step, WellMade
  <1>10. a \in VoteAnswer
    BY <1>1, VoteReplyFacts
  <1>11. a.type = "RequestVoteReply" /\ a.from = s.id /\ a.to = m.from /\ a.term = s.term
         /\ a.granted = granted
    BY DEF VoteReply
  <1> HIDE DEF a
  <1>12. Exact(a) /\ Shows(r, a)
    BY <1>4, <1>6, <1>11 DEF Exact, Shows
  <1>13. Sends(r, {a}, M, E)
    BY <1>10, <1>12 DEF Sends, MessageOf
  <1>14. QED
    BY <1>3, <1>9, <1>13, ActsOf

LEMMA HandleVoteReplyActs ==
    ASSUME NEW M, NEW E, Closed(M, E), NEW s, WellMade(s, M, E), NEW m \in VoteAnswer
    PROVE  Acts(s, HandleVoteReply(s, m), IF m.granted THEN {<<m.from, m.term>>} ELSE {}, {}, M, E)
  <1> DEFINE r == [s EXCEPT !.votes = @ \cup {m.from}]
             more == {<<m.from, m.term>>}
  <1>1. s \in Node(M, E) /\ s.term \in Nat /\ m.from \in Server /\ s.votes \in SUBSET Server
    BY NodeTypes DEF WellMade, VoteAnswer
  <1>2. ASSUME s.role = "Candidate", m.term = s.term
        PROVE  Step(s, r, more, {}, M, E) /\ WellMade(r, M, E) /\ r.role = "Candidate"
    <2>1. r \in Node(M, E)
      BY <1>1 DEF Node
    <2>2. /\ r.id = s.id /\ r.boot = s.boot /\ r.term = s.term /\ r.votedFor = s.votedFor
          /\ r.votes = s.votes \cup {m.from} /\ r.snap = s.snap /\ r.incoming = s.incoming
          /\ r.building = s.building /\ r.log = s.log /\ r.role = s.role
      BY <1>1 DEF Node
    <2> HIDE DEF r
    <2>3. Sized(r) /\ Termed(r) /\ Whole(r) /\ Begun(r)
      BY <2>2 DEF Sized, Termed, Whole, Begun, WellMade
    <2>4. Arrives(s, r, {}) /\ Wins(s, r, M)
      BY <2>2, <1>2 DEF Arrives, Origin, Wins
    <2>5. Backed(s, r, more)
      BY <2>2, <1>2 DEF Backed, Office
    <2>6. QED
      BY <2>1, <2>2, <2>3, <2>4, <2>5, <1>1, <1>2 DEF Step, WellMade
  <1> HIDE DEF more
  <1>3. ASSUME s.role = "Candidate", m.term = s.term, HasQuorum(r, r.votes)
        PROVE  Acts(s, BecomeLeader(r), more, {}, M, E)
    <2> HIDE DEF r
    <2>1. QED
      BY <1>2, <1>3, BecomeLeaderActs, ActsBeforeStep
  <1>4. Step(s, s, more, {}, M, E) /\ Step(s, s, {}, {}, M, E)
    BY StandingStill, StepTold
  <1>5. \/ HandleVoteReply(s, m) = Only(s)
        \/ /\ s.role = "Candidate" /\ m.term = s.term /\ m.granted
           /\ \/ HasQuorum(r, r.votes) /\ HandleVoteReply(s, m) = BecomeLeader(r)
              \/ HandleVoteReply(s, m) = Only(r)
    BY DEF HandleVoteReply
  <1> HIDE DEF r
  <1>6. CASE m.granted
    BY <1>2, <1>3, <1>4, <1>5, <1>6, OnlyActs DEF more
  <1>7. CASE ~m.granted
    BY <1>4, <1>5, <1>7, OnlyActs
  <1>8. QED
    BY <1>6, <1>7

-----------------------------------------------------------------------------
(* Replication.                                                            *)

LEMMA ProposeActs ==
    ASSUME NEW M, NEW E, Closed(M, E), NEW s, WellMade(s, M, E), NEW cmds \in Seq(Values)
    PROVE  Acts(s, Propose(s, cmds), {}, {}, M, E)
  <1> DEFINE entries == [i \in DOMAIN cmds |-> DataEntry(s.term, cmds[i])]
             r == [s EXCEPT !.log = @ \o entries]
             c == MaybeCommit(r)
  <1>1. s \in Node(M, E) /\ s.term \in Nat /\ s.log \in Seq(EntryOf(E)) /\ Len(s.log) \in Nat
    BY NodeTypes DEF WellMade
  <1>2. CASE s.role # "Leader"
    BY <1>2, StandingStill, OnlyActs DEF Propose
  <1>3. CASE s.role = "Leader"
    <2>1. s.term > 0
      BY <1>3 DEF WellMade, Termed, Office
    <2>2. DOMAIN cmds = 1 .. Len(cmds) /\ Len(cmds) \in Nat
          /\ \A i \in 1 .. Len(cmds) : cmds[i] \in Values
      OBVIOUS
    <2>3. \A v \in Values : DataEntry(s.term, v) \in EntryOf(E)
      BY <1>1, <2>1 DEF DataEntry, EntryOf, Closed
    <2>4. entries \in Seq(EntryOf(E)) /\ Len(entries) \in Nat
      BY <2>2, <2>3
    <2> HIDE DEF entries
    <2>5. s.log \o entries \in Seq(EntryOf(E)) /\ Len(s.log \o entries) >= Len(s.log)
      BY <1>1, <2>4
    <2>6. r \in Node(M, E) /\ r.log = s.log \o entries
      BY <1>1, <2>5 DEF Node
    <2>7. Keeps(s, r)
      BY <1>1, <2>5, <2>6 DEF Node, Keeps
    <2> HIDE DEF r
    <2>8. c \in Node(M, E) /\ Keeps(r, c)
      BY <2>6, MaybeCommitFacts
    <2> HIDE DEF c
    <2>9. Keeps(s, c)
      BY <1>1, <2>6, <2>7, <2>8, KeepsIsTransitive
    <2>10. WellMade(c, M, E) /\ Step(s, c, {}, {}, M, E)
      BY <2>8, <2>9, WhatIsKeptIsWellMade, KeepingIsAStep
    <2>11. Propose(s, cmds) = BroadcastAppend(c)
      BY <1>3 DEF Propose, c, r, entries
    <2>12. QED
      BY <2>10, <2>11, BroadcastAppendActs, ActsAfterStep
  <1>4. QED
    BY <1>2, <1>3

LEMMA AlreadyHeldFacts ==
    ASSUME NEW M, NEW E, NEW s \in Node(M, E), NEW prev \in Nat,
           prev >= s.snap.index, prev <= Len(s.log), NEW entries \in Seq(EntryOf(E))
    PROVE  /\ AlreadyHeld(s, prev, entries) \in 0 .. Len(entries)
           /\ prev + AlreadyHeld(s, prev, entries) <= Len(s.log)
           /\ \A i \in 1 .. AlreadyHeld(s, prev, entries) :
                 TermAt(s, prev + i) = entries[i].term
  <1> DEFINE S == {k \in 0 .. Len(entries) :
                      \A i \in 1 .. k : TermAt(s, prev + i) = entries[i].term}
             h == AlreadyHeld(s, prev, entries)
  <1>1. Len(entries) \in Nat /\ Len(s.log) \in Nat /\ s.snap.index \in Nat
    BY NodeTypes
  <1>2. S \in SUBSET Nat /\ 0 \in S /\ \A x \in S : x <= Len(entries)
    BY <1>1
  <1>3. h \in S
    BY <1>1, <1>2, MaxFacts DEF AlreadyHeld
  <1> HIDE DEF h
  <1>4. h \in 0 .. Len(entries) /\ \A i \in 1 .. h : TermAt(s, prev + i) = entries[i].term
    BY <1>3
  <1>5. ASSUME h > 0 PROVE prev + h <= Len(s.log)
    <2>1. h \in 1 .. h /\ h \in 1 .. Len(entries) /\ prev + h \in Int
      BY <1>1, <1>4, <1>5
    <2>2. entries[h] \in EntryOf(E)
      BY <2>1
    <2>3. TermAt(s, prev + h) # -1
      BY <2>1, <2>2, <1>4 DEF EntryOf
    <2>4. QED
      BY <2>1, <2>3, TermAtFacts
  <1>6. prev + h <= Len(s.log)
    BY <1>1, <1>4, <1>5
  <1>7. QED
    BY <1>4, <1>6 DEF h

LEMMA SpliceFacts ==
    ASSUME NEW M, NEW E, NEW s \in Node(M, E), NEW prev \in Nat,
           prev >= s.snap.index, prev <= Len(s.log), NEW entries \in Seq(EntryOf(E))
    PROVE  /\ Cut(s, prev, entries) \in Seq(EntryOf(E))
           /\ Len(Cut(s, prev, entries)) >= prev
           /\ Fresh(s, prev, entries) \in Seq(EntryOf(E))
           /\ Cut(s, prev, entries) \o Fresh(s, prev, entries) \in Seq(EntryOf(E))
           /\ Len(Cut(s, prev, entries) \o Fresh(s, prev, entries)) >= prev
  <1> DEFINE h == AlreadyHeld(s, prev, entries)
             cut == Cut(s, prev, entries)
             fresh == Fresh(s, prev, entries)
  <1>1. Len(entries) \in Nat /\ Len(s.log) \in Nat /\ s.log \in Seq(EntryOf(E))
    BY NodeTypes
  <1>2. h \in 0 .. Len(entries) /\ prev + h <= Len(s.log)
    BY AlreadyHeldFacts
  <1> HIDE DEF h
  <1>3. cut = s.log \/ cut = SubSeq(s.log, 1, prev + h)
    BY DEF Cut, h
  <1>4. fresh = SubSeq(entries, h + 1, Len(entries))
    BY DEF Fresh, h
  <1> HIDE DEF cut, fresh
  <1>5. SubSeq(s.log, 1, prev + h) \in Seq(EntryOf(E)) /\ Len(SubSeq(s.log, 1, prev + h)) = prev + h
    BY <1>1, <1>2
  <1>6. cut \in Seq(EntryOf(E)) /\ Len(cut) >= prev /\ Len(cut) \in Nat
    BY <1>1, <1>2, <1>3, <1>5
  <1>7. fresh \in Seq(EntryOf(E)) /\ Len(fresh) \in Nat
    BY <1>1, <1>2, <1>4
  <1>8. cut \o fresh \in Seq(EntryOf(E)) /\ Len(cut \o fresh) = Len(cut) + Len(fresh)
    BY <1>6, <1>7
  <1>9. QED
    BY <1>6, <1>7, <1>8 DEF cut, fresh

(* A follower whose log was cut and filled, no further back than its       *)
(* snapshot.                                                               *)
Refills(s, r) ==
    /\ r.id = s.id /\ r.boot = s.boot /\ r.snap = s.snap /\ r.incoming = s.incoming
    /\ r.building = s.building /\ r.term = s.term /\ r.votedFor = s.votedFor
    /\ r.role \notin Office /\ r.snap.index <= Len(r.log)

LEMMA RefillingIsAStep ==
    ASSUME NEW M, NEW E, NEW s, WellMade(s, M, E), NEW r \in Node(M, E), Refills(s, r)
    PROVE  Step(s, r, {}, {}, M, E)
  <1>1. Sized(r) /\ Termed(r) /\ Whole(r) /\ Begun(r)
    BY DEF Sized, Termed, Whole, Begun, Refills, WellMade
  <1>2. Arrives(s, r, {}) /\ s.term \in Nat
    BY NodeTypes DEF Arrives, Refills, Origin, WellMade
  <1>3. Backed(s, r, {}) /\ Wins(s, r, M)
    BY DEF Backed, Wins, Refills, Office
  <1>4. QED
    BY <1>1, <1>2, <1>3 DEF Step, Refills, WellMade

LEMMA SplicedFacts ==
    ASSUME NEW M, NEW E, Closed(M, E), NEW s \in Node(M, E), s.role \notin Office,
           NEW prev \in Nat, prev >= s.snap.index, prev <= Len(s.log),
           NEW entries \in Seq(EntryOf(E))
    PROVE  /\ Spliced(s, prev, entries) \in Node(M, E)
           /\ Refills(s, Spliced(s, prev, entries))
  <1> DEFINE cut == Cut(s, prev, entries)
             fresh == Fresh(s, prev, entries)
             r == [s EXCEPT !.log = cut \o fresh]
  <1>1. s.snap.index \in Nat /\ cut \o fresh \in Seq(EntryOf(E)) /\ Len(cut \o fresh) >= prev
    BY SpliceFacts, NodeTypes
  <1>2. Spliced(s, prev, entries) = r \/ Spliced(s, prev, entries) = Reload(r)
    BY DEF Spliced
  <1> HIDE DEF cut, fresh
  <1>3. r \in Node(M, E) /\ r.log = cut \o fresh
    BY <1>1 DEF Node
  <1>4. Refills(s, r)
    <2>1. Len(cut \o fresh) \in Nat
      BY <1>1
    <2>2. s.snap.index <= Len(cut \o fresh)
      BY <1>1, <2>1
    <2>3. r.snap = s.snap
      BY DEF Node
    <2>4. QED
      BY <1>3, <2>2, <2>3 DEF Node, Refills
  <1> HIDE DEF r
  <1>5. Reload(r) \in Node(M, E) /\ Keeps(r, Reload(r)) /\ Reload(r).log = r.log
    BY <1>3, ReloadFacts
  <1>6. Refills(s, Reload(r))
    BY <1>4, <1>5 DEF Refills, Keeps
  <1>7. QED
    BY <1>2, <1>3, <1>4, <1>5, <1>6

LEMMA MinFacts ==
    ASSUME NEW S \in SUBSET Nat, S # {}
    PROVE  Min(S) \in S
  <1>1. \E x \in S : \A y \in S : x <= y
    BY LeastMember
  <1>2. QED
    BY <1>1 DEF Min

LEMMA AppendReplyFacts ==
    ASSUME NEW M, NEW E, NEW s \in Node(M, E), NEW m, m.from \in Server, m.seq \in Nat,
           NEW success \in BOOLEAN, NEW match \in Nat, NEW conflict,
           conflict.index \in Nat, conflict.term \in Int
    PROVE  AppendReply(s, m, success, match, conflict) \in AppendAnswer
  BY NodeTypes DEF AppendReply, AppendAnswer

LEMMA ConflictFacts ==
    ASSUME NEW M, NEW E, NEW s \in Node(M, E), NEW prev \in Int
    PROVE  Conflict(s, prev).index \in Nat /\ Conflict(s, prev).term \in Int
  <1>1. s.snap.index \in Nat /\ LastIndex(s) \in Nat /\ TermAt(s, prev) \in Int
    BY NodeTypes, TermAtFacts DEF LastIndex
  <1>2. FirstIndexOfTerm(s, TermAt(s, prev)) \in Nat
    <2> DEFINE held == {i \in Held(s) : TermAt(s, i) = TermAt(s, prev)}
    <2>1. held \in SUBSET Nat
      BY <1>1 DEF Held
    <2>2. held # {} => Min(held) \in Nat
      BY <2>1, MinFacts
    <2>3. FirstIndexOfTerm(s, TermAt(s, prev)) = IF held = {} THEN s.snap.index + 1 ELSE Min(held)
      BY DEF FirstIndexOfTerm
    <2> HIDE DEF held
    <2>4. QED
      BY <2>2, <2>3, <1>1
  <1>3. QED
    BY <1>1, <1>2 DEF Conflict

LEMMA ConcedeFacts ==
    ASSUME NEW M, NEW E, NEW s, WellMade(s, M, E), NEW m, m.from \in Server
    PROVE  LET c == Concede(s, m) IN
           /\ WellMade(c, M, E) /\ Step(s, c, {}, {}, M, E) /\ Retires(s, c)
           /\ c.snap = s.snap /\ c.log = s.log /\ c.role = "Follower" /\ c.commit = s.commit
           /\ c.applied = s.applied
  <1> DEFINE c == Concede(s, m)
  <1>1. s \in Node(M, E) /\ s.term \in Nat
    BY NodeTypes DEF WellMade
  <1>2. c \in Node(M, E)
    BY <1>1 DEF Concede, Node, Role, Maybe
  <1>3. Retires(s, c) /\ c.role = "Follower" /\ c.commit = s.commit /\ c.applied = s.applied
    BY <1>1 DEF Concede, Node, Retires, Office
  <1> HIDE DEF c
  <1>4. Step(s, c, {}, {}, M, E)
    BY <1>2, <1>3, RetiringIsAStep
  <1>5. QED
    BY <1>3, <1>4 DEF Step, Retires, c

LEMMA PastFacts ==
    ASSUME NEW M, NEW E, NEW s, WellMade(s, M, E), NEW m \in AppendOf(E)
    PROVE  /\ Past(s, m).prev \in Nat /\ Past(s, m).entries \in Seq(EntryOf(E))
           /\ Matches(s, Past(s, m).prev, Past(s, m).prevTerm) =>
                 Past(s, m).prev >= s.snap.index /\ Past(s, m).prev <= Len(s.log)
  <1>1. /\ s \in Node(M, E) /\ s.snap.index \in Nat /\ s.snap.index <= Len(s.log)
        /\ Len(s.log) \in Nat
    BY NodeTypes DEF WellMade, Sized
  <1>2. m.prev \in Nat /\ m.prevTerm \in Nat /\ m.entries \in Seq(EntryOf(E))
    BY DEF AppendOf
  <1> DEFINE skip == s.snap.index - m.prev
  <1>3. CASE skip <= 0
    <2>1. Past(s, m) = [prev |-> m.prev, prevTerm |-> m.prevTerm, entries |-> m.entries]
      BY <1>3 DEF Past
    <2>2. TermAt(s, m.prev) = m.prevTerm => s.snap.index <= m.prev /\ m.prev <= Len(s.log)
      BY <1>1, <1>2, TermAtFacts
    <2>3. QED
      BY <2>1, <2>2, <1>2 DEF Matches
  <1>4. CASE ~(skip <= 0)
    <2>1. Past(s, m) = [prev |-> s.snap.index, prevTerm |-> TermAt(s, s.snap.index),
                        entries |-> SubSeq(m.entries, skip + 1, Len(m.entries))]
      BY <1>4 DEF Past
    <2>2. skip \in Nat /\ Len(m.entries) \in Nat
      BY <1>1, <1>2, <1>4
    <2> HIDE DEF skip
    <2>3. SubSeq(m.entries, skip + 1, Len(m.entries)) \in Seq(EntryOf(E))
      BY <1>2, <2>2
    <2>4. QED
      BY <2>1, <2>3, <1>1
  <1>5. QED
    BY <1>3, <1>4

LEMMA HandleAppendEntriesActs ==
    ASSUME NEW M, NEW E, Closed(M, E), NEW s, WellMade(s, M, E), NEW m \in AppendOf(E)
    PROVE  Acts(s, HandleAppendEntries(s, m), {}, {}, M, E)
  <1> DEFINE c == Concede(s, m)
             past == Past(s, m)
             covered == past.prev + Len(past.entries)
             r == Spliced(c, past.prev, past.entries)
             q == [r EXCEPT !.commit = FollowerCommit(@, m.commit, covered)]
             a1 == AppendReply(s, m, TRUE, s.snap.index, NoConflict)
             a2 == AppendReply(s, m, FALSE, 0, Conflict(s, past.prev))
             a3 == AppendReply(s, m, TRUE, covered, NoConflict)
  <1>1. /\ s \in Node(M, E) /\ s.snap.index \in Nat /\ m.from \in Server /\ m.seq \in Nat
        /\ m.commit \in Nat
    BY NodeTypes DEF WellMade, AppendOf
  <1>2. past.prev \in Nat /\ past.entries \in Seq(EntryOf(E)) /\ covered \in Nat
    BY PastFacts
  <1>3. /\ WellMade(c, M, E) /\ Step(s, c, {}, {}, M, E) /\ c.snap = s.snap /\ c.log = s.log
        /\ c.role = "Follower"
    BY <1>1, ConcedeFacts
  <1> HIDE DEF c, past, covered
  <1>4. NoConflict.index \in Nat /\ NoConflict.term \in Int
    BY DEF NoConflict
  <1>5. a1 \in AppendAnswer /\ a3 \in AppendAnswer
    BY <1>1, <1>2, <1>4, AppendReplyFacts
  <1>6. a2 \in AppendAnswer
    <2>1. Conflict(s, past.prev).index \in Nat /\ Conflict(s, past.prev).term \in Int
      BY <1>1, <1>2, ConflictFacts
    <2>2. QED
      BY <2>1, <1>1, AppendReplyFacts
  <1> HIDE DEF a1, a2, a3
  <1>7. Sends(c, {a1}, M, E) /\ Sends(c, {a2}, M, E) /\ Sends(q, {a3}, M, E)
    BY <1>5, <1>6, PlainMessages DEF Sends
  <1>8. ASSUME Matches(s, past.prev, past.prevTerm) PROVE Step(s, q, {}, {}, M, E)
    <2>1. past.prev >= s.snap.index /\ past.prev <= Len(s.log)
      BY <1>8, PastFacts DEF past
    <2>2. c \in Node(M, E) /\ c.role \notin Office
      BY <1>3 DEF WellMade, Office
    <2>3. r \in Node(M, E) /\ Refills(c, r)
      BY <2>1, <2>2, <1>2, <1>3, SplicedFacts
    <2> HIDE DEF r
    <2>4. FollowerCommit(r.commit, m.commit, covered) \in Nat
      <3>1. r.commit \in Nat
        BY <2>3, NodeTypes
      <3>2. \A x, y \in Nat : Min({x, y}) \in Nat
        BY MinFacts
      <3>3. QED
        BY <3>1, <3>2, <1>1, <1>2 DEF FollowerCommit
    <2>5. q \in Node(M, E)
      BY <2>3, <2>4 DEF Node
    <2>6. Refills(c, q)
      BY <2>3 DEF Node, Refills
    <2> HIDE DEF q
    <2>7. Step(c, q, {}, {}, M, E)
      BY <2>5, <2>6, <1>3, RefillingIsAStep
    <2>8. QED
      BY <2>7, <1>3, StepsCompose
  <1>9. \/ HandleAppendEntries(s, m) = Does(c, {a1})
        \/ HandleAppendEntries(s, m) = Does(c, {a2})
        \/ Matches(s, past.prev, past.prevTerm) /\ HandleAppendEntries(s, m) = Does(q, {a3})
    BY DEF HandleAppendEntries, c, past, covered, q, r, a1, a2, a3
  <1> HIDE DEF q
  <1>10. QED
    BY <1>3, <1>7, <1>8, <1>9, ActsOf

LEMMA KeepingActs ==
    ASSUME NEW M, NEW E, NEW s, WellMade(s, M, E), NEW r \in Node(M, E), Keeps(s, r),
           NEW out, Sends(r, out, M, E)
    PROVE  Acts(s, Does(r, out), {}, {}, M, E)
  BY KeepingIsAStep, ActsOf

LEMMA ReachedFacts ==
    ASSUME NEW M, NEW E, NEW s \in Node(M, E), NEW p \in Server, NEW i \in Nat
    PROVE  Reached(s, p, i) \in Node(M, E) /\ Keeps(s, Reached(s, p, i))
  <1> DEFINE mt == [s.match EXCEPT ![p] = i]
             nx == [s.next EXCEPT ![p] = i + 1]
             r == [s EXCEPT !.match = mt, !.next = nx]
  <1>1. mt \in [Server -> Nat] /\ nx \in [Server -> Nat]
    BY NodeTypes
  <1>2. r = [s EXCEPT !.match[p] = i, !.next[p] = i + 1]
    BY DEF Node
  <1>3. Reached(s, p, i) = MaybeCommit(r)
    BY <1>2 DEF Reached
  <1> HIDE DEF mt, nx
  <1>4. r \in Node(M, E) /\ r.log = s.log
    BY <1>1 DEF Node
  <1>5. Keeps(s, r)
    BY <1>4, NodeTypes DEF Node, Keeps
  <1> HIDE DEF r
  <1>6. QED
    BY <1>3, <1>4, <1>5, MaybeCommitFacts, KeepsIsTransitive

LEMMA ResumeFacts ==
    ASSUME NEW M, NEW E, NEW s \in Node(M, E), NEW m \in AppendAnswer
    PROVE  Resume(s, m) \in Nat
  <1> DEFINE S == IndexesOfTerm(s, m.conflictTerm)
  <1>1. s.snap.index \in Nat /\ LastIndex(s) \in Nat /\ m.conflict \in Nat
    BY NodeTypes DEF LastIndex, AppendAnswer
  <1>2. S \in SUBSET Nat /\ \A x \in S : x <= LastIndex(s)
    BY <1>1 DEF IndexesOfTerm
  <1>3. S # {} => Max(S) + 1 \in Nat
    <2> HIDE DEF S
    <2>1. S # {} => Max(S) \in S
      BY <1>1, <1>2, MaxFacts
    <2>2. S # {} => Max(S) \in Nat
      BY <2>1, <1>2
    <2>3. QED
      BY <2>2
  <1>4. Max({m.conflict, 1}) \in Nat
    BY <1>1, MaxOfTwo
  <1>5. QED
    BY <1>3, <1>4 DEF Resume

LEMMA HandleAppendReplyActs ==
    ASSUME NEW M, NEW E, Closed(M, E), NEW s, WellMade(s, M, E), NEW m \in AppendAnswer
    PROVE  Acts(s, HandleAppendReply(s, m), {}, {}, M, E)
  <1> DEFINE r == Reached(s, m.from, m.match)
             nx == [s.next EXCEPT ![m.from] = Resume(s, m)]
             b == [s EXCEPT !.next = nx]
             more == IF m.match < LastIndex(r) THEN {AppendMessageFor(r, m.from)} ELSE {}
  <1>1. s \in Node(M, E) /\ m.from \in Server /\ m.match \in Nat /\ Resume(s, m) \in Nat
    BY ResumeFacts DEF WellMade, AppendAnswer
  <1>2. r \in Node(M, E) /\ Keeps(s, r)
    BY <1>1, ReachedFacts
  <1>3. nx \in [Server -> Nat]
    BY <1>1, NodeTypes
  <1>4. b = [s EXCEPT !.next[m.from] = Resume(s, m)]
    BY <1>1 DEF Node
  <1>5. \/ HandleAppendReply(s, m) = Does(b, {AppendMessageFor(b, m.from)})
        \/ HandleAppendReply(s, m) = Only(s)
        \/ HandleAppendReply(s, m) = Does(r, more)
    BY <1>4 DEF HandleAppendReply
  <1> HIDE DEF nx
  <1>6. b \in Node(M, E) /\ b.log = s.log
    BY <1>1, <1>3 DEF Node
  <1>7. Keeps(s, b)
    BY <1>1, <1>6, NodeTypes DEF Node, Keeps
  <1> HIDE DEF b, r
  <1>8. WellMade(b, M, E) /\ WellMade(r, M, E)
    BY <1>2, <1>6, <1>7, WhatIsKeptIsWellMade
  <1>9. Sends(b, {AppendMessageFor(b, m.from)}, M, E) /\ Sends(r, more, M, E)
    BY <1>1, <1>8, AppendMessageForFacts DEF Sends
  <1> HIDE DEF more
  <1>10. QED
    BY <1>2, <1>5, <1>6, <1>7, <1>9, KeepingActs, StandingStill, OnlyActs

-----------------------------------------------------------------------------
(* Reads.                                                                  *)

LEMMA ReadAtFacts ==
    ASSUME NEW M, NEW E, NEW s \in Node(M, E)
    PROVE  ReadAt(s) \in Nat
  <1>1. s.commit \in Nat /\ s.start \in Nat
    BY NodeTypes
  <1>2. QED
    BY <1>1, MaxOfTwo DEF ReadAt

LEMMA ReadAnswerFacts ==
    ASSUME NEW M, NEW E, NEW s \in Node(M, E), NEW p \in Server, NEW id \in Nat, NEW i \in Int
    PROVE  ReadIndexReply(s, p, id, i) \in ReadAnswer
  BY NodeTypes DEF ReadIndexReply, ReadAnswer

LEMMA HeardRoundFacts ==
    ASSUME NEW M, NEW E, NEW s \in Node(M, E), NEW m, m.from \in Server, m.seq \in Nat
    PROVE  LET h == HeardRound(s, m) IN
           h.s \in Node(M, E) /\ Keeps(s, h.s) /\ h.out \subseteq ReadAnswer
  <1> DEFINE ak == [s.acked EXCEPT ![m.from] = Max({@, m.seq})]
             r == [s EXCEPT !.active = @ \cup {m.from}, !.acked = ak]
             done == {q \in r.remote : RoundConfirmed(r, q.seq)}
             q == [r EXCEPT !.remote = @ \ done]
             out == {ReadIndexReply(r, x.from, x.id, x.index) : x \in done}
  <1>1. s.acked \in [Server -> Nat] /\ s.active \in SUBSET Server
    BY NodeTypes
  <1>2. Max({s.acked[m.from], m.seq}) \in Nat
    BY <1>1, MaxOfTwo
  <1>3. ak \in [Server -> Nat]
    BY <1>1, <1>2
  <1>4. r = [s EXCEPT !.active = @ \cup {m.from}, !.acked[m.from] = Max({@, m.seq})]
    BY DEF Node
  <1>5. HeardRound(s, m) = Does(r, {}) \/ HeardRound(s, m) = Does(q, out)
    BY <1>4, Zenon DEF HeardRound, Only
  <1> HIDE DEF ak
  <1>6. r \in Node(M, E) /\ r.log = s.log
    <2>1. s.active \cup {m.from} \in SUBSET Server
      BY <1>1
    <2>2. r \in Node(M, E)
      BY <2>1, <1>3 DEF Node
    <2>3. r.log = s.log
      BY DEF Node
    <2>4. QED
      BY <2>2, <2>3
  <1>7. Keeps(s, r)
    BY <1>6, NodeTypes DEF Node, Keeps
  <1> HIDE DEF r
  <1>8. r.remote \in SUBSET Remote /\ done \subseteq Remote
    BY <1>6, NodeTypes
  <1> HIDE DEF done
  <1>9. q \in Node(M, E) /\ q.log = r.log
    BY <1>6, <1>8 DEF Node
  <1>10. Keeps(r, q)
    BY <1>6, <1>9, NodeTypes DEF Node, Keeps
  <1> HIDE DEF q
  <1>11. Keeps(s, q)
    BY <1>6, <1>7, <1>9, <1>10, KeepsIsTransitive
  <1>12. \A x \in Remote : x.from \in Server /\ x.id \in Nat /\ x.index \in Int
    BY DEF Remote
  <1>13. out \subseteq ReadAnswer
    BY <1>6, <1>8, <1>12, ReadAnswerFacts
  <1> HIDE DEF out
  <1>14. QED
    BY <1>5, <1>6, <1>7, <1>9, <1>11, <1>13 DEF Does

LEMMA OpenReadRoundFacts ==
    ASSUME NEW M, NEW E, Closed(M, E), NEW s \in Node(M, E)
    PROVE  LET d == OpenReadRound(s) IN
           d.s \in Node(M, E) /\ Keeps(s, d.s) /\ d.out \subseteq AppendOf(E)
  <1> DEFINE r == [s EXCEPT !.seq = @ + 1]
             to == {q \in Replicas(r) : NextFor(r, q) > r.snap.index}
             out == {AppendEntries(r, p, <<>>) : p \in to}
  <1>1. OpenReadRound(s) = [s |-> r, out |-> out]
    BY DEF OpenReadRound, Does
  <1>2. s.seq + 1 \in Nat
    BY NodeTypes
  <1>3. r \in Node(M, E) /\ r.log = s.log
    BY <1>2 DEF Node
  <1>4. Keeps(s, r)
    BY <1>3, NodeTypes DEF Node, Keeps
  <1> HIDE DEF r
  <1>5. to \subseteq Server /\ <<>> \in Seq(EntryOf(E))
    BY <1>3, ReplicasFacts
  <1>6. out \subseteq AppendOf(E)
    BY <1>3, <1>5, AppendEntriesFacts
  <1> HIDE DEF out
  <1>7. QED
    BY <1>1, <1>3, <1>4, <1>6

LEMMA ReadIndexActs ==
    ASSUME NEW M, NEW E, Closed(M, E), NEW s, WellMade(s, M, E), NEW asked \in Nat
    PROVE  Acts(s, ReadIndex(s, asked), {}, {}, M, E)
  <1> DEFINE round == OpenReadRound(s)
             u == round.s
             a == LocalRead(u, ReadAt(s), asked)
             r == [u EXCEPT !.reads = @ \cup {a}]
             f == [s EXCEPT !.nextRead = @ + 1]
             b == ForwardedRead(f, asked)
             g == [f EXCEPT !.reads = @ \cup {b}]
             mm == ReadIndexMessage(f, s.leader, f.nextRead)
  <1>1. s \in Node(M, E) /\ ReadAt(s) \in Nat /\ s.nextRead + 1 \in Nat
    BY NodeTypes, ReadAtFacts DEF WellMade
  <1>2. \/ ReadIndex(s, asked) = Does(r, round.out)
        \/ ReadIndex(s, asked) = Only(s)
        \/ s.leader # Nil /\ ReadIndex(s, asked) = Does(g, {mm})
    BY DEF ReadIndex
  <1>3. u \in Node(M, E) /\ Keeps(s, u) /\ round.out \subseteq AppendOf(E)
    BY <1>1, OpenReadRoundFacts
  <1> HIDE DEF u, round
  <1>4. a \in Asked /\ u.reads \in SUBSET Asked
    BY <1>1, <1>3, NodeTypes DEF LocalRead, Asked
  <1> HIDE DEF a
  <1>5. r \in Node(M, E) /\ r.log = u.log
    BY <1>3, <1>4 DEF Node
  <1>6. Keeps(u, r)
    BY <1>3, <1>5, NodeTypes DEF Node, Keeps
  <1> HIDE DEF r
  <1>7. Acts(s, Does(r, round.out), {}, {}, M, E)
    <2>1. Keeps(s, r)
      BY <1>1, <1>3, <1>5, <1>6, KeepsIsTransitive
    <2>2. Sends(r, round.out, M, E)
      BY <1>3, PlainMessages DEF Sends
    <2>3. QED
      BY <2>1, <2>2, <1>5, KeepingActs
  <1>8. f \in Node(M, E) /\ f.log = s.log
    BY <1>1 DEF Node
  <1>9. Keeps(s, f) /\ f.leader = s.leader
    BY <1>1, <1>8, NodeTypes DEF Node, Keeps
  <1> HIDE DEF f
  <1>10. f.id \in Server /\ f.term \in Nat /\ f.nextRead \in Nat /\ f.leader \in Maybe
         /\ f.reads \in SUBSET Asked
    BY <1>8, NodeTypes
  <1>11. b \in Asked
    BY <1>10 DEF ForwardedRead, Asked, Waiting
  <1> HIDE DEF b
  <1>12. g \in Node(M, E) /\ g.log = f.log
    BY <1>8, <1>10, <1>11 DEF Node
  <1>13. Keeps(f, g)
    <2>1. Len(f.log) \in Nat
      BY <1>8, NodeTypes
    <2>2. Len(g.log) >= Len(f.log)
      BY <2>1, <1>12
    <2>3. QED
      BY <2>2, <1>8 DEF Node, Keeps
  <1> HIDE DEF g
  <1>14. ASSUME s.leader # Nil PROVE Acts(s, Does(g, {mm}), {}, {}, M, E)
    <2>1. Keeps(s, g)
      BY <1>1, <1>8, <1>9, <1>12, <1>13, KeepsIsTransitive
    <2>2. mm \in ReadRequest
      BY <1>9, <1>10, <1>14 DEF ReadIndexMessage, ReadRequest, Maybe
    <2> HIDE DEF mm
    <2>3. Sends(g, {mm}, M, E)
      BY <2>2, PlainMessages DEF Sends
    <2>4. QED
      BY <2>1, <2>3, <1>12, KeepingActs
  <1> HIDE DEF mm
  <1>15. QED
    BY <1>2, <1>7, <1>14, StandingStill, OnlyActs

LEMMA ForgetReadActs ==
    ASSUME NEW M, NEW E, NEW s, WellMade(s, M, E), NEW read
    PROVE  Acts(s, ForgetRead(s, read), {}, {}, M, E)
  <1> DEFINE r == [s EXCEPT !.reads = @ \ {read}]
  <1>1. s \in Node(M, E) /\ s.reads \in SUBSET Asked
    BY NodeTypes DEF WellMade
  <1>2. r \in Node(M, E) /\ r.log = s.log
    BY <1>1 DEF Node
  <1>3. Keeps(s, r)
    BY <1>1, <1>2, NodeTypes DEF Node, Keeps
  <1> HIDE DEF r
  <1>4. Step(s, r, {}, {}, M, E)
    BY <1>2, <1>3, KeepingIsAStep
  <1>5. QED
    BY <1>4, OnlyActs DEF ForgetRead, r

LEMMA HandleReadIndexActs ==
    ASSUME NEW M, NEW E, Closed(M, E), NEW s, WellMade(s, M, E), NEW m \in ReadRequest
    PROVE  Acts(s, HandleReadIndex(s, m), {}, {}, M, E)
  <1> DEFINE round == OpenReadRound(s)
             u == round.s
             read == [from |-> m.from, id |-> m.id, seq |-> u.seq, index |-> ReadAt(s)]
             r == [u EXCEPT !.remote = @ \cup {read}]
             no == ReadIndexReply(s, m.from, m.id, Refused)
  <1>1. s \in Node(M, E) /\ ReadAt(s) \in Nat /\ m.from \in Server /\ m.id \in Nat
        /\ Refused \in Int
    BY ReadAtFacts DEF WellMade, ReadRequest, Refused
  <1>2. HandleReadIndex(s, m) = Does(s, {no}) \/ HandleReadIndex(s, m) = Does(r, round.out)
    BY DEF HandleReadIndex
  <1>3. u \in Node(M, E) /\ Keeps(s, u) /\ round.out \subseteq AppendOf(E)
    BY <1>1, OpenReadRoundFacts
  <1> HIDE DEF u, round
  <1>4. read \in Remote /\ u.remote \in SUBSET Remote
    BY <1>1, <1>3, NodeTypes DEF Remote
  <1> HIDE DEF read
  <1>5. r \in Node(M, E) /\ r.log = u.log
    BY <1>3, <1>4 DEF Node
  <1>6. Keeps(u, r)
    BY <1>3, <1>5, NodeTypes DEF Node, Keeps
  <1> HIDE DEF r
  <1>7. Keeps(s, r)
    BY <1>1, <1>3, <1>5, <1>6, KeepsIsTransitive
  <1>8. no \in ReadAnswer
    BY <1>1, ReadAnswerFacts
  <1> HIDE DEF no
  <1>9. Sends(r, round.out, M, E) /\ Sends(s, {no}, M, E)
    BY <1>3, <1>8, PlainMessages DEF Sends
  <1>10. QED
    BY <1>2, <1>5, <1>7, <1>9, KeepingActs, StandingStill, ActsOf

LEMMA HandleReadIndexReplyActs ==
    ASSUME NEW M, NEW E, NEW s, WellMade(s, M, E), NEW m \in ReadAnswer
    PROVE  Acts(s, HandleReadIndexReply(s, m), {}, {}, M, E)
  <1> DEFINE mine == {r \in s.reads : r.kind = "Forwarded" /\ r.id = m.id /\ r.answer = Waiting}
             now == (s.reads \ mine) \cup {[r EXCEPT !.answer = m.index] : r \in mine}
             q == [s EXCEPT !.reads = now]
  <1>1. s \in Node(M, E) /\ s.reads \in SUBSET Asked /\ m.index \in Int
    BY NodeTypes DEF WellMade, ReadAnswer
  <1>2. now \in SUBSET Asked
    <2>1. \A r \in Asked : r.kind = "Forwarded" => [r EXCEPT !.answer = m.index] \in Asked
      BY <1>1 DEF Asked
    <2>2. QED
      BY <2>1, <1>1
  <1>3. HandleReadIndexReply(s, m) = Only(q)
    BY DEF HandleReadIndexReply
  <1> HIDE DEF now
  <1>4. q \in Node(M, E) /\ q.log = s.log
    BY <1>1, <1>2 DEF Node
  <1>5. Keeps(s, q)
    BY <1>1, <1>4, NodeTypes DEF Node, Keeps
  <1> HIDE DEF q
  <1>6. QED
    BY <1>3, <1>4, <1>5, KeepingIsAStep, OnlyActs

-----------------------------------------------------------------------------
(* Snapshots.                                                              *)

(* A step that leaves the node's office and its vote alone.                *)
Serves(s, r) ==
    /\ r.id = s.id /\ r.boot = s.boot /\ r.term = s.term /\ r.votedFor = s.votedFor
    /\ r.role = s.role /\ r.votes = s.votes

LEMMA ServingIsAStep ==
    ASSUME NEW M, NEW E, NEW s, WellMade(s, M, E), NEW r, WellMade(r, M, E), Serves(s, r),
           r.snap = s.snap \/ r.snap.index > s.snap.index, NEW got, Arrives(s, r, got)
    PROVE  Step(s, r, {}, got, M, E)
  <1>1. s.term \in Nat
    BY NodeTypes DEF WellMade
  <1>2. Backed(s, r, {}) /\ Wins(s, r, M)
    BY DEF Backed, Wins, Serves
  <1>3. QED
    BY <1>1, <1>2 DEF Step, Serves

LEMMA InstalledFacts ==
    ASSUME NEW M, NEW E, NEW s \in Node(M, E), Sized(s), NEW meta, meta.index \in Nat,
           meta.term \in Nat, meta.members \in M, NEW file \in Seq(Piece),
           NEW state \in Seq(EntryOf(E)), Len(state) = meta.index
    PROVE  LET r == Installed(s, meta, file, state) IN
           /\ r \in Node(M, E) /\ Sized(r) /\ Serves(s, r) /\ r.incoming = s.incoming
           /\ \/ r.snap = s.snap
              \/ /\ meta.index > s.snap.index
                 /\ r.snap = [index |-> meta.index, file |-> file, members |-> meta.members]
  <1> DEFINE lg == IF TermAt(s, meta.index) = meta.term THEN s.log ELSE state
             sn == [index |-> meta.index, file |-> file, members |-> meta.members]
             r == [s EXCEPT !.log = lg, !.snap = sn]
  <1>1. s.log \in Seq(EntryOf(E)) /\ s.snap.index \in Nat /\ Len(s.log) \in Nat
        /\ meta.index \in Int
    BY NodeTypes
  <1>2. lg \in Seq(EntryOf(E)) /\ meta.index <= Len(lg)
    <2>1. TermAt(s, meta.index) = meta.term => meta.index <= Len(s.log)
      BY <1>1, TermAtFacts
    <2>2. QED
      BY <2>1, <1>1
  <1>3. sn \in SnapshotOf(M) /\ sn.index = meta.index
    BY DEF SnapshotOf
  <1>4. Installed(s, meta, file, state) = IF meta.index <= s.snap.index THEN s ELSE r
    BY DEF Installed
  <1> HIDE DEF lg, sn
  <1>5. r \in Node(M, E)
    BY <1>2, <1>3 DEF Node
  <1>6. r.log = lg /\ r.snap = sn /\ r.building = s.building /\ r.incoming = s.incoming
    BY DEF Node
  <1>7. Serves(s, r) /\ Serves(s, s)
    BY DEF Node, Serves
  <1> HIDE DEF r
  <1>8. Sized(r)
    BY <1>2, <1>3, <1>6 DEF Sized
  <1>9. meta.index <= s.snap.index \/ meta.index > s.snap.index
    BY <1>1
  <1>10. QED
    BY <1>4, <1>5, <1>6, <1>7, <1>8, <1>9 DEF sn

LEMMA BeginCompactionActs ==
    ASSUME NEW M, NEW E, Closed(M, E), NEW s, WellMade(s, M, E)
    PROVE  Acts(s, BeginCompaction(s), {}, {}, M, E)
  <1> DEFINE st == SubSeq(s.log, 1, s.applied)
             b == [index |-> s.applied, term |-> TermAt(s, s.applied),
                   members |-> MembersAt(s, s.applied), state |-> st]
             r == [s EXCEPT !.building = b]
  <1>1. s \in Node(M, E) /\ s.applied \in Nat /\ s.applied \in Int /\ s.log \in Seq(EntryOf(E))
    BY NodeTypes DEF WellMade
  <1>2. \/ BeginCompaction(s) = Only(s)
        \/ TermAt(s, s.applied) # -1 /\ BeginCompaction(s) = Only(r)
    BY DEF BeginCompaction
  <1>3. ASSUME TermAt(s, s.applied) # -1 PROVE Step(s, r, {}, {}, M, E)
    <2>1. TermAt(s, s.applied) \in Nat /\ s.applied <= Len(s.log)
      BY <1>1, <1>3, TermAtFacts
    <2>2. st \in Seq(EntryOf(E)) /\ Len(st) = s.applied
      BY <1>1, <2>1
    <2>3. MembersAt(s, s.applied) \in M
      BY <1>1, MembersAtFacts
    <2> HIDE DEF st
    <2>4. b \in BuildingOf(M, E) /\ Len(b.state) = b.index
      BY <1>1, <2>1, <2>2, <2>3 DEF BuildingOf
    <2> HIDE DEF b
    <2>5. r \in Node(M, E)
      BY <1>1, <2>4 DEF Node
    <2>6. /\ r.building = b /\ Serves(s, r) /\ r.snap = s.snap /\ r.log = s.log
          /\ r.incoming = s.incoming
      BY <1>1 DEF Node, Serves
    <2> HIDE DEF r
    <2>7. Sized(r) /\ Termed(r) /\ Whole(r) /\ Begun(r)
      BY <2>4, <2>6 DEF Sized, Termed, Whole, Begun, WellMade, Serves
    <2>8. WellMade(r, M, E) /\ Arrives(s, r, {})
      BY <2>5, <2>6, <2>7 DEF WellMade, Arrives, Origin
    <2>9. QED
      BY <2>6, <2>8, ServingIsAStep
  <1> HIDE DEF r
  <1>4. QED
    BY <1>2, <1>3, StandingStill, OnlyActs

LEMMA FinishCompactionActs ==
    ASSUME NEW M, NEW E, Closed(M, E), NEW s, WellMade(s, M, E)
    PROVE  Acts(s, FinishCompaction(s), {}, {}, M, E)
  <1> DEFINE b == s.building
             u == [s EXCEPT !.building = NotBuilding]
             f == File(s.id, b.index)
             r == Installed(u, b, f, b.state)
  <1>1. s \in Node(M, E) /\ s.id \in Server /\ b \in BuildingOf(M, E)
    BY NodeTypes DEF WellMade
  <1>2. /\ b.index \in Nat /\ b.term \in Nat /\ b.members \in M /\ b.state \in Seq(EntryOf(E))
        /\ Len(b.state) = b.index
    BY <1>1 DEF BuildingOf, WellMade, Sized
  <1>3. NotBuilding \in BuildingOf(M, E) /\ Len(NotBuilding.state) = NotBuilding.index
    BY DEF NotBuilding, BuildingOf, Closed
  <1>4. u \in Node(M, E)
    BY <1>1, <1>3 DEF Node
  <1>5. /\ Serves(s, u) /\ u.snap = s.snap /\ u.log = s.log /\ u.incoming = s.incoming
        /\ u.building = NotBuilding
    BY <1>1 DEF Node, Serves
  <1>6. f \in Seq(Piece) /\ f[1].by = s.id
    <2>1. 1 \in 1 .. Pieces
      BY SizesAssumption
    <2>2. f[1] = [by |-> s.id, index |-> b.index, part |-> 1]
      BY <2>1, <1>1, <1>2, FileFacts
    <2>3. f \in Seq(Piece)
      BY <1>1, <1>2, FileFacts
    <2>4. QED
      BY <2>2, <2>3
  <1>7. Only(r) = FinishCompaction(s)
    BY DEF FinishCompaction
  <1> HIDE DEF b, u
  <1>8. Sized(u)
    BY <1>3, <1>5 DEF Sized, WellMade
  <1>9. /\ r \in Node(M, E) /\ Sized(r) /\ Serves(u, r) /\ r.incoming = u.incoming
        /\ \/ r.snap = u.snap
           \/ /\ b.index > u.snap.index
              /\ r.snap = [index |-> b.index, file |-> f, members |-> b.members]
    <2> HIDE DEF f
    <2>1. QED
      BY <1>2, <1>4, <1>6, <1>8, InstalledFacts
  <1> HIDE DEF r
  <1>10. Serves(s, r) /\ r.incoming = s.incoming
    BY <1>5, <1>9 DEF Serves
  <1>11. Whole(r)
    <2>1. CASE r.snap = u.snap
      BY <2>1, <1>5 DEF Whole, WellMade
    <2>2. CASE r.snap = [index |-> b.index, file |-> f, members |-> b.members]
      BY <2>2, <1>6 DEF Whole
    <2>3. QED
      BY <2>1, <2>2, <1>9
  <1>12. Termed(r) /\ Begun(r) /\ Arrives(s, r, {})
    BY <1>10 DEF Termed, Begun, WellMade, Serves, Arrives, Origin
  <1>13. r.snap = s.snap \/ r.snap.index > s.snap.index
    BY <1>5, <1>9
  <1>14. Step(s, r, {}, {}, M, E)
    BY <1>9, <1>10, <1>11, <1>12, <1>13, ServingIsAStep DEF WellMade
  <1>15. QED
    BY <1>7, <1>14, OnlyActs

LEMMA SnapshotReplyFacts ==
    ASSUME NEW M, NEW E, NEW s \in Node(M, E), NEW m \in InstallOf(M, E),
           NEW offset \in 0 .. Pieces, NEW done \in BOOLEAN, done \/ offset < Pieces, NEW r
    PROVE  Sends(r, {SnapshotReply(s, m, offset, done)}, M, E)
  <1> DEFINE a == SnapshotReply(s, m, offset, done)
  <1>1. s.id \in Server /\ s.term \in Nat /\ m.from \in Server /\ m.index \in Nat /\ m.seq \in Nat
    BY NodeTypes DEF InstallOf
  <1>2. a \in InstallAnswer /\ a.done = done /\ a.offset = offset
    BY <1>1 DEF SnapshotReply, InstallAnswer
  <1> HIDE DEF a
  <1>3. a \in MessageOf(M, E) /\ Shows(r, a)
    BY <1>2, PlainMessages
  <1>4. QED
    BY <1>3 DEF Sends, a

(* The snapshot that is arriving, once the piece of message m is added.    *)
Grown(s, m) ==
    LET begun == IF Continuing(s, m) THEN s.incoming
                 ELSE [from |-> m.from, index |-> m.index, term |-> m.lastTerm,
                       members |-> m.members, pieces |-> <<>>]
    IN  [begun EXCEPT !.pieces = Append(@, m.data)]
HeldOf(s, m) == IF Continuing(s, m) THEN Len(s.incoming.pieces) ELSE 0

(* The piece is of the file whose start the node has.                      *)
Fits(s, m) ==
    Continuing(s, m) /\ s.incoming.pieces # <<>> => s.incoming.pieces[1].by = m.data.by

LEMMA GrownFacts ==
    ASSUME NEW M, NEW E, NEW s, WellMade(s, M, E), NEW m \in InstallOf(M, E), Exact(m),
           Fits(s, m)
    PROVE  /\ HeldOf(s, m) \in 0 .. Pieces - 1
           /\ Grown(s, m) \in IncomingOf(M) /\ Grown(s, m).from = m.from
           /\ Grown(s, m).index = m.index
           /\ Len(Grown(s, m).pieces) = HeldOf(s, m) + 1
           /\ m.offset = HeldOf(s, m) =>
                 \A k \in 1 .. HeldOf(s, m) + 1 :
                     Grown(s, m).pieces[k] = File(m.data.by, m.index)[k]
  <1> DEFINE h == HeldOf(s, m)
             g == Grown(s, m)
  <1>1. /\ m.from \in Server /\ m.index \in Nat /\ m.lastTerm \in Nat /\ m.members \in M
        /\ m.data \in Piece /\ m.offset \in 0 .. Pieces - 1 /\ Pieces \in Nat \ {0}
    BY SizesAssumption DEF InstallOf
  <1>2. m.type = "InstallSnapshot" /\ m.data = File(m.data.by, m.index)[m.offset + 1]
    BY DEF InstallOf, Exact
  <1>3. /\ s.incoming \in IncomingOf(M) /\ s.incoming.pieces \in Seq(Piece)
        /\ Len(s.incoming.pieces) \in Nat
    BY NodeTypes DEF WellMade, IncomingOf
  <1>4. CASE Continuing(s, m)
    <2> DEFINE p == s.incoming.pieces
    <2>1. /\ s.incoming.from = m.from /\ s.incoming.index = m.index /\ h = Len(p)
          /\ g = [s.incoming EXCEPT !.pieces = Append(p, m.data)]
      BY <1>4 DEF Continuing, HeldOf, Grown
    <2>2. h \in 0 .. Pieces - 1
      BY <2>1, <1>1, <1>3 DEF Begun, WellMade
    <2>3. Append(p, m.data) \in Seq(Piece) /\ Len(Append(p, m.data)) = h + 1
      BY <2>1, <1>1, <1>3
    <2>4. /\ g \in IncomingOf(M) /\ g.from = m.from /\ g.index = m.index
          /\ g.pieces = Append(p, m.data)
      BY <2>1, <2>3, <1>3 DEF IncomingOf
    <2>5. ASSUME m.offset = h, NEW k \in 1 .. h + 1
          PROVE  g.pieces[k] = File(m.data.by, m.index)[k]
      <3>1. CASE k = h + 1
        BY <3>1, <2>1, <2>4, <2>5, <1>2, <1>3
      <3>2. CASE k # h + 1
        <4>1. k \in 1 .. Len(p) /\ p # <<>>
          BY <3>2, <2>1, <2>2, <1>3
        <4>2. p[k] = File(p[1].by, s.incoming.index)[k]
          BY <4>1 DEF Begun, WellMade
        <4>3. p[1].by = m.data.by
          BY <4>1, <1>4 DEF Fits
        <4>4. Append(p, m.data)[k] = p[k]
          BY <4>1, <1>3
        <4>5. QED
          BY <4>2, <4>3, <4>4, <2>1, <2>4
      <3>3. QED
        BY <3>1, <3>2
    <2> HIDE DEF h, g
    <2>6. QED
      BY <2>2, <2>3, <2>4, <2>5 DEF h, g
  <1>5. CASE ~Continuing(s, m)
    <2> DEFINE n == [from |-> m.from, index |-> m.index, term |-> m.lastTerm,
                     members |-> m.members, pieces |-> <<>>]
    <2>1. h = 0 /\ g = [n EXCEPT !.pieces = Append(@, m.data)]
      BY <1>5 DEF HeldOf, Grown
    <2>2. Append(<<>>, m.data) \in Seq(Piece) /\ Len(Append(<<>>, m.data)) = 1
          /\ Append(<<>>, m.data)[1] = m.data
      BY <1>1
    <2>3. /\ g \in IncomingOf(M) /\ g.from = m.from /\ g.index = m.index
          /\ g.pieces = Append(<<>>, m.data)
      BY <2>1, <2>2, <1>1 DEF IncomingOf
    <2>4. ASSUME m.offset = h, NEW k \in 1 .. h + 1
          PROVE  g.pieces[k] = File(m.data.by, m.index)[k]
      <3>1. k = 1 /\ m.offset + 1 = 1
        BY <2>1, <2>4
      <3>2. QED
        BY <3>1, <2>2, <2>3, <1>2
    <2>5. h \in 0 .. Pieces - 1 /\ Len(g.pieces) = h + 1
      BY <2>1, <2>2, <2>3, <1>1
    <2> HIDE DEF h, g
    <2>6. QED
      BY <2>3, <2>4, <2>5 DEF h, g
  <1>6. QED
    BY <1>4, <1>5

LEMMA InstallingIsAStep ==
    ASSUME NEW M, NEW E, Closed(M, E), NEW s, WellMade(s, M, E), NEW m \in InstallOf(M, E),
           Exact(m), Fits(s, m), m.done, m.offset = HeldOf(s, m),
           NEW c, WellMade(c, M, E)
    PROVE  LET done == Reload(Installed([c EXCEPT !.incoming = NoIncoming],
                                        Grown(s, m), Grown(s, m).pieces, m.state))
           IN  Step(c, [done EXCEPT !.commit = Max({@, m.index}), !.applied = Max({@, m.index})],
                    {}, {}, M, E)
  <1> DEFINE g == Grown(s, m)
             u == [c EXCEPT !.incoming = NoIncoming]
             i == Installed(u, g, g.pieces, m.state)
             d == Reload(i)
             r == [d EXCEPT !.commit = Max({@, m.index}), !.applied = Max({@, m.index})]
  <1>1. c \in Node(M, E) /\ m.index \in Nat /\ m.state \in Seq(EntryOf(E))
        /\ Len(m.state) = m.index /\ m.data \in Piece /\ Pieces \in Nat \ {0}
        /\ m.offset \in 0 .. Pieces - 1 /\ m.offset + 1 >= Pieces
    BY SizesAssumption DEF WellMade, InstallOf, Exact
  <1>2. /\ g \in IncomingOf(M) /\ g.index = m.index /\ Len(g.pieces) = m.offset + 1
        /\ \A k \in 1 .. m.offset + 1 : g.pieces[k] = File(m.data.by, m.index)[k]
    BY GrownFacts
  <1> HIDE DEF g
  <1>3. g.index \in Nat /\ g.term \in Nat /\ g.members \in M /\ g.pieces \in Seq(Piece)
    BY <1>2 DEF IncomingOf
  <1>4. m.data.by \in Server
    BY <1>1 DEF Piece
  <1>5. g.pieces = File(m.data.by, g.index)
    <2>1. File(m.data.by, g.index) \in Seq(Piece) /\ Len(File(m.data.by, g.index)) = Pieces
      BY <1>3, <1>4, FileFacts
    <2>2. Len(g.pieces) = Pieces
      BY <1>1, <1>2
    <2>3. \A k \in 1 .. Pieces : g.pieces[k] = File(m.data.by, g.index)[k]
      BY <1>1, <1>2
    <2> DEFINE f == File(m.data.by, g.index)
    <2> HIDE DEF f
    <2>4. \A x, y \in Seq(Piece) :
              Len(x) = Len(y) /\ (\A k \in 1 .. Len(x) : x[k] = y[k]) => x = y
      OBVIOUS
    <2>5. QED
      BY <2>1, <2>2, <2>3, <2>4, <1>3
  <1>6. g.pieces[1].by = m.data.by
    <2>1. 1 \in 1 .. Pieces
      BY <1>1
    <2>2. File(m.data.by, g.index)[1] = [by |-> m.data.by, index |-> g.index, part |-> 1]
      BY <2>1, <1>3, <1>4, FileFacts
    <2>3. QED
      BY <2>2, <1>5
  <1>7. NoIncoming \in IncomingOf(M)
    BY DEF NoIncoming, IncomingOf, Closed
  <1>8. u \in Node(M, E)
    BY <1>1, <1>7 DEF Node
  <1>9. /\ Serves(c, u) /\ u.snap = c.snap /\ u.log = c.log /\ u.incoming = NoIncoming
        /\ u.building = c.building
    BY <1>1 DEF Node, Serves
  <1> HIDE DEF u
  <1>10. Sized(u)
    BY <1>9 DEF Sized, WellMade
  <1>11. /\ i \in Node(M, E) /\ Sized(i) /\ Serves(u, i) /\ i.incoming = u.incoming
         /\ \/ i.snap = u.snap
            \/ /\ g.index > u.snap.index
               /\ i.snap = [index |-> g.index, file |-> g.pieces, members |-> g.members]
    BY <1>1, <1>2, <1>3, <1>8, <1>10, InstalledFacts
  <1> HIDE DEF i
  <1>12. Serves(c, i) /\ i.incoming = NoIncoming
    BY <1>9, <1>11 DEF Serves
  <1>13. Whole(i)
    <2>1. CASE i.snap = u.snap
      BY <2>1, <1>9 DEF Whole, WellMade
    <2>2. CASE i.snap = [index |-> g.index, file |-> g.pieces, members |-> g.members]
      BY <2>2, <1>5, <1>6 DEF Whole
    <2>3. QED
      BY <2>1, <2>2, <1>11
  <1>14. Termed(i) /\ Begun(i) /\ Arrives(c, i, {})
    BY <1>12 DEF Termed, Begun, WellMade, Serves, Arrives, NoIncoming
  <1>15. Step(c, i, {}, {}, M, E) /\ WellMade(i, M, E)
    BY <1>9, <1>11, <1>12, <1>13, <1>14, ServingIsAStep DEF WellMade
  <1>16. d \in Node(M, E) /\ Keeps(i, d)
    BY <1>11, ReloadFacts
  <1> HIDE DEF d
  <1>17. Max({d.commit, m.index}) \in Nat /\ Max({d.applied, m.index}) \in Nat
    <2>1. d.commit \in Nat /\ d.applied \in Nat
      BY <1>16, NodeTypes
    <2>2. QED
      BY <2>1, <1>1, MaxOfTwo
  <1>18. r \in Node(M, E) /\ r.log = d.log
    BY <1>16, <1>17 DEF Node
  <1>19. Keeps(d, r)
    <2>1. Len(d.log) \in Nat
      BY <1>16, NodeTypes
    <2>2. Len(r.log) >= Len(d.log)
      BY <2>1, <1>18
    <2>3. QED
      BY <2>2, <1>16 DEF Node, Keeps
  <1> HIDE DEF r
  <1>20. Keeps(i, r)
    BY <1>11, <1>16, <1>18, <1>19, KeepsIsTransitive
  <1>21. Step(i, r, {}, {}, M, E)
    BY <1>15, <1>18, <1>20, KeepingIsAStep
  <1>22. Step(c, r, {}, {}, M, E)
    BY <1>15, <1>21, StepsCompose
  <1>23. QED
    BY <1>22 DEF r, d, i, u, g

LEMMA HandleInstallSnapshotActs ==
    ASSUME NEW M, NEW E, Closed(M, E), NEW s, WellMade(s, M, E), NEW m \in InstallOf(M, E),
           Exact(m), Fits(s, m)
    PROVE  Acts(s, HandleInstallSnapshot(s, m), {}, {<<m.from, m.index, m.data.by>>}, M, E)
  <1> DEFINE got == {<<m.from, m.index, m.data.by>>}
             c == Concede(s, m)
             g == Grown(s, m)
             h == HeldOf(s, m)
             a == [c EXCEPT !.incoming = NoIncoming]
             b == [c EXCEPT !.incoming = g]
             done == Reload(Installed([c EXCEPT !.incoming = NoIncoming], g, g.pieces, m.state))
             r == [done EXCEPT !.commit = Max({@, m.index}), !.applied = Max({@, m.index})]
  <1>1. /\ s \in Node(M, E) /\ m.from \in Server /\ m.offset \in 0 .. Pieces - 1
        /\ m.index \in Nat /\ m.type = "InstallSnapshot" /\ m.done \in BOOLEAN
        /\ m.done = (m.offset + 1 >= Pieces) /\ Pieces \in Nat \ {0}
    BY SizesAssumption DEF WellMade, InstallOf, Exact
  <1>2. /\ WellMade(c, M, E) /\ Step(s, c, {}, {}, M, E) /\ Retires(s, c)
    BY <1>1, ConcedeFacts
  <1>3. /\ h \in 0 .. Pieces - 1 /\ g \in IncomingOf(M) /\ g.from = m.from /\ g.index = m.index
        /\ Len(g.pieces) = h + 1
        /\ m.offset = h => \A k \in 1 .. h + 1 : g.pieces[k] = File(m.data.by, m.index)[k]
    BY GrownFacts
  <1>4. \/ HandleInstallSnapshot(s, m) = Does(a, {SnapshotReply(s, m, 0, TRUE)})
        \/ HandleInstallSnapshot(s, m) = Does(c, {SnapshotReply(s, m, 0, FALSE)})
        \/ HandleInstallSnapshot(s, m) = Does(c, {SnapshotReply(s, m, h, FALSE)})
        \/ /\ m.offset = h /\ ~m.done
           /\ HandleInstallSnapshot(s, m) = Does(b, {SnapshotReply(s, m, h + 1, FALSE)})
        \/ /\ m.offset = h /\ m.done
           /\ HandleInstallSnapshot(s, m) = Does(r, {SnapshotReply(s, m, h + 1, TRUE)})
    <2> DEFINE begun == IF Continuing(s, m) THEN s.incoming
                        ELSE [from |-> m.from, index |-> m.index, term |-> m.lastTerm,
                              members |-> m.members, pieces |-> <<>>]
    <2>1. Len(begun.pieces) = h
      <3>1. CASE Continuing(s, m)
        BY <3>1 DEF HeldOf
      <3>2. CASE ~Continuing(s, m)
        BY <3>2 DEF HeldOf
      <3>3. QED
        BY <3>1, <3>2
    <2>2. [begun EXCEPT !.pieces = Append(@, m.data)] = g
      BY DEF Grown
    <2>3. HandleInstallSnapshot(s, m) =
            IF Unwanted(s, m) THEN Does(a, {SnapshotReply(s, m, 0, TRUE)})
            ELSE IF ~Continuing(s, m) /\ m.offset # 0 THEN Does(c, {SnapshotReply(s, m, 0, FALSE)})
            ELSE IF m.offset # h THEN Does(c, {SnapshotReply(s, m, h, FALSE)})
            ELSE IF ~m.done THEN Does(b, {SnapshotReply(s, m, h + 1, FALSE)})
            ELSE Does(r, {SnapshotReply(s, m, h + 1, TRUE)})
      <3> DEFINE held == Len(begun.pieces)
                 grown == [begun EXCEPT !.pieces = Append(@, m.data)]
                 full == Reload(Installed([c EXCEPT !.incoming = NoIncoming],
                                          grown, grown.pieces, m.state))
      <3>1. HandleInstallSnapshot(s, m) =
              IF Unwanted(s, m) THEN Does(a, {SnapshotReply(s, m, 0, TRUE)})
              ELSE IF ~Continuing(s, m) /\ m.offset # 0
              THEN Does(c, {SnapshotReply(s, m, 0, FALSE)})
              ELSE IF m.offset # held THEN Does(c, {SnapshotReply(s, m, held, FALSE)})
              ELSE IF ~m.done
              THEN Does([c EXCEPT !.incoming = grown], {SnapshotReply(s, m, held + 1, FALSE)})
              ELSE Does([full EXCEPT !.commit = Max({@, m.index}), !.applied = Max({@, m.index})],
                        {SnapshotReply(s, m, held + 1, TRUE)})
        BY Zenon DEF HandleInstallSnapshot
      <3>2. held = h /\ grown = g
        BY <2>1, <2>2
      <3> HIDE DEF held, grown, h, g
      <3>3. QED
        BY <3>1, <3>2, Zenon
    <2> HIDE DEF h, a, b, c, r
    <2>4. QED
      BY <2>3, Zenon
  <1> HIDE DEF c
  <1>5. c \in Node(M, E)
    BY <1>2 DEF WellMade
  <1>6. Step(c, a, {}, got, M, E)
    <2>1. NoIncoming \in IncomingOf(M)
      BY DEF NoIncoming, IncomingOf, Closed
    <2>2. a \in Node(M, E)
      BY <2>1, <1>5 DEF Node
    <2>3. /\ Serves(c, a) /\ a.snap = c.snap /\ a.log = c.log /\ a.incoming = NoIncoming
          /\ a.building = c.building
      BY <1>5 DEF Node, Serves
    <2> HIDE DEF a
    <2>4. Sized(a) /\ Termed(a) /\ Whole(a) /\ Begun(a) /\ Arrives(c, a, got)
      BY <2>3, <1>2 DEF Sized, Termed, Whole, Begun, Serves, WellMade, NoIncoming, Arrives
    <2>5. QED
      BY <2>2, <2>3, <2>4, <1>2, ServingIsAStep DEF WellMade
  <1>7. ASSUME m.offset = h, ~m.done PROVE Step(c, b, {}, got, M, E)
    <2> HIDE DEF g, h
    <2>1. b \in Node(M, E)
      BY <1>3, <1>5 DEF Node
    <2>2. /\ Serves(c, b) /\ b.snap = c.snap /\ b.log = c.log /\ b.incoming = g
          /\ b.building = c.building
      BY <1>5 DEF Node, Serves
    <2> HIDE DEF b
    <2>3. Sized(b) /\ Termed(b) /\ Whole(b)
      BY <2>2, <1>2 DEF Sized, Termed, Whole, Serves, WellMade
    <2>4. g.pieces[1].by = m.data.by
      <3>1. 1 \in 1 .. h + 1 /\ 1 \in 1 .. Pieces
        BY <1>1, <1>3
      <3>2. m.data.by \in Server
        BY DEF InstallOf, Piece
      <3>3. File(m.data.by, m.index)[1] = [by |-> m.data.by, index |-> m.index, part |-> 1]
        BY <3>1, <3>2, <1>1, FileFacts
      <3>4. QED
        BY <3>1, <3>3, <1>3, <1>7
    <2>5. Len(g.pieces) < Pieces
      <3>1. ~(m.offset + 1 >= Pieces)
        BY <1>1, <1>7, Zenon
      <3>2. QED
        BY <3>1, <1>1, <1>3, <1>7
    <2>6. Begun(b)
      BY <2>2, <2>4, <2>5, <1>3, <1>7 DEF Begun
    <2>7. Arrives(c, b, got)
      BY <2>2, <2>4, <1>3 DEF Arrives, Origin
    <2>8. QED
      BY <2>1, <2>2, <2>3, <2>6, <2>7, <1>2, ServingIsAStep DEF WellMade
  <1>8. ASSUME m.offset = h, m.done PROVE Step(c, r, {}, got, M, E)
    BY <1>2, <1>8, InstallingIsAStep, StepTold
  <1> HIDE DEF a, b, r, g, h, got
  <1>9. Step(c, c, {}, got, M, E) /\ Step(s, c, {}, got, M, E)
    BY <1>2, StandingStill, StepTold
  <1>10. \A q : Step(c, q, {}, got, M, E) => Step(s, q, {}, got, M, E)
    BY <1>9, StepsCompose
  <1>11. \A q : /\ Sends(q, {SnapshotReply(s, m, 0, TRUE)}, M, E)
                /\ Sends(q, {SnapshotReply(s, m, 0, FALSE)}, M, E)
                /\ Sends(q, {SnapshotReply(s, m, h, FALSE)}, M, E)
                /\ Sends(q, {SnapshotReply(s, m, h + 1, TRUE)}, M, E)
    <2>1. h \in 0 .. Pieces /\ h < Pieces /\ h + 1 \in 0 .. Pieces /\ 0 \in 0 .. Pieces /\ 0 < Pieces
      BY <1>1, <1>3
    <2>2. QED
      BY <2>1, <1>1, SnapshotReplyFacts
  <1>12. ASSUME m.offset = h, ~m.done, NEW q
         PROVE  Sends(q, {SnapshotReply(s, m, h + 1, FALSE)}, M, E)
    <2>1. h + 1 \in 0 .. Pieces /\ h + 1 < Pieces
      <3>1. ~(m.offset + 1 >= Pieces)
        BY <1>1, <1>12, Zenon
      <3>2. QED
        BY <3>1, <1>1, <1>3, <1>12
    <2>2. QED
      BY <2>1, <1>1, SnapshotReplyFacts
  <1>13. Acts(s, HandleInstallSnapshot(s, m), {}, got, M, E)
    <2>1. Acts(s, Does(a, {SnapshotReply(s, m, 0, TRUE)}), {}, got, M, E)
      BY <1>6, <1>10, <1>11, ActsOf
    <2>2. /\ Acts(s, Does(c, {SnapshotReply(s, m, 0, FALSE)}), {}, got, M, E)
          /\ Acts(s, Does(c, {SnapshotReply(s, m, h, FALSE)}), {}, got, M, E)
      BY <1>9, <1>11, ActsOf
    <2>3. ASSUME m.offset = h, ~m.done
          PROVE  Acts(s, Does(b, {SnapshotReply(s, m, h + 1, FALSE)}), {}, got, M, E)
      <3>1. Step(s, b, {}, got, M, E)
        BY <2>3, <1>7, <1>10
      <3>2. Sends(b, {SnapshotReply(s, m, h + 1, FALSE)}, M, E)
        BY <2>3, <1>12
      <3>3. QED
        BY <3>1, <3>2, ActsOf
    <2>4. ASSUME m.offset = h, m.done
          PROVE  Acts(s, Does(r, {SnapshotReply(s, m, h + 1, TRUE)}), {}, got, M, E)
      <3>1. Step(s, r, {}, got, M, E)
        BY <2>4, <1>8, <1>10
      <3>2. QED
        BY <3>1, <1>11, ActsOf
    <2>5. QED
      BY <1>4, <2>1, <2>2, <2>3, <2>4, Zenon
  <1>14. QED
    BY <1>13 DEF got

LEMMA HandleSnapshotReplyActs ==
    ASSUME NEW M, NEW E, Closed(M, E), NEW s, WellMade(s, M, E), NEW m \in InstallAnswer, Exact(m)
    PROVE  Acts(s, HandleSnapshotReply(s, m), {}, {}, M, E)
  <1> DEFINE p == m.from
             pc == [s.progress EXCEPT ![p] = Sent(0, 0)]
             c == [s EXCEPT !.progress = pc]
             r == IF m.index > s.match[p] THEN Reached(c, p, m.index) ELSE c
             out == IF r.next[p] <= LastIndex(r) THEN {AppendMessageFor(r, p)} ELSE {}
             off == IF m.index = s.snap.index THEN m.offset ELSE 0
             pm == [s.progress EXCEPT ![p] = Sent(s.snap.index, off)]
             more == [s EXCEPT !.progress = pm]
  <1>1. /\ s \in Node(M, E) /\ p \in Server /\ m.index \in Nat /\ m.offset \in 0 .. Pieces
        /\ Pieces \in Nat \ {0} /\ m.type = "SnapshotReply" /\ s.progress \in [Server -> Sending]
        /\ s.snap.index \in Nat /\ Len(s.log) \in Nat
    BY NodeTypes, SizesAssumption DEF WellMade, InstallAnswer
  <1>2. c = [s EXCEPT !.progress[p] = Sent(0, 0)] /\ more = [s EXCEPT !.progress[p] = Sent(s.snap.index, off)]
    BY <1>1 DEF Node
  <1>3. \/ HandleSnapshotReply(s, m) = Does(r, out)
        \/ ~m.done /\ HandleSnapshotReply(s, m) = Does(more, {AppendMessageFor(more, p)})
    BY <1>2 DEF HandleSnapshotReply
  <1>4. pc \in [Server -> Sending]
    <2>1. Sent(0, 0) \in Sending
      BY <1>1 DEF Sent, Sending
    <2>2. QED
      BY <2>1, <1>1
  <1> HIDE DEF pc
  <1>5. c \in Node(M, E) /\ c.log = s.log
    BY <1>1, <1>4 DEF Node
  <1>6. Keeps(s, c)
    <2>1. Len(c.log) >= Len(s.log)
      BY <1>1, <1>5
    <2>2. QED
      BY <2>1, <1>1 DEF Node, Keeps
  <1> HIDE DEF c
  <1>7. r \in Node(M, E) /\ Keeps(s, r)
    <2>1. Reached(c, p, m.index) \in Node(M, E) /\ Keeps(c, Reached(c, p, m.index))
      BY <1>1, <1>5, ReachedFacts
    <2>2. Keeps(s, Reached(c, p, m.index))
      BY <2>1, <1>1, <1>5, <1>6, KeepsIsTransitive
    <2>3. QED
      BY <2>1, <2>2, <1>5, <1>6, Zenon
  <1> HIDE DEF r
  <1>8. WellMade(r, M, E)
    BY <1>7, WhatIsKeptIsWellMade
  <1>9. Sends(r, out, M, E)
    BY <1>1, <1>8, AppendMessageForFacts DEF Sends
  <1> HIDE DEF out
  <1>10. ASSUME ~m.done PROVE Acts(s, Does(more, {AppendMessageFor(more, p)}), {}, {}, M, E)
    <2>1. m.offset < Pieces
      BY <1>1, <1>10 DEF Exact
    <2>2. Sent(s.snap.index, off) \in Sending
      BY <1>1, <2>1 DEF Sent, Sending
    <2>3. pm \in [Server -> Sending]
      BY <2>2, <1>1
    <2> HIDE DEF pm
    <2>4. more \in Node(M, E) /\ more.log = s.log
      BY <1>1, <2>3 DEF Node
    <2>5. Keeps(s, more)
      <3>1. Len(more.log) >= Len(s.log)
        BY <1>1, <2>4
      <3>2. QED
        BY <3>1, <1>1 DEF Node, Keeps
    <2> HIDE DEF more
    <2>6. WellMade(more, M, E)
      BY <2>4, <2>5, WhatIsKeptIsWellMade
    <2>7. Sends(more, {AppendMessageFor(more, p)}, M, E)
      BY <2>6, <1>1, AppendMessageForFacts DEF Sends
    <2>8. QED
      BY <2>4, <2>5, <2>7, KeepingActs
  <1>11. QED
    BY <1>3, <1>7, <1>9, <1>10, KeepingActs

-----------------------------------------------------------------------------
(* Membership, the timers, and step's own rules.                           *)

SameShown(s, r) ==
    r.id = s.id /\ r.term = s.term /\ r.votedFor = s.votedFor /\ r.snap = s.snap

LEMMA ShownAlike ==
    ASSUME NEW M, NEW E, NEW s, NEW r, SameShown(s, r), NEW out, Sends(s, out, M, E)
    PROVE  Sends(r, out, M, E)
  BY DEF Sends, Shows, SameShown

LEMMA ProposeMembershipFacts ==
    ASSUME NEW M, NEW E, Closed(M, E), NEW s, WellMade(s, M, E), NEW ms \in E
    PROVE  LET d == ProposeMembership(s, ms) IN
           d.s \in Node(M, E) /\ Keeps(s, d.s) /\ Sends(d.s, d.out, M, E)
  <1> DEFINE e == ConfigEntry(s.term, ms)
             a == AppendLocal(s, e)
  <1>1. s \in Node(M, E) /\ s.term \in Nat /\ Keeps(s, s)
    BY NodeTypes DEF WellMade, Keeps
  <1>2. \/ ProposeMembership(s, ms) = Only(s)
        \/ s.role = "Leader" /\ ProposeMembership(s, ms) = BroadcastAppend(a)
    BY DEF ProposeMembership, ReadyToServe
  <1>3. CASE ProposeMembership(s, ms) = Only(s)
    BY <1>1, <1>3 DEF Only, Does, Sends
  <1>4. CASE s.role = "Leader" /\ ProposeMembership(s, ms) = BroadcastAppend(a)
    <2>1. s.term > 0
      BY <1>4 DEF WellMade, Termed, Office
    <2>2. e \in EntryOf(E)
      BY <2>1, <1>1 DEF ConfigEntry, EntryOf
    <2> HIDE DEF e
    <2>3. a \in Node(M, E) /\ Keeps(s, a)
      BY <2>2, <1>1, AppendLocalFacts
    <2> HIDE DEF a
    <2>4. WellMade(a, M, E)
      BY <2>3, WhatIsKeptIsWellMade
    <2> DEFINE d == BroadcastAppend(a)
    <2>5. d.s \in Node(M, E) /\ Keeps(a, d.s) /\ Sends(d.s, d.out, M, E)
      BY <2>4, BroadcastAppendFacts
    <2> HIDE DEF d
    <2>6. Keeps(s, d.s)
      BY <2>3, <2>5, <1>1, KeepsIsTransitive
    <2>7. QED
      BY <2>5, <2>6, <1>4 DEF d
  <1>5. QED
    BY <1>2, <1>3, <1>4

LEMMA MaybePromoteFacts ==
    ASSUME NEW M, NEW E, Closed(M, E), NEW s, WellMade(s, M, E), NEW d \in MaybePromote(s)
    PROVE  d.s \in Node(M, E) /\ Keeps(s, d.s) /\ Sends(d.s, d.out, M, E)
  <1>1. s \in Node(M, E) /\ s.members \in M /\ Keeps(s, s)
    BY NodeTypes DEF WellMade, Keeps
  <1>2. \/ d = Only(s)
        \/ \E p \in CaughtUp(s) :
              d = ProposeMembership(s, [voters |-> Voters(s) \cup {p},
                                        learners |-> s.members.learners \ {p}])
    BY DEF MaybePromote
  <1>3. CASE d = Only(s)
    BY <1>1, <1>3 DEF Only, Does, Sends
  <1>4. ASSUME NEW p \in CaughtUp(s),
               d = ProposeMembership(s, [voters |-> Voters(s) \cup {p},
                                         learners |-> s.members.learners \ {p}])
        PROVE  d.s \in Node(M, E) /\ Keeps(s, d.s) /\ Sends(d.s, d.out, M, E)
    <2>1. p \in s.members.learners
      BY DEF CaughtUp
    <2>2. [voters |-> Voters(s) \cup {p}, learners |-> s.members.learners \ {p}] \in E
      BY <2>1, <1>1 DEF Closed, Voters
    <2>3. QED
      BY <2>2, <1>4, ProposeMembershipFacts
  <1>5. QED
    BY <1>2, <1>3, <1>4

LEMMA CheckQuorumFacts ==
    ASSUME NEW M, NEW E, NEW s, WellMade(s, M, E)
    PROVE  Step(s, CheckQuorum(s), {}, {}, M, E) /\ SameShown(s, CheckQuorum(s))
  <1> DEFINE r == [s EXCEPT !.active = {}]
             q == BecomeFollower(s, s.term)
  <1>1. s \in Node(M, E) /\ s.term \in Nat /\ Len(s.log) \in Nat
    BY NodeTypes DEF WellMade
  <1>2. r \in Node(M, E) /\ r.log = s.log
    BY <1>1 DEF Node
  <1>3. Keeps(s, r)
    <2>1. Len(r.log) >= Len(s.log)
      BY <1>1, <1>2
    <2>2. QED
      BY <2>1, <1>1 DEF Node, Keeps
  <1>4. Step(s, r, {}, {}, M, E) /\ SameShown(s, r)
    <2> HIDE DEF r
    <2>1. QED
      BY <1>2, <1>3, KeepingIsAStep DEF SameShown, Keeps
  <1>5. Step(s, q, {}, {}, M, E)
    BY <1>1, BecomeFollowerFacts
  <1>6. SameShown(s, q)
    BY <1>1 DEF Node, BecomeFollower, SameShown
  <1>7. CheckQuorum(s) = r \/ CheckQuorum(s) = q
    BY DEF CheckQuorum
  <1> HIDE DEF r, q
  <1>8. QED
    BY <1>4, <1>5, <1>6, <1>7

LEMMA TickActs ==
    ASSUME NEW M, NEW E, Closed(M, E), NEW s, WellMade(s, M, E), NEW due, NEW d \in Tick(s, due)
    PROVE  Acts(s, d, {}, {}, M, E)
  <1> DEFINE beat == IF due = "heartbeat" THEN BroadcastAppend(s) ELSE Only(s)
             last(p) == IF due = "election" THEN CheckQuorum(p.s) ELSE p.s
             f == [s EXCEPT !.role = "Follower"]
  <1>1. s \in Node(M, E) /\ s.term \in Nat /\ Keeps(s, s)
    BY NodeTypes DEF WellMade, Keeps
  <1>2. \/ d = Only(BecomeFollower(s, s.term))
        \/ \E p \in MaybePromote(beat.s) : d = Does(last(p), beat.out \cup p.out)
        \/ d = Only(s)
        \/ d = BecomePreCandidate(s)
        \/ d = Only(f)
    BY DEF Tick
  <1>3. CASE d = Only(BecomeFollower(s, s.term))
    BY <1>1, <1>3, BecomeFollowerFacts, OnlyActs
  <1>4. ASSUME NEW p \in MaybePromote(beat.s), d = Does(last(p), beat.out \cup p.out)
        PROVE  Acts(s, d, {}, {}, M, E)
    <2>1. beat.s \in Node(M, E) /\ Keeps(s, beat.s) /\ Sends(beat.s, beat.out, M, E)
      <3>1. Only(s).s = s /\ Only(s).out = {}
        BY DEF Only, Does
      <3>2. Only(s).s \in Node(M, E) /\ Keeps(s, Only(s).s) /\ Sends(Only(s).s, Only(s).out, M, E)
        BY <3>1, <1>1 DEF Sends
      <3>3. LET b == BroadcastAppend(s)
            IN  b.s \in Node(M, E) /\ Keeps(s, b.s) /\ Sends(b.s, b.out, M, E)
        BY BroadcastAppendFacts
      <3>4. QED
        BY <3>2, <3>3
    <2> HIDE DEF beat
    <2>2. WellMade(beat.s, M, E)
      BY <2>1, WhatIsKeptIsWellMade
    <2>3. p.s \in Node(M, E) /\ Keeps(beat.s, p.s) /\ Sends(p.s, p.out, M, E)
      BY <2>2, <1>4, MaybePromoteFacts
    <2>4. Keeps(s, p.s)
      BY <2>1, <2>3, <1>1, KeepsIsTransitive
    <2>5. WellMade(p.s, M, E) /\ Step(s, p.s, {}, {}, M, E)
      BY <2>3, <2>4, WhatIsKeptIsWellMade, KeepingIsAStep
    <2>6. Sends(p.s, beat.out, M, E)
      BY <2>1, <2>3, ShownAlike DEF SameShown, Keeps
    <2>7. Sends(p.s, beat.out \cup p.out, M, E)
      BY <2>3, <2>6 DEF Sends
    <2>8. Step(p.s, last(p), {}, {}, M, E) /\ SameShown(p.s, last(p))
      <3>1. Step(p.s, p.s, {}, {}, M, E) /\ SameShown(p.s, p.s)
        BY <2>5, StandingStill DEF SameShown
      <3>2. QED
        BY <3>1, <2>5, CheckQuorumFacts
    <2> DEFINE l == last(p)
    <2> HIDE DEF l, last
    <2>9. Step(s, l, {}, {}, M, E)
      BY <2>5, <2>8, StepsCompose DEF l
    <2>10. Sends(l, beat.out \cup p.out, M, E)
      BY <2>7, <2>8, ShownAlike DEF l
    <2>11. QED
      BY <2>9, <2>10, <1>4, ActsOf DEF l
  <1>5. CASE d = Only(s)
    BY <1>5, StandingStill, OnlyActs
  <1>6. CASE d = BecomePreCandidate(s)
    BY <1>6, BecomePreCandidateActs
  <1>7. CASE d = Only(f)
    <2>1. f \in Node(M, E)
      BY <1>1 DEF Node, Role
    <2>2. Retires(s, f)
      BY <1>1 DEF Node, Retires, Office
    <2> HIDE DEF f
    <2>3. Step(s, f, {}, {}, M, E)
      BY <2>1, <2>2, RetiringIsAStep
    <2>4. QED
      BY <2>3, <1>7, OnlyActs
  <1>8. QED
    BY <1>2, <1>3, <1>4, <1>5, <1>6, <1>7

LEMMA ReplyStaleFacts ==
    ASSUME NEW M, NEW E, NEW s \in Node(M, E), NEW m \in MessageOf(M, E),
           m.type \in {"RequestVote", "AppendEntries", "InstallSnapshot", "ReadIndex"}
    PROVE  Sends(s, {ReplyStale(s, m)}, M, E)
  <1>1. s.id \in Server /\ s.term \in Nat /\ m.from \in Server /\ Pieces \in Nat \ {0}
    BY NodeTypes, KindsOfMessages, SizesAssumption
  <1>2. CASE m.type = "RequestVote"
    <2> DEFINE a == VoteReply("RequestVoteReply", s, m, s.term, FALSE)
    <2>1. ReplyStale(s, m) = a
      BY <1>2 DEF ReplyStale
    <2>2. a \in VoteAnswer /\ ~a.granted
      BY <1>1, VoteReplyFacts DEF VoteReply
    <2> HIDE DEF a
    <2>3. QED
      BY <2>1, <2>2, PlainMessages DEF Sends
  <1>3. CASE m.type = "AppendEntries"
    <2> DEFINE a == [AppendReply(s, m, FALSE, 0, NoConflict) EXCEPT !.seq = 0]
    <2>1. ReplyStale(s, m) = a
      BY <1>3 DEF ReplyStale
    <2>2. m.seq \in Nat
      BY <1>3, KindsOfMessages DEF AppendOf
    <2>3. AppendReply(s, m, FALSE, 0, NoConflict) \in AppendAnswer
      BY <1>1, <2>2 DEF AppendReply, AppendAnswer, NoConflict
    <2>4. a \in AppendAnswer
      BY <2>3 DEF AppendAnswer
    <2> HIDE DEF a
    <2>5. QED
      BY <2>1, <2>4, PlainMessages DEF Sends
  <1>4. CASE m.type = "InstallSnapshot"
    <2> DEFINE a == [SnapshotReply(s, m, 0, FALSE) EXCEPT !.seq = 0]
    <2>1. ReplyStale(s, m) = a
      BY <1>4 DEF ReplyStale
    <2>2. m.index \in Nat /\ m.seq \in Nat
      BY <1>4, KindsOfMessages DEF InstallOf
    <2> DEFINE b == SnapshotReply(s, m, 0, FALSE)
    <2>b. b \in InstallAnswer /\ b.offset = 0
      BY <1>1, <2>2 DEF SnapshotReply, InstallAnswer
    <2> HIDE DEF b
    <2>c. [b EXCEPT !.seq = 0] \in InstallAnswer /\ [b EXCEPT !.seq = 0].offset = 0
      BY <2>b DEF InstallAnswer
    <2>3. a \in InstallAnswer /\ a.offset < Pieces
      <3>1. a = [b EXCEPT !.seq = 0] /\ 0 < Pieces
        BY <1>1 DEF b
      <3>2. QED
        BY <3>1, <2>c
    <2> HIDE DEF a
    <2>4. QED
      BY <2>1, <2>3, PlainMessages DEF Sends
  <1>5. CASE m.type = "ReadIndex"
    <2> DEFINE a == ReadIndexReply(s, m.from, m.id, Refused)
    <2>1. ReplyStale(s, m) = a
      BY <1>5 DEF ReplyStale
    <2>2. m.id \in Nat /\ Refused \in Int
      BY <1>5, KindsOfMessages DEF ReadRequest, Refused
    <2>3. a \in ReadAnswer
      BY <1>1, <2>2, ReadAnswerFacts
    <2> HIDE DEF a
    <2>4. QED
      BY <2>1, <2>3, PlainMessages DEF Sends
  <1>6. QED
    BY <1>2, <1>3, <1>4, <1>5

LEMMA RequestedActs ==
    ASSUME NEW M, NEW E, NEW s, WellMade(s, M, E), NEW m \in MessageOf(M, E),
           m.type \in {"RequestVote", "AppendEntries", "InstallSnapshot", "ReadIndex"},
           NEW handled, NEW more, NEW got,
           Acts(Uptodate(s, m), handled, more, got, M, E)
    PROVE  Acts(s, Requested(s, m, handled), more, got, M, E)
  <1>1. s \in Node(M, E) /\ m.term \in Nat
    BY KindsOfMessages DEF WellMade
  <1>2. Acts(s, Does(s, {ReplyStale(s, m)}), more, got, M, E)
    BY <1>1, ReplyStaleFacts, StandingStill, StepTold, ActsOf
  <1>3. Acts(s, handled, more, got, M, E)
    BY <1>1, UptodateFacts, ActsAfterStep
  <1>4. QED
    BY <1>2, <1>3 DEF Requested

LEMMA AnsweredActs ==
    ASSUME NEW M, NEW E, NEW s, WellMade(s, M, E), NEW m \in MessageOf(M, E),
           NEW heard, heard.out \subseteq ReadAnswer, NEW handled,
           Acts(Uptodate(s, m), handled, {}, {}, M, E)
    PROVE  Acts(s, Answered(Uptodate(s, m), m, heard, handled), {}, {}, M, E)
  <1> DEFINE u == Uptodate(s, m)
  <1>1. m.term \in Nat
    BY KindsOfMessages
  <1>2. Step(s, u, {}, {}, M, E)
    BY <1>1, UptodateFacts
  <1>3. Acts(s, handled, {}, {}, M, E)
    BY <1>2, ActsAfterStep
  <1>4. Sends(handled.s, heard.out \cup handled.out, M, E)
    BY <1>3, PlainMessages DEF Sends, Acts
  <1>5. Acts(s, Does(handled.s, heard.out \cup handled.out), {}, {}, M, E)
    BY <1>3, <1>4, ActsOf DEF Acts
  <1>6. Acts(s, Only(u), {}, {}, M, E)
    BY <1>2, OnlyActs
  <1>7. QED
    BY <1>5, <1>6 DEF Answered

LEMMA AppliedActs ==
    ASSUME NEW M, NEW E, NEW s, WellMade(s, M, E), NEW d, NEW more, NEW got,
           Acts(s, d, more, got, M, E)
    PROVE  Step(s, Applied(d.s), more, got, M, E) /\ Sends(Applied(d.s), d.out, M, E)
  <1> DEFINE u == d.s
             r == Applied(u)
  <1>1. Step(s, u, more, got, M, E) /\ Sends(u, d.out, M, E) /\ WellMade(u, M, E)
    BY DEF Acts, Step
  <1> HIDE DEF u
  <1>2. u \in Node(M, E) /\ u.applied \in Nat /\ u.commit \in Nat /\ Len(u.log) \in Nat
    BY <1>1, NodeTypes DEF WellMade
  <1>3. Max({u.applied, u.commit}) \in Nat
    BY <1>2, MaxOfTwo
  <1>4. r \in Node(M, E) /\ r.log = u.log
    BY <1>2, <1>3 DEF Node, Applied
  <1>5. Keeps(u, r)
    <2>1. Len(r.log) >= Len(u.log)
      BY <1>2, <1>4
    <2>2. QED
      BY <2>1, <1>2 DEF Node, Keeps, Applied
  <1> HIDE DEF r
  <1>6. Step(u, r, more, got, M, E)
    BY <1>1, <1>4, <1>5, KeepingIsAStep, StepTold
  <1>7. Step(s, r, more, got, M, E)
    BY <1>1, <1>6, StepsCompose
  <1>8. Sends(r, d.out, M, E)
    BY <1>1, <1>5, ShownAlike DEF SameShown, Keeps
  <1>9. QED
    BY <1>7, <1>8 DEF r, u

(* What with_members makes of what is in storage.                          *)
LEMMA StartedFacts ==
    ASSUME NEW M, NEW E, Closed(M, E), NEW n \in Server, NEW boot \in M, NEW st,
           st.term \in Nat, st.votedFor \in Maybe, st.snap \in SnapshotOf(M),
           st.log \in Seq(EntryOf(E)), st.snap.index <= Len(st.log)
    PROVE  LET r == Started(n, boot, st) IN
           /\ r \in Node(M, E) /\ Sized(r) /\ Termed(r) /\ Begun(r)
           /\ r.id = n /\ r.boot = boot /\ r.term = st.term /\ r.votedFor = st.votedFor
           /\ r.role = "Follower" /\ r.snap = st.snap /\ r.incoming.pieces = <<>>
  <1> DEFINE zero == [p \in Server |-> 0]
             pg == [p \in Server |-> Sent(0, 0)]
             u == [id |-> n, boot |-> boot, term |-> st.term, votedFor |-> st.votedFor,
                   log |-> st.log, snap |-> st.snap,
                   role |-> "Follower", leader |-> Nil, votes |-> {}, active |-> {}, start |-> 0,
                   commit |-> st.snap.index, applied |-> st.snap.index,
                   next |-> zero, match |-> zero,
                   progress |-> pg, departing |-> {},
                   members |-> Nobody, membersAt |-> 0,
                   incoming |-> NoIncoming, building |-> NotBuilding,
                   seq |-> 0, acked |-> zero, remote |-> {},
                   reads |-> {}, nextRead |-> 0]
             r == Reload(u)
  <1>1. st.snap.index \in Nat
    BY DEF SnapshotOf
  <1>2. Started(n, boot, st) = r
    BY DEF Started
  <1>3. zero \in [Server -> Nat] /\ pg \in [Server -> Sending]
    BY SizesAssumption DEF Sent, Sending
  <1>4. /\ NoIncoming \in IncomingOf(M) /\ NotBuilding \in BuildingOf(M, E) /\ Nobody \in M
        /\ NoIncoming.pieces = <<>> /\ Len(NotBuilding.state) = NotBuilding.index
    BY DEF NoIncoming, NotBuilding, IncomingOf, BuildingOf, Closed
  <1> HIDE DEF zero, pg
  <1>5. u \in Node(M, E)
    BY <1>1, <1>3, <1>4 DEF Node, Maybe, Role
  <1>6. /\ u.id = n /\ u.boot = boot /\ u.term = st.term /\ u.votedFor = st.votedFor
        /\ u.role = "Follower" /\ u.snap = st.snap /\ u.incoming = NoIncoming
        /\ u.building = NotBuilding /\ u.log = st.log
    OBVIOUS
  <1> HIDE DEF u
  <1>7. r \in Node(M, E) /\ Keeps(u, r) /\ r.log = u.log
    BY <1>5, ReloadFacts
  <1> HIDE DEF r
  <1>8. /\ r.id = n /\ r.boot = boot /\ r.term = st.term /\ r.votedFor = st.votedFor
        /\ r.role = "Follower" /\ r.snap = st.snap /\ r.incoming = NoIncoming
        /\ r.building = NotBuilding /\ r.log = st.log
    BY <1>6, <1>7 DEF Keeps
  <1>9. Sized(r)
    BY <1>4, <1>8 DEF Sized
  <1>10. Termed(r) /\ Begun(r)
    BY <1>4, <1>8 DEF Termed, Begun, Office
  <1>11. QED
    BY <1>2, <1>4, <1>7, <1>8, <1>9, <1>10

(* A restart, on what is in storage: the snapshot, the vote, and at least  *)
(* as much of the log as the snapshot covers.                              *)
LEMMA StartingIsAStep ==
    ASSUME NEW M, NEW E, Closed(M, E), NEW s, WellMade(s, M, E), NEW st,
           st.term = s.term, st.votedFor = s.votedFor, st.snap = s.snap,
           st.log \in Seq(EntryOf(E)), s.snap.index <= Len(st.log)
    PROVE  Step(s, Started(s.id, s.boot, st), {}, {}, M, E)
  <1> DEFINE r == Started(s.id, s.boot, st)
  <1>1. /\ s \in Node(M, E) /\ s.id \in Server /\ s.boot \in M /\ s.term \in Nat
        /\ s.votedFor \in Maybe /\ s.snap \in SnapshotOf(M)
    BY NodeTypes DEF WellMade
  <1>2. /\ r \in Node(M, E) /\ Sized(r) /\ Termed(r) /\ Begun(r)
        /\ r.id = s.id /\ r.boot = s.boot /\ r.term = s.term /\ r.votedFor = s.votedFor
        /\ r.role = "Follower" /\ r.snap = s.snap /\ r.incoming.pieces = <<>>
    BY <1>1, StartedFacts
  <1> HIDE DEF r
  <1>3. Whole(r)
    BY <1>2 DEF Whole, WellMade
  <1>4. Arrives(s, r, {}) /\ Backed(s, r, {}) /\ Wins(s, r, M)
    BY <1>2 DEF Arrives, Backed, Wins, Office
  <1>5. Step(s, r, {}, {}, M, E)
    BY <1>1, <1>2, <1>3, <1>4 DEF Step, WellMade
  <1>6. QED
    BY <1>5 DEF r

-----------------------------------------------------------------------------
(* The cluster.                                                            *)

ScenarioOf(E) ==
    [inFlight : Nat, maxTerm : Nat, maxSeq : Nat, ticks : Nat, campaigns : Nat,
     proposals : Nat, restarts : Nat, compactions : Nat, reads : Nat,
     voters : (SUBSET Server) \ {{}}, changes : SUBSET E]

NodesAreWellMade(M, E) ==
    /\ node = [n \in Server |-> node[n]]
    /\ \A n \in Server : WellMade(node[n], M, E) /\ node[n].id = n

MessagesAreWellMade(M, E) == \A m \in msgs : m \in MessageOf(M, E)

CommittedIsBounded == \E b \in Nat : \A c \in committed : c.at \in Nat /\ c.at <= b

(* Something shows that node f has had a snapshot at index i that node w   *)
(* wrote: its storage, a piece it sent, or what someone has of those.      *)
Gave(f, i, w) ==
    \/ i > 0 /\ node[f].snap.index = i /\ node[f].snap.file[1].by = w
    \/ \E m \in msgs : m.type = "InstallSnapshot" /\ m.from = f /\ m.index = i /\ m.data.by = w
    \/ \E n \in Server : node[n].incoming.pieces # <<>> /\ Origin(node[n]) = <<f, i, w>>

(* It has at most one at an index, ever, and moves on only to later ones.  *)
OneFile ==
    \A f, w, x \in Server : \A i \in Nat : Gave(f, i, w) /\ Gave(f, i, x) => w = x
NotAhead ==
    \A f, w \in Server : \A i \in Nat : Gave(f, i, w) => i <= node[f].snap.index

(* Something shows that v has voted for c in term t: its storage, its      *)
(* answer, c's count, or an election c won.                                *)
Voted(v, t, c) ==
    \/ node[v].term = t /\ node[v].votedFor = c
    \/ \E m \in msgs : /\ m.type = "RequestVoteReply" /\ m.granted
                       /\ m.from = v /\ m.term = t /\ m.to = c
    \/ node[c].role \in Office /\ node[c].term = t /\ v \in node[c].votes
    \/ \E e \in elected : e.term = t /\ e.leader = c /\ v \in e.voters

(* It votes once in a term, and what it voted in its own it has on disk.   *)
OneVote ==
    \A v, c, d \in Server : \A t \in Nat : Voted(v, t, c) /\ Voted(v, t, d) => c = d
NotLater ==
    \A v, c \in Server : \A t \in Nat :
        Voted(v, t, c) => /\ t <= node[v].term
                          /\ t = node[v].term => node[v].votedFor = c

(* Every election was won by a majority of a membership.                   *)
WonByMajorities(M) ==
    \A e \in elected :
        /\ e.term \in Nat /\ e.leader \in Server /\ e.voters \in SUBSET Server
        /\ \E ms \in M : Majority(ms.voters, e.voters)

Inv(M, E) ==
    /\ left \in ScenarioOf(E)
    /\ NodesAreWellMade(M, E) /\ MessagesAreWellMade(M, E) /\ CommittedIsBounded
    /\ OneFile /\ NotAhead /\ OneVote /\ NotLater /\ WonByMajorities(M)

(* Node n moves to r and sends out: what a call and a restart have in      *)
(* common.                                                                 *)
Moves(n, r, out) ==
    /\ node' = [node EXCEPT ![n] = r]
    /\ \A m \in msgs' : m \in msgs \/ m \in out
    /\ \A e \in elected' :
          \/ e \in elected
          \/ /\ r.role = "Leader" /\ <<r.role, r.term>> # <<node[n].role, node[n].term>>
             /\ e = [term |-> r.term, leader |-> n, voters |-> r.votes]
    /\ \A c \in committed' : c \in committed \/ c.at \in 1 .. r.commit

LEMMA CallMoves ==
    ASSUME NEW n, NEW r, NEW out, Call(n, r, out)
    PROVE  Moves(n, r, out)
  <1>1. node' = [node EXCEPT ![n] = r]
    BY DEF Call
  <1>2. \A m \in msgs' : m \in msgs \/ m \in out
    BY DEF Call, Send
  <1>3. \A e \in elected' :
          \/ e \in elected
          \/ /\ r.role = "Leader" /\ <<r.role, r.term>> # <<node[n].role, node[n].term>>
             /\ e = [term |-> r.term, leader |-> n, voters |-> r.votes]
    BY DEF Call
  <1>4. \A c \in committed' : c \in committed \/ c.at \in 1 .. r.commit
    <2>1. \A c \in NewlyCommitted(r) : c.at \in 1 .. r.commit
      BY DEF NewlyCommitted
    <2>2. QED
      BY <2>1 DEF Call
  <1>5. QED
    BY <1>1, <1>2, <1>3, <1>4 DEF Moves

LEMMA RestartMoves ==
    ASSUME NEW n, NEW st, Restarted(n, st)
    PROVE  Moves(n, Started(n, node[n].boot, st), {})
  BY DEF Restarted, Moves

(* What a call was told of, something shows.                               *)
Told(n, more, got) ==
    /\ \A v \in Server : \A t \in Nat : <<v, t>> \in more => Voted(v, t, n)
    /\ \A f, w \in Server : \A i \in Nat : <<f, i, w>> \in got => Gave(f, i, w)

LEMMA MovedNodes ==
    ASSUME NEW M, NEW E, NodesAreWellMade(M, E), NEW n \in Server, NEW r, NEW out,
           Moves(n, r, out), WellMade(r, M, E), r.id = n
    PROVE  /\ NodesAreWellMade(M, E)'
           /\ node'[n] = r /\ \A p \in Server : p # n => node'[p] = node[p]
  <1>1. DOMAIN node = Server
    BY DEF NodesAreWellMade
  <1>2. node' = [node EXCEPT ![n] = r]
    BY DEF Moves
  <1>3. node'[n] = r /\ \A p \in Server : p # n => node'[p] = node[p]
    BY <1>1, <1>2
  <1>4. node' = [p \in Server |-> node'[p]]
    BY <1>1, <1>2
  <1>5. \A p \in Server : WellMade(node'[p], M, E) /\ node'[p].id = p
    BY <1>3 DEF NodesAreWellMade
  <1>6. QED
    BY <1>3, <1>4, <1>5 DEF NodesAreWellMade

(* Every sign of a snapshot is an old one or of the snapshot n now has.    *)
LEMMA NewSignsOfFiles ==
    ASSUME NEW M, NEW E, NodesAreWellMade(M, E), MessagesAreWellMade(M, E),
           NEW n \in Server, NEW r, NEW out, Moves(n, r, out), NEW more, NEW got,
           Step(node[n], r, more, got, M, E), Sends(r, out, M, E), Told(n, more, got),
           NEW f \in Server, NEW i \in Nat, NEW w \in Server, Gave(f, i, w)'
    PROVE  \/ Gave(f, i, w)
           \/ i > 0 /\ f = n /\ i = r.snap.index /\ w = r.snap.file[1].by
  <1>1. WellMade(r, M, E) /\ r.id = n /\ node[n].id = n
    BY DEF Step, NodesAreWellMade
  <1>2. node'[n] = r /\ \A p \in Server : p # n => node'[p] = node[p]
    BY <1>1, MovedNodes
  <1>3. CASE i > 0 /\ node'[f].snap.index = i /\ node'[f].snap.file[1].by = w
    BY <1>2, <1>3 DEF Gave
  <1>4. ASSUME NEW m \in msgs', m.type = "InstallSnapshot", m.from = f, m.index = i, m.data.by = w
        PROVE  \/ Gave(f, i, w)
               \/ i > 0 /\ f = n /\ i = r.snap.index /\ w = r.snap.file[1].by
    <2>1. m \in msgs \/ m \in out
      BY DEF Moves
    <2>2. CASE m \in msgs
      BY <2>2, <1>4 DEF Gave
    <2>3. CASE m \in out
      <3>1. m \in MessageOf(M, E) /\ Shows(r, m)
        BY <2>3 DEF Sends
      <3>2. m \in InstallOf(M, E)
        BY <3>1, <1>4, KindsOfMessages
      <3>3. m.index \in Nat \ {0}
        BY <3>2 DEF InstallOf
      <3>4. QED
        BY <3>1, <3>3, <1>1, <1>4 DEF Shows
    <2>4. QED
      BY <2>1, <2>2, <2>3
  <1>5. ASSUME NEW p \in Server, node'[p].incoming.pieces # <<>>, Origin(node'[p]) = <<f, i, w>>
        PROVE  Gave(f, i, w)
    <2>1. CASE p # n
      BY <2>1, <1>2, <1>5 DEF Gave
    <2>2. CASE p = n
      <3>1. r.incoming.pieces # <<>> /\ Origin(r) = <<f, i, w>>
        BY <2>2, <1>2, <1>5
      <3>2. \/ node[n].incoming.pieces # <<>> /\ Origin(r) = Origin(node[n])
            \/ Origin(r) \in got
        BY <3>1 DEF Step, Arrives
      <3>3. QED
        BY <3>1, <3>2 DEF Gave, Told
    <2>3. QED
      BY <2>1, <2>2
  <1>6. \/ i > 0 /\ node'[f].snap.index = i /\ node'[f].snap.file[1].by = w
        \/ \E m \in msgs' : m.type = "InstallSnapshot" /\ m.from = f /\ m.index = i /\ m.data.by = w
        \/ \E p \in Server : node'[p].incoming.pieces # <<>> /\ Origin(node'[p]) = <<f, i, w>>
    BY DEF Gave, Origin
  <1>7. QED
    BY <1>3, <1>4, <1>5, <1>6

LEMMA MovedFiles ==
    ASSUME NEW M, NEW E, NodesAreWellMade(M, E), MessagesAreWellMade(M, E), OneFile, NotAhead,
           NEW n \in Server, NEW r, NEW out, Moves(n, r, out), NEW more, NEW got,
           Step(node[n], r, more, got, M, E), Sends(r, out, M, E), Told(n, more, got)
    PROVE  OneFile' /\ NotAhead'
  <1> DEFINE s == node[n]
             new(f, i, w) == i > 0 /\ f = n /\ i = r.snap.index /\ w = r.snap.file[1].by
  <1>1. WellMade(s, M, E) /\ WellMade(r, M, E) /\ r.id = n
    BY DEF Step, NodesAreWellMade
  <1>2. node'[n] = r /\ \A p \in Server : p # n => node'[p] = node[p]
    BY <1>1, MovedNodes
  <1>3. s.snap.index \in Nat /\ r.snap.index \in Nat
        /\ \A p \in Server : node[p].snap.index \in Nat /\ node'[p].snap.index \in Nat
    <2>1. r.snap.index \in Nat
      BY <1>1, NodeTypes DEF WellMade
    <2>2. \A p \in Server : node[p].snap.index \in Nat
      BY NodeTypes DEF WellMade, NodesAreWellMade
    <2>3. QED
      BY <2>1, <2>2, <1>2
  <1>4. r.snap = s.snap \/ r.snap.index > s.snap.index
    BY DEF Step
  <1>5. \A f, w \in Server : \A i \in Nat : Gave(f, i, w)' => Gave(f, i, w) \/ new(f, i, w)
    BY NewSignsOfFiles
  <1>6. \A f, w \in Server : \A i \in Nat : r.snap = s.snap /\ new(f, i, w) => Gave(f, i, w)
    BY DEF Gave
  <1>7. \A f, w, x \in Server : \A i \in Nat :
            r.snap.index > s.snap.index /\ new(f, i, w) => ~Gave(f, i, x)
    BY <1>3 DEF NotAhead
  <1>8. OneFile'
    <2> SUFFICES ASSUME NEW f \in Server, NEW w \in Server, NEW x \in Server, NEW i \in Nat,
                        Gave(f, i, w)', Gave(f, i, x)'
                 PROVE  w = x
      BY DEF OneFile
    <2>1. Gave(f, i, w) \/ new(f, i, w)
      BY <1>5
    <2>2. Gave(f, i, x) \/ new(f, i, x)
      BY <1>5
    <2>3. Gave(f, i, w) /\ Gave(f, i, x) => w = x
      BY DEF OneFile
    <2>4. new(f, i, w) /\ new(f, i, x) => w = x
      OBVIOUS
    <2> HIDE DEF new
    <2>5. QED
      BY <2>1, <2>2, <2>3, <2>4, <1>4, <1>6, <1>7
  <1>9. NotAhead'
    <2> SUFFICES ASSUME NEW f \in Server, NEW w \in Server, NEW i \in Nat, Gave(f, i, w)'
                 PROVE  i <= node'[f].snap.index
      BY DEF NotAhead
    <2>1. node[f].snap.index <= node'[f].snap.index
      BY <1>2, <1>3, <1>4
    <2>2. CASE Gave(f, i, w)
      <3>1. i <= node[f].snap.index
        BY <2>2 DEF NotAhead
      <3>2. QED
        BY <3>1, <2>1, <1>3
    <2>3. CASE new(f, i, w)
      BY <2>3, <1>2, <1>3
    <2>4. QED
      BY <2>2, <2>3, <1>5
  <1>10. QED
    BY <1>8, <1>9

(* Every sign of a vote is an old one or of the vote n now has in storage. *)
LEMMA NewSignsOfVotes ==
    ASSUME NEW M, NEW E, NodesAreWellMade(M, E),
           NEW n \in Server, NEW r, NEW out, Moves(n, r, out), NEW more, NEW got,
           Step(node[n], r, more, got, M, E), Sends(r, out, M, E), Told(n, more, got),
           NEW v \in Server, NEW t \in Nat, NEW c \in Server, Voted(v, t, c)'
    PROVE  Voted(v, t, c) \/ (v = n /\ t = r.term /\ c = r.votedFor)
  <1> DEFINE new == v = n /\ t = r.term /\ c = r.votedFor
  <1>1. WellMade(r, M, E) /\ r.id = n /\ node[n].id = n
    BY DEF Step, NodesAreWellMade
  <1>2. node'[n] = r /\ \A p \in Server : p # n => node'[p] = node[p]
    BY <1>1, MovedNodes
  <1>3. CASE node'[v].term = t /\ node'[v].votedFor = c
    BY <1>2, <1>3 DEF Voted
  <1>4. ASSUME NEW m \in msgs', m.type = "RequestVoteReply", m.granted,
               m.from = v, m.term = t, m.to = c
        PROVE  Voted(v, t, c) \/ new
    <2>1. m \in msgs \/ m \in out
      BY DEF Moves
    <2>2. CASE m \in msgs
      BY <2>2, <1>4 DEF Voted
    <2>3. CASE m \in out
      BY <2>3, <1>1, <1>4 DEF Sends, Shows
    <2>4. QED
      BY <2>1, <2>2, <2>3
  <1>5. ASSUME c = n, r.role \in Office, r.term = t, v \in r.votes
        PROVE  Voted(v, t, c) \/ new
    <2>1. \/ v = r.id /\ r.votedFor = r.id
          \/ node[n].role \in Office /\ node[n].term = r.term /\ v \in node[n].votes
          \/ <<v, r.term>> \in more
      BY <1>5 DEF Step, Backed
    <2>2. CASE v = r.id /\ r.votedFor = r.id
      BY <2>2, <1>1, <1>5
    <2>3. CASE node[n].role \in Office /\ node[n].term = r.term /\ v \in node[n].votes
      BY <2>3, <1>5 DEF Voted
    <2>4. CASE <<v, r.term>> \in more
      BY <2>4, <1>5 DEF Told
    <2>5. QED
      BY <2>1, <2>2, <2>3, <2>4
  <1>6. CASE node'[c].role \in Office /\ node'[c].term = t /\ v \in node'[c].votes
    <2>1. CASE c = n
      BY <2>1, <1>2, <1>5, <1>6
    <2>2. CASE c # n
      BY <2>2, <1>2, <1>6 DEF Voted
    <2>3. QED
      BY <2>1, <2>2
  <1>7. ASSUME NEW e \in elected', e.term = t, e.leader = c, v \in e.voters
        PROVE  Voted(v, t, c) \/ new
    <2>1. CASE e \in elected
      BY <2>1, <1>7 DEF Voted
    <2>2. CASE r.role = "Leader" /\ e = [term |-> r.term, leader |-> n, voters |-> r.votes]
      BY <2>2, <1>5, <1>7 DEF Office
    <2>3. QED
      BY <2>1, <2>2 DEF Moves
  <1>8. \/ node'[v].term = t /\ node'[v].votedFor = c
        \/ \E m \in msgs' : /\ m.type = "RequestVoteReply" /\ m.granted
                            /\ m.from = v /\ m.term = t /\ m.to = c
        \/ node'[c].role \in Office /\ node'[c].term = t /\ v \in node'[c].votes
        \/ \E e \in elected' : e.term = t /\ e.leader = c /\ v \in e.voters
    BY DEF Voted
  <1>9. QED
    BY <1>3, <1>4, <1>6, <1>7, <1>8

LEMMA MovedVotes ==
    ASSUME NEW M, NEW E, NodesAreWellMade(M, E), OneVote, NotLater,
           NEW n \in Server, NEW r, NEW out, Moves(n, r, out), NEW more, NEW got,
           Step(node[n], r, more, got, M, E), Sends(r, out, M, E), Told(n, more, got)
    PROVE  OneVote' /\ NotLater'
  <1> DEFINE s == node[n]
             new(v, t, c) == v = n /\ t = r.term /\ c = r.votedFor
  <1>1. WellMade(s, M, E) /\ WellMade(r, M, E) /\ r.id = n
    BY DEF Step, NodesAreWellMade
  <1>2. node'[n] = r /\ \A p \in Server : p # n => node'[p] = node[p]
    BY <1>1, MovedNodes
  <1>3. s.term \in Nat /\ r.term \in Nat
    BY <1>1, NodeTypes DEF WellMade
  <1>4. r.term >= s.term /\ (r.term = s.term /\ s.votedFor # Nil => r.votedFor = s.votedFor)
    BY DEF Step
  <1>5. \A v, c \in Server : \A t \in Nat : Voted(v, t, c)' => Voted(v, t, c) \/ new(v, t, c)
    BY NewSignsOfVotes
  <1>6. ASSUME NEW c \in Server, NEW t \in Nat, Voted(n, t, c)
        PROVE  t <= r.term /\ (t = r.term => r.votedFor = c)
    <2>1. t <= s.term /\ (t = s.term => s.votedFor = c)
      BY <1>6 DEF NotLater
    <2>2. t <= r.term /\ (t = r.term => t = s.term /\ r.term = s.term)
      BY <2>1, <1>3, <1>4
    <2>3. QED
      BY <2>1, <2>2, <1>4, NilAssumption
  <1>7. OneVote'
    <2> SUFFICES ASSUME NEW v \in Server, NEW c \in Server, NEW d \in Server, NEW t \in Nat,
                        Voted(v, t, c)', Voted(v, t, d)'
                 PROVE  c = d
      BY DEF OneVote
    <2>1. Voted(v, t, c) \/ new(v, t, c)
      BY <1>5
    <2>2. Voted(v, t, d) \/ new(v, t, d)
      BY <1>5
    <2>3. Voted(v, t, c) /\ Voted(v, t, d) => c = d
      BY DEF OneVote
    <2>4. new(v, t, c) /\ new(v, t, d) => c = d
      OBVIOUS
    <2>5. (new(v, t, c) /\ Voted(v, t, d) => c = d) /\ (new(v, t, d) /\ Voted(v, t, c) => c = d)
      BY <1>6
    <2> HIDE DEF new
    <2>6. QED
      BY <2>1, <2>2, <2>3, <2>4, <2>5
  <1>8. NotLater'
    <2> SUFFICES ASSUME NEW v \in Server, NEW c \in Server, NEW t \in Nat, Voted(v, t, c)'
                 PROVE  t <= node'[v].term /\ (t = node'[v].term => node'[v].votedFor = c)
      BY DEF NotLater
    <2>1. CASE new(v, t, c)
      BY <2>1, <1>2, <1>3
    <2>2. CASE Voted(v, t, c) /\ v = n
      BY <2>2, <1>2, <1>6
    <2>3. CASE Voted(v, t, c) /\ v # n
      BY <2>3, <1>2 DEF NotLater
    <2>4. QED
      BY <2>1, <2>2, <2>3, <1>5
  <1>9. QED
    BY <1>7, <1>8

(* A move that is a step of a node keeps the invariant.                    *)
LEMMA MovesKeepInv ==
    ASSUME NEW M, NEW E, Inv(M, E), left' \in ScenarioOf(E),
           NEW n \in Server, NEW r, NEW out, Moves(n, r, out), NEW more, NEW got,
           Step(node[n], r, more, got, M, E), Sends(r, out, M, E), Told(n, more, got)
    PROVE  Inv(M, E)'
  <1>1. WellMade(r, M, E) /\ r.id = n /\ r.commit \in Nat
    BY NodeTypes DEF Inv, Step, NodesAreWellMade, WellMade
  <1>2. NodesAreWellMade(M, E)'
    BY <1>1, MovedNodes DEF Inv
  <1>3. MessagesAreWellMade(M, E)'
    BY DEF Inv, MessagesAreWellMade, Moves, Sends
  <1>4. CommittedIsBounded'
    <2>1. PICK b \in Nat : \A c \in committed : c.at \in Nat /\ c.at <= b
      BY DEF Inv, CommittedIsBounded
    <2>2. \A c \in committed' : c \in committed \/ c.at \in 1 .. r.commit
      BY DEF Moves
    <2>3. b + r.commit \in Nat /\ \A c \in committed' : c.at \in Nat /\ c.at <= b + r.commit
      BY <2>1, <2>2, <1>1
    <2>4. QED
      BY <2>3 DEF CommittedIsBounded
  <1>5. OneFile' /\ NotAhead'
    BY MovedFiles DEF Inv
  <1>6. OneVote' /\ NotLater'
    BY MovedVotes DEF Inv
  <1>7. WonByMajorities(M)'
    <2> SUFFICES ASSUME NEW e \in elected'
                 PROVE  /\ e.term \in Nat /\ e.leader \in Server /\ e.voters \in SUBSET Server
                        /\ \E ms \in M : Majority(ms.voters, e.voters)
      BY DEF WonByMajorities
    <2>1. CASE e \in elected
      BY <2>1 DEF Inv, WonByMajorities
    <2>2. CASE /\ r.role = "Leader" /\ <<r.role, r.term>> # <<node[n].role, node[n].term>>
               /\ e = [term |-> r.term, leader |-> n, voters |-> r.votes]
      <3>1. r.term \in Nat /\ r.votes \in SUBSET Server
        BY <1>1, NodeTypes DEF WellMade
      <3>2. \E ms \in M : Majority(ms.voters, r.votes)
        BY <2>2 DEF Step, Wins
      <3>3. QED
        BY <2>2, <3>1, <3>2
    <2>3. QED
      BY <2>1, <2>2 DEF Moves
  <1>8. QED
    BY <1>2, <1>3, <1>4, <1>5, <1>6, <1>7 DEF Inv

-----------------------------------------------------------------------------
(* Every action keeps the invariant.                                       *)

(* The scenario is only used up.                                           *)
LEMMA SpendFacts ==
    ASSUME NEW E, left \in ScenarioOf(E),
           \/ UNCHANGED left
           \/ Spend("ticks") \/ Spend("campaigns") \/ Spend("proposals") \/ Spend("reads")
           \/ Spend("compactions") \/ Spend("restarts")
           \/ \E ms : left' = [left EXCEPT !.changes = @ \ {ms}]
    PROVE  left' \in ScenarioOf(E) /\ left'.voters = left.voters
  <1>1. CASE UNCHANGED left
    BY <1>1
  <1>2. CASE Spend("ticks")
    BY <1>2 DEF Spend, ScenarioOf
  <1>3. CASE Spend("campaigns")
    BY <1>3 DEF Spend, ScenarioOf
  <1>4. CASE Spend("proposals")
    BY <1>4 DEF Spend, ScenarioOf
  <1>5. CASE Spend("reads")
    BY <1>5 DEF Spend, ScenarioOf
  <1>6. CASE Spend("compactions")
    BY <1>6 DEF Spend, ScenarioOf
  <1>7. CASE Spend("restarts")
    BY <1>7 DEF Spend, ScenarioOf
  <1>8. CASE \E ms : left' = [left EXCEPT !.changes = @ \ {ms}]
    BY <1>8 DEF ScenarioOf
  <1>9. QED
    BY <1>1, <1>2, <1>3, <1>4, <1>5, <1>6, <1>7, <1>8

LEMMA CallKeepsInv ==
    ASSUME NEW M, NEW E, Inv(M, E), left' \in ScenarioOf(E),
           NEW n \in Server, NEW r, NEW out, Call(n, r, out), NEW more, NEW got,
           Step(node[n], r, more, got, M, E), Sends(r, out, M, E), Told(n, more, got)
    PROVE  Inv(M, E)'
  BY CallMoves, MovesKeepInv

LEMMA NothingTold ==
    ASSUME NEW n
    PROVE  Told(n, {}, {})
  BY DEF Told

LEMMA DeliverKeepsInv ==
    ASSUME NEW M, NEW E, Inv(M, E), NEW m \in msgs, NEW type, NEW d, NEW more, NEW got,
           Acts(node[m.to], d, more, got, M, E), Told(m.to, more, got), Deliver(m, type, d)
    PROVE  Inv(M, E)'
  <1>1. m.to \in Server
    BY KindsOfMessages DEF Inv, MessagesAreWellMade
  <1>2. WellMade(node[m.to], M, E)
    BY <1>1 DEF Inv, NodesAreWellMade
  <1>3. Step(node[m.to], Applied(d.s), more, got, M, E) /\ Sends(Applied(d.s), d.out, M, E)
    BY <1>2, AppliedActs
  <1>4. Call(m.to, Applied(d.s), d.out) /\ left' \in ScenarioOf(E)
    BY DEF Deliver, Inv
  <1>5. QED
    BY <1>1, <1>3, <1>4, CallKeepsInv

(* What a node is when a message reaches it, and when its term has moved   *)
(* to the message's.                                                       *)
LEMMA Receives ==
    ASSUME NEW M, NEW E, Inv(M, E), NEW m \in msgs
    PROVE  /\ m \in MessageOf(M, E) /\ m.to \in Server /\ m.from \in Server /\ m.term \in Nat
           /\ WellMade(At(m), M, E) /\ At(m).id = m.to /\ Ready(m) = Uptodate(At(m), m)
           /\ WellMade(Ready(m), M, E) /\ Step(At(m), Ready(m), {}, {}, M, E)
  <1>1. m \in MessageOf(M, E) /\ m.to \in Server /\ m.from \in Server /\ m.term \in Nat
    BY KindsOfMessages DEF Inv, MessagesAreWellMade
  <1>2. WellMade(At(m), M, E) /\ At(m).id = m.to
    BY <1>1 DEF Inv, NodesAreWellMade, At
  <1>3. Ready(m) = Uptodate(At(m), m)
    BY DEF Ready, At
  <1>4. QED
    BY <1>1, <1>2, <1>3, UptodateFacts

LEMMA ElectionMessages ==
    ASSUME NEW M, NEW E, Closed(M, E), Inv(M, E), NEW m \in msgs,
           \/ DeliverPreVote(m) \/ DeliverPreVoteReply(m)
           \/ DeliverRequestVote(m) \/ DeliverVoteReply(m)
    PROVE  Inv(M, E)'
  <1>1. /\ m \in MessageOf(M, E) /\ m.to \in Server /\ m.from \in Server /\ m.term \in Nat
        /\ WellMade(At(m), M, E) /\ At(m).id = m.to /\ Ready(m) = Uptodate(At(m), m)
        /\ WellMade(Ready(m), M, E) /\ Step(At(m), Ready(m), {}, {}, M, E)
    BY Receives
  <1>2. At(m) = node[m.to]
    BY DEF At
  <1>3. CASE DeliverPreVote(m)
    <2>1. m \in VoteRequest
      BY <1>1, <1>3, KindsOfMessages DEF DeliverPreVote, Deliver
    <2>2. Acts(At(m), HandlePreVote(At(m), m), {}, {}, M, E)
      BY <2>1, <1>1, HandlePreVoteActs
    <2>3. QED
      BY <2>2, <1>2, <1>3, NothingTold, DeliverKeepsInv DEF DeliverPreVote
  <1>4. CASE DeliverPreVoteReply(m)
    <2>1. m \in VoteAnswer
      BY <1>1, <1>4, KindsOfMessages DEF DeliverPreVoteReply, Deliver
    <2>2. Acts(At(m), HandlePreVoteReply(At(m), m), {}, {}, M, E)
      BY <2>1, <1>1, HandlePreVoteReplyActs
    <2>3. QED
      BY <2>2, <1>2, <1>4, NothingTold, DeliverKeepsInv DEF DeliverPreVoteReply
  <1>5. CASE DeliverRequestVote(m)
    <2>1. m \in VoteRequest /\ m.type = "RequestVote"
      BY <1>1, <1>5, KindsOfMessages DEF DeliverRequestVote, Deliver
    <2>2. Acts(Ready(m), HandleRequestVote(Ready(m), m), {}, {}, M, E)
      BY <2>1, <1>1, HandleRequestVoteActs
    <2>3. Acts(At(m), Requested(At(m), m, HandleRequestVote(Ready(m), m)), {}, {}, M, E)
      BY <2>1, <2>2, <1>1, RequestedActs
    <2>4. QED
      BY <2>3, <1>2, <1>5, NothingTold, DeliverKeepsInv DEF DeliverRequestVote
  <1>6. CASE DeliverVoteReply(m)
    <2> DEFINE more == IF m.granted THEN {<<m.from, m.term>>} ELSE {}
    <2>1. m \in VoteAnswer /\ m.type = "RequestVoteReply"
      BY <1>1, <1>6, KindsOfMessages DEF DeliverVoteReply, Deliver
    <2>2. Acts(Ready(m), HandleVoteReply(Ready(m), m), more, {}, M, E)
      BY <2>1, <1>1, HandleVoteReplyActs
    <2>3. Acts(At(m), HandleVoteReply(Ready(m), m), more, {}, M, E)
      BY <2>2, <1>1, ActsAfterStep
    <2>4. m.granted => Voted(m.from, m.term, m.to)
      BY <2>1 DEF Voted
    <2>5. Told(m.to, more, {})
      BY <2>4 DEF Told
    <2>6. QED
      BY <2>3, <2>5, <1>2, <1>6, DeliverKeepsInv DEF DeliverVoteReply
  <1>7. QED
    BY <1>3, <1>4, <1>5, <1>6

LEMMA AppendMessages ==
    ASSUME NEW M, NEW E, Closed(M, E), Inv(M, E), NEW m \in msgs,
           DeliverAppendEntries(m) \/ DeliverAppendReply(m)
    PROVE  Inv(M, E)'
  <1>1. /\ m \in MessageOf(M, E) /\ m.to \in Server /\ m.from \in Server /\ m.term \in Nat
        /\ WellMade(At(m), M, E) /\ At(m).id = m.to /\ Ready(m) = Uptodate(At(m), m)
        /\ WellMade(Ready(m), M, E) /\ Step(At(m), Ready(m), {}, {}, M, E)
    BY Receives
  <1>2. At(m) = node[m.to]
    BY DEF At
  <1>3. CASE DeliverAppendEntries(m)
    <2>1. m \in AppendOf(E) /\ m.type = "AppendEntries"
      BY <1>1, <1>3, KindsOfMessages DEF DeliverAppendEntries, Deliver
    <2>2. Acts(Ready(m), HandleAppendEntries(Ready(m), m), {}, {}, M, E)
      BY <2>1, <1>1, HandleAppendEntriesActs
    <2>3. Acts(At(m), Requested(At(m), m, HandleAppendEntries(Ready(m), m)), {}, {}, M, E)
      BY <2>1, <2>2, <1>1, RequestedActs
    <2>4. QED
      BY <2>3, <1>2, <1>3, NothingTold, DeliverKeepsInv DEF DeliverAppendEntries
  <1>4. CASE DeliverAppendReply(m)
    <2> DEFINE heard == HeardRound(Ready(m), m)
    <2>1. m \in AppendAnswer
      BY <1>1, <1>4, KindsOfMessages DEF DeliverAppendReply, Deliver
    <2>2. m.seq \in Nat
      BY <2>1 DEF AppendAnswer
    <2>3. heard.s \in Node(M, E) /\ Keeps(Ready(m), heard.s) /\ heard.out \subseteq ReadAnswer
      BY <2>2, <1>1, HeardRoundFacts DEF WellMade
    <2>4. DeliverAppendReply(m) =>
              Deliver(m, "AppendReply", Answered(Ready(m), m, heard, HandleAppendReply(heard.s, m)))
      BY DEF DeliverAppendReply
    <2> HIDE DEF heard
    <2>5. Step(Ready(m), heard.s, {}, {}, M, E) /\ WellMade(heard.s, M, E)
      BY <2>3, <1>1, KeepingIsAStep, WhatIsKeptIsWellMade
    <2>6. Acts(heard.s, HandleAppendReply(heard.s, m), {}, {}, M, E)
      BY <2>1, <2>5, HandleAppendReplyActs
    <2>7. Acts(Ready(m), HandleAppendReply(heard.s, m), {}, {}, M, E)
      BY <2>5, <2>6, <1>1, ActsAfterStep
    <2>8. Acts(At(m), Answered(Ready(m), m, heard, HandleAppendReply(heard.s, m)), {}, {}, M, E)
      BY <2>3, <2>7, <1>1, AnsweredActs
    <2>9. QED
      BY <2>4, <2>8, <1>2, <1>4, NothingTold, DeliverKeepsInv
  <1>5. QED
    BY <1>3, <1>4

(* Two pieces of one index from one node are of one file.                  *)
LEMMA PiecesFit ==
    ASSUME NEW M, NEW E, Inv(M, E), NEW m \in msgs, m.type = "InstallSnapshot"
    PROVE  Fits(Ready(m), m)
  <1> DEFINE s == At(m)
             u == Ready(m)
  <1>1. /\ m \in MessageOf(M, E) /\ m.to \in Server /\ m.from \in Server /\ m.term \in Nat
        /\ s \in Node(M, E) /\ u = Uptodate(s, m)
    BY Receives DEF WellMade
  <1>2. m \in InstallOf(M, E)
    BY <1>1, KindsOfMessages
  <1>3. m.index \in Nat /\ m.data.by \in Server
    BY <1>2 DEF InstallOf, Piece
  <1>4. u.incoming = s.incoming
    BY <1>1 DEF Uptodate, BecomeFollower, Node
  <1> SUFFICES ASSUME Continuing(u, m), u.incoming.pieces # <<>>
               PROVE  u.incoming.pieces[1].by = m.data.by
    BY DEF Fits
  <1>5. s.incoming.from = m.from /\ s.incoming.index = m.index /\ s.incoming.pieces # <<>>
    BY <1>4 DEF Continuing
  <1>6. s.incoming.pieces[1].by \in Server
    <2>1. s.incoming.pieces \in Seq(Piece)
      BY <1>1, NodeTypes DEF IncomingOf
    <2>2. s.incoming.pieces[1] \in Piece
      BY <2>1, <1>5
    <2>3. QED
      BY <2>2 DEF Piece
  <1>7. Gave(m.from, m.index, s.incoming.pieces[1].by)
    BY <1>1, <1>5 DEF Gave, Origin, At
  <1>8. Gave(m.from, m.index, m.data.by)
    BY DEF Gave
  <1>9. QED
    BY <1>1, <1>3, <1>4, <1>6, <1>7, <1>8 DEF Inv, OneFile

LEMMA SnapshotMessages ==
    ASSUME NEW M, NEW E, Closed(M, E), Inv(M, E), NEW m \in msgs,
           DeliverInstallSnapshot(m) \/ DeliverSnapshotReply(m)
    PROVE  Inv(M, E)'
  <1>1. /\ m \in MessageOf(M, E) /\ m.to \in Server /\ m.from \in Server /\ m.term \in Nat
        /\ WellMade(At(m), M, E) /\ At(m).id = m.to /\ Ready(m) = Uptodate(At(m), m)
        /\ WellMade(Ready(m), M, E) /\ Step(At(m), Ready(m), {}, {}, M, E)
    BY Receives
  <1>2. At(m) = node[m.to]
    BY DEF At
  <1>3. CASE DeliverInstallSnapshot(m)
    <2> DEFINE got == {<<m.from, m.index, m.data.by>>}
    <2>1. m \in InstallOf(M, E) /\ m.type = "InstallSnapshot" /\ Exact(m)
      BY <1>1, <1>3, KindsOfMessages DEF DeliverInstallSnapshot, Deliver
    <2>2. Acts(Ready(m), HandleInstallSnapshot(Ready(m), m), {}, got, M, E)
      BY <2>1, <1>1, PiecesFit, HandleInstallSnapshotActs
    <2>3. Acts(At(m), Requested(At(m), m, HandleInstallSnapshot(Ready(m), m)), {}, got, M, E)
      BY <2>1, <2>2, <1>1, RequestedActs
    <2>4. Gave(m.from, m.index, m.data.by)
      BY <2>1 DEF Gave
    <2>5. Told(m.to, {}, got)
      BY <2>4 DEF Told
    <2>6. QED
      BY <2>3, <2>5, <1>2, <1>3, DeliverKeepsInv DEF DeliverInstallSnapshot
  <1>4. CASE DeliverSnapshotReply(m)
    <2> DEFINE heard == HeardRound(Ready(m), m)
    <2>1. m \in InstallAnswer /\ Exact(m)
      BY <1>1, <1>4, KindsOfMessages DEF DeliverSnapshotReply, Deliver
    <2>2. m.seq \in Nat
      BY <2>1 DEF InstallAnswer
    <2>3. heard.s \in Node(M, E) /\ Keeps(Ready(m), heard.s) /\ heard.out \subseteq ReadAnswer
      BY <2>2, <1>1, HeardRoundFacts DEF WellMade
    <2>4. DeliverSnapshotReply(m) =>
              Deliver(m, "SnapshotReply",
                      Answered(Ready(m), m, heard, HandleSnapshotReply(heard.s, m)))
      BY DEF DeliverSnapshotReply
    <2> HIDE DEF heard
    <2>5. Step(Ready(m), heard.s, {}, {}, M, E) /\ WellMade(heard.s, M, E)
      BY <2>3, <1>1, KeepingIsAStep, WhatIsKeptIsWellMade
    <2>6. Acts(heard.s, HandleSnapshotReply(heard.s, m), {}, {}, M, E)
      BY <2>1, <2>5, HandleSnapshotReplyActs
    <2>7. Acts(Ready(m), HandleSnapshotReply(heard.s, m), {}, {}, M, E)
      BY <2>5, <2>6, <1>1, ActsAfterStep
    <2>8. Acts(At(m), Answered(Ready(m), m, heard, HandleSnapshotReply(heard.s, m)), {}, {}, M, E)
      BY <2>3, <2>7, <1>1, AnsweredActs
    <2>9. QED
      BY <2>4, <2>8, <1>2, <1>4, NothingTold, DeliverKeepsInv
  <1>5. QED
    BY <1>3, <1>4

LEMMA ReadMessages ==
    ASSUME NEW M, NEW E, Closed(M, E), Inv(M, E), NEW m \in msgs,
           DeliverReadIndex(m) \/ DeliverReadIndexReply(m)
    PROVE  Inv(M, E)'
  <1>1. /\ m \in MessageOf(M, E) /\ m.to \in Server /\ m.from \in Server /\ m.term \in Nat
        /\ WellMade(At(m), M, E) /\ At(m).id = m.to /\ Ready(m) = Uptodate(At(m), m)
        /\ WellMade(Ready(m), M, E) /\ Step(At(m), Ready(m), {}, {}, M, E)
    BY Receives
  <1>2. At(m) = node[m.to]
    BY DEF At
  <1>3. CASE DeliverReadIndex(m)
    <2>1. m \in ReadRequest /\ m.type = "ReadIndex"
      BY <1>1, <1>3, KindsOfMessages DEF DeliverReadIndex, Deliver
    <2>2. Acts(Ready(m), HandleReadIndex(Ready(m), m), {}, {}, M, E)
      BY <2>1, <1>1, HandleReadIndexActs
    <2>3. Acts(At(m), Requested(At(m), m, HandleReadIndex(Ready(m), m)), {}, {}, M, E)
      BY <2>1, <2>2, <1>1, RequestedActs
    <2>4. QED
      BY <2>3, <1>2, <1>3, NothingTold, DeliverKeepsInv DEF DeliverReadIndex
  <1>4. CASE DeliverReadIndexReply(m)
    <2>1. m \in ReadAnswer
      BY <1>1, <1>4, KindsOfMessages DEF DeliverReadIndexReply, Deliver
    <2>2. Acts(Ready(m), HandleReadIndexReply(Ready(m), m), {}, {}, M, E)
      BY <2>1, <1>1, HandleReadIndexReplyActs
    <2>3. Acts(At(m), HandleReadIndexReply(Ready(m), m), {}, {}, M, E)
      BY <2>2, <1>1, ActsAfterStep
    <2>4. QED
      BY <2>3, <1>2, <1>4, NothingTold, DeliverKeepsInv DEF DeliverReadIndexReply
  <1>5. QED
    BY <1>3, <1>4

(* The calls of the timer and of the clients.                              *)
(* What a client proposes, and what a read is asked at.                    *)
LEMMA ProposalsAreSequences ==
    ASSUME NEW cmds \in Proposals
    PROVE  cmds \in Seq(Values)
  <1>1. \A v \in Values : <<v>> \in Seq(Values)
    OBVIOUS
  <1>2. \A v, w \in Values : <<v, w>> \in Seq(Values)
    OBVIOUS
  <1>3. cmds \in {<<v>> : v \in Values} \/ cmds \in {<<v, w>> : v, w \in Values}
    BY DEF Proposals
  <1>4. CASE cmds \in {<<v>> : v \in Values}
    BY <1>1, <1>4
  <1>5. CASE cmds \in {<<v, w>> : v, w \in Values}
    BY <1>2, <1>5
  <1>6. QED
    BY <1>3, <1>4, <1>5

LEMMA LatestIsANumber ==
    ASSUME CommittedIsBounded
    PROVE  Max({c.at : c \in committed} \cup {0}) \in Nat
  <1> DEFINE S == {c.at : c \in committed} \cup {0}
  <1>1. PICK b \in Nat : \A c \in committed : c.at \in Nat /\ c.at <= b
    BY DEF CommittedIsBounded
  <1>2. S \in SUBSET Nat /\ S # {} /\ \A x \in S : x <= b
    BY <1>1
  <1> HIDE DEF S
  <1>3. Max(S) \in S
    BY <1>2, MaxFacts
  <1>4. QED
    BY <1>2, <1>3 DEF S

LEMMA CallsOfANode ==
    ASSUME NEW M, NEW E, Closed(M, E), Inv(M, E), left' \in ScenarioOf(E), NEW n \in Server,
           \/ ElectionTimer(n) \/ Heartbeat(n) \/ Stand(n)
           \/ \E cmds \in Proposals : ClientProposes(n, cmds)
           \/ \E ms \in left.changes : ClientChanges(n, ms)
           \/ SnapshotBegins(n) \/ SnapshotEnds(n) \/ ClientReads(n) \/ ClientForgets(n)
    PROVE  Inv(M, E)'
  <1> DEFINE s == node[n]
  <1>1. WellMade(s, M, E)
    BY DEF Inv, NodesAreWellMade
  <1>2. ASSUME NEW d, Acts(s, d, {}, {}, M, E), Call(n, Applied(d.s), d.out)
        PROVE  Inv(M, E)'
    BY <1>1, <1>2, AppliedActs, NothingTold, CallKeepsInv
  <1>3. ASSUME NEW d, Acts(s, d, {}, {}, M, E), NEW out \in {d.out, {}}, Call(n, d.s, out)
        PROVE  Inv(M, E)'
    <2>1. Step(s, d.s, {}, {}, M, E) /\ Sends(d.s, out, M, E)
      BY <1>3 DEF Acts, Sends
    <2>2. QED
      BY <2>1, <1>3, NothingTold, CallKeepsInv
  <1>4. CASE ElectionTimer(n) \/ Heartbeat(n)
    <2>1. PICK due : \E d \in Tick(s, due) : Call(n, Applied(d.s), d.out)
      BY <1>4 DEF ElectionTimer, Heartbeat, TimerRunsOut
    <2>2. PICK d \in Tick(s, due) : Call(n, Applied(d.s), d.out)
      BY <2>1
    <2>3. QED
      BY <2>2, <1>1, <1>2, TickActs
  <1>5. CASE Stand(n)
    <2>1. Call(n, Applied(Campaign(s).s), Campaign(s).out)
      BY <1>5 DEF Stand
    <2>2. QED
      BY <2>1, <1>1, <1>2, CampaignActs
  <1>6. CASE \E cmds \in Proposals : ClientProposes(n, cmds)
    <2>1. PICK cmds \in Proposals : Call(n, Propose(s, cmds).s, Propose(s, cmds).out)
      BY <1>6 DEF ClientProposes
    <2>2. cmds \in Seq(Values)
      BY ProposalsAreSequences
    <2>3. QED
      BY <2>1, <2>2, <1>1, <1>3, ProposeActs
  <1>7. CASE \E ms \in left.changes : ClientChanges(n, ms)
    <2>1. PICK ms \in left.changes :
              Call(n, ProposeMembership(s, ms).s, ProposeMembership(s, ms).out)
      BY <1>7 DEF ClientChanges
    <2>2. ms \in E
      BY DEF Inv, ScenarioOf
    <2> DEFINE d == ProposeMembership(s, ms)
    <2>3. d.s \in Node(M, E) /\ Keeps(s, d.s) /\ Sends(d.s, d.out, M, E)
      BY <2>2, <1>1, ProposeMembershipFacts
    <2>4. Acts(s, d, {}, {}, M, E)
      BY <2>3, <1>1, KeepingIsAStep DEF Acts
    <2>5. QED
      BY <2>1, <2>4, <1>3
  <1>8. CASE SnapshotBegins(n)
    <2>1. Call(n, BeginCompaction(s).s, {})
      BY <1>8 DEF SnapshotBegins
    <2>2. QED
      BY <2>1, <1>1, <1>3, BeginCompactionActs
  <1>9. CASE SnapshotEnds(n)
    <2>1. Call(n, FinishCompaction(s).s, {})
      BY <1>9 DEF SnapshotEnds
    <2>2. QED
      BY <2>1, <1>1, <1>3, FinishCompactionActs
  <1>10. CASE ClientReads(n)
    <2> DEFINE asked == Max({c.at : c \in committed} \cup {0})
    <2>1. Call(n, ReadIndex(s, asked).s, ReadIndex(s, asked).out)
      BY <1>10 DEF ClientReads
    <2>2. asked \in Nat
      BY LatestIsANumber DEF Inv
    <2> HIDE DEF asked
    <2>3. QED
      BY <2>1, <2>2, <1>1, <1>3, ReadIndexActs
  <1>11. CASE ClientForgets(n)
    <2>1. PICK read : Call(n, ForgetRead(s, read).s, {})
      BY <1>11 DEF ClientForgets
    <2>2. QED
      BY <2>1, <1>1, <1>3, ForgetReadActs
  <1>12. QED
    BY <1>4, <1>5, <1>6, <1>7, <1>8, <1>9, <1>10, <1>11

(* A restart, on the whole log or on what handle_append_entries has cut.   *)
LEMMA RestartsOfANode ==
    ASSUME NEW M, NEW E, Closed(M, E), Inv(M, E), left' \in ScenarioOf(E),
           (\E n \in Server : Restart(n)) \/ (\E m \in msgs : CrashAfterCut(m))
    PROVE  Inv(M, E)'
  <1>1. ASSUME NEW n \in Server, NEW u, WellMade(u, M, E), Step(node[n], u, {}, {}, M, E),
               NEW st, st.term = u.term, st.votedFor = u.votedFor, st.snap = u.snap,
               st.log \in Seq(EntryOf(E)), u.snap.index <= Len(st.log), Restarted(n, st)
        PROVE  Inv(M, E)'
    <2> DEFINE r == Started(n, node[n].boot, st)
    <2>1. Moves(n, r, {})
      BY <1>1, RestartMoves
    <2>2. WellMade(node[n], M, E) /\ u.id = n /\ u.boot = node[n].boot
      BY <1>1 DEF Inv, NodesAreWellMade, Step
    <2>3. Step(u, r, {}, {}, M, E)
      BY <1>1, <2>2, StartingIsAStep
    <2> HIDE DEF r
    <2>4. Step(node[n], r, {}, {}, M, E)
      BY <1>1, <2>2, <2>3, StepsCompose
    <2>5. Sends(r, {}, M, E)
      BY DEF Sends
    <2>6. QED
      BY <2>1, <2>4, <2>5, NothingTold, MovesKeepInv
  <1>2. ASSUME NEW n \in Server, Restart(n)
        PROVE  Inv(M, E)'
    <2>1. WellMade(node[n], M, E) /\ Step(node[n], node[n], {}, {}, M, E)
      BY StandingStill DEF Inv, NodesAreWellMade
    <2>2. node[n].log \in Seq(EntryOf(E)) /\ node[n].snap.index <= Len(node[n].log)
      BY <2>1, NodeTypes DEF WellMade, Sized
    <2> DEFINE st == Storage(node[n])
    <2>3. /\ st.term = node[n].term /\ st.votedFor = node[n].votedFor
          /\ st.snap = node[n].snap /\ st.log = node[n].log
      BY DEF Storage
    <2>4. Restarted(n, st)
      BY <1>2 DEF Restart
    <2> HIDE DEF st
    <2>5. QED
      BY <2>1, <2>2, <2>3, <2>4, <1>1
  <1>3. ASSUME NEW m \in msgs, CrashAfterCut(m)
        PROVE  Inv(M, E)'
    <2> DEFINE u == Ready(m)
               past == Past(u, m)
               cut == Cut(u, past.prev, past.entries)
               st == [Storage(u) EXCEPT !.log = cut]
    <2>1. /\ m \in MessageOf(M, E) /\ m.to \in Server
          /\ WellMade(u, M, E) /\ Step(node[m.to], u, {}, {}, M, E)
      BY Receives DEF At
    <2>2. m.type = "AppendEntries" /\ Matches(u, past.prev, past.prevTerm) /\ Restarted(m.to, st)
      BY <1>3 DEF CrashAfterCut, Ready
    <2>3. m \in AppendOf(E)
      BY <2>1, <2>2, KindsOfMessages
    <2>4. /\ past.prev \in Nat /\ past.entries \in Seq(EntryOf(E))
          /\ past.prev >= u.snap.index /\ past.prev <= Len(u.log)
      BY <2>1, <2>2, <2>3, PastFacts
    <2>5. cut \in Seq(EntryOf(E)) /\ Len(cut) >= past.prev
      <3> HIDE DEF past
      <3>1. u \in Node(M, E)
        BY <2>1 DEF WellMade
      <3>2. QED
        BY <3>1, <2>4, SpliceFacts
    <2>6. st.term = u.term /\ st.votedFor = u.votedFor /\ st.snap = u.snap /\ st.log = cut
      BY DEF Storage
    <2>7. u.snap.index \in Nat /\ Len(cut) \in Nat
      BY <2>1, <2>5, NodeTypes DEF WellMade
    <2> HIDE DEF st, cut, past
    <2>8. u.snap.index <= Len(cut)
      BY <2>4, <2>5, <2>7
    <2> HIDE DEF u
    <2>9. QED
      BY <2>1, <2>2, <2>5, <2>6, <2>8, <1>1
  <1>4. QED
    BY <1>2, <1>3

LEMMA InitIsInv ==
    ASSUME NEW M, NEW E, Closed(M, E), Init, left \in ScenarioOf(E),
           \A n \in Server : Boot(n, left) \in M
    PROVE  Inv(M, E)
  <1>1. /\ EmptyStorage.term = 0 /\ EmptyStorage.votedFor = Nil /\ EmptyStorage.log = <<>>
        /\ EmptyStorage.snap = NoSnapshot
    BY DEF EmptyStorage
  <1>2. NoSnapshot \in SnapshotOf(M) /\ NoSnapshot.index = 0
    BY DEF NoSnapshot, SnapshotOf, Closed
  <1>3. node = [n \in Server |-> Started(n, Boot(n, left), EmptyStorage)]
    BY DEF Init
  <1>4. ASSUME NEW n \in Server
        PROVE  /\ WellMade(node[n], M, E) /\ node[n].id = n
               /\ node[n].votedFor = Nil /\ node[n].role \notin Office
               /\ node[n].snap.index = 0 /\ node[n].incoming.pieces = <<>>
    <2> DEFINE r == Started(n, Boot(n, left), EmptyStorage)
    <2>1. /\ <<>> \in Seq(EntryOf(E)) /\ Len(<<>>) = 0 /\ 0 \in Nat /\ Nil \in Maybe
      BY DEF Maybe
    <2> DEFINE st == EmptyStorage
               boot == Boot(n, left)
    <2>a. /\ st.term \in Nat /\ st.votedFor \in Maybe /\ st.snap \in SnapshotOf(M)
          /\ st.log \in Seq(EntryOf(E)) /\ st.snap.index <= Len(st.log) /\ boot \in M
      BY <2>1, <1>1, <1>2
    <2> HIDE DEF st, boot
    <2>b. LET q == Started(n, boot, st) IN
          /\ q \in Node(M, E) /\ Sized(q) /\ Termed(q) /\ Begun(q)
          /\ q.id = n /\ q.boot = boot /\ q.term = st.term /\ q.votedFor = st.votedFor
          /\ q.role = "Follower" /\ q.snap = st.snap /\ q.incoming.pieces = <<>>
      BY <2>a, StartedFacts
    <2>2. /\ r \in Node(M, E) /\ Sized(r) /\ Termed(r) /\ Begun(r)
          /\ r.id = n /\ r.votedFor = Nil
          /\ r.role = "Follower" /\ r.snap = NoSnapshot /\ r.incoming.pieces = <<>>
      BY <2>b, <1>1 DEF st, boot
    <2>3. node[n] = r
      BY <1>3
    <2> HIDE DEF r
    <2>4. Whole(r)
      BY <2>2, <1>2 DEF Whole
    <2>5. QED
      BY <2>2, <2>3, <2>4, <1>2 DEF WellMade, Office
  <1>5. NodesAreWellMade(M, E)
    <2>1. node = [n \in Server |-> node[n]]
      BY <1>3
    <2>2. QED
      BY <2>1, <1>4 DEF NodesAreWellMade
  <1>6. msgs = {} /\ elected = {} /\ committed = {}
    BY DEF Init
  <1>7. MessagesAreWellMade(M, E) /\ CommittedIsBounded /\ WonByMajorities(M)
    BY <1>6 DEF MessagesAreWellMade, CommittedIsBounded, WonByMajorities
  <1>8. \A f, w \in Server : \A i \in Nat : ~Gave(f, i, w)
    BY <1>4, <1>6 DEF Gave
  <1>9. \A v, c \in Server : \A t \in Nat : ~Voted(v, t, c)
    BY <1>4, <1>6, NilAssumption DEF Voted
  <1>10. OneFile /\ NotAhead /\ OneVote /\ NotLater
    BY <1>8, <1>9 DEF OneFile, NotAhead, OneVote, NotLater
  <1>11. QED
    BY <1>5, <1>7, <1>10 DEF Inv

LEMMA NextKeepsInv ==
    ASSUME NEW M, NEW E, Closed(M, E), Inv(M, E), [Next]_vars
    PROVE  Inv(M, E)' /\ left'.voters = left.voters
  <1>1. left \in ScenarioOf(E)
    BY DEF Inv
  <1>2. CASE UNCHANGED vars
    BY <1>2 DEF vars, Inv, NodesAreWellMade, MessagesAreWellMade, CommittedIsBounded, OneFile,
                NotAhead, OneVote, NotLater, WonByMajorities, Gave, Voted, Origin
  <1>3. ASSUME NEW n \in Server,
               \/ ElectionTimer(n) \/ Heartbeat(n) \/ Stand(n)
               \/ \E cmds \in Proposals : ClientProposes(n, cmds)
               \/ \E ms \in left.changes : ClientChanges(n, ms)
               \/ SnapshotBegins(n) \/ SnapshotEnds(n) \/ ClientReads(n) \/ ClientForgets(n)
        PROVE  Inv(M, E)' /\ left'.voters = left.voters
    <2>1. left' \in ScenarioOf(E) /\ left'.voters = left.voters
      BY <1>1, <1>3, SpendFacts
         DEF ElectionTimer, Heartbeat, TimerRunsOut, Stand, ClientProposes, ClientChanges,
             SnapshotBegins, SnapshotEnds, ClientReads, ClientForgets
    <2>2. QED
      BY <2>1, <1>3, CallsOfANode
  <1>4. ASSUME NEW m \in msgs,
               \/ DeliverPreVote(m) \/ DeliverPreVoteReply(m)
               \/ DeliverRequestVote(m) \/ DeliverVoteReply(m)
               \/ DeliverAppendEntries(m) \/ DeliverAppendReply(m)
               \/ DeliverInstallSnapshot(m) \/ DeliverSnapshotReply(m)
               \/ DeliverReadIndex(m) \/ DeliverReadIndexReply(m)
        PROVE  Inv(M, E)' /\ left'.voters = left.voters
    <2>1. UNCHANGED left
      BY <1>4, Zenon
         DEF DeliverPreVote, DeliverPreVoteReply, DeliverRequestVote, DeliverVoteReply,
             DeliverAppendEntries, DeliverAppendReply, DeliverInstallSnapshot,
             DeliverSnapshotReply, DeliverReadIndex, DeliverReadIndexReply, Deliver
    <2>2. QED
      BY <2>1, <1>4, ElectionMessages, AppendMessages, SnapshotMessages, ReadMessages
  <1>5. CASE Crash
    <2>1. (\E n \in Server : Restart(n)) \/ (\E m \in msgs : CrashAfterCut(m))
      BY <1>5 DEF Crash
    <2>2. Spend("restarts")
      BY <2>1, Zenon DEF Restart, CrashAfterCut, Restarted
    <2>3. left' \in ScenarioOf(E) /\ left'.voters = left.voters
      BY <2>2, <1>1, SpendFacts
    <2>4. QED
      BY <2>1, <2>3, RestartsOfANode
  <1>6. CASE Next
    BY <1>6, <1>3, <1>4, <1>5 DEF Next, Elect, Replicate, Snapshot, Read
  <1>7. QED
    BY <1>2, <1>6

-----------------------------------------------------------------------------
(* The theorems.                                                           *)

LEMMA ScenariosAreOfMembership ==
    ASSUME NEW sc \in Scenarios
    PROVE  /\ sc \in ScenarioOf(Membership) /\ sc.voters \in SUBSET Server
           /\ \A n \in Server : Boot(n, sc) = Nobody \/ Boot(n, sc) = [voters |-> sc.voters, learners |-> {}]
  <1>1. sc \in ScenarioOf(Membership)
    BY ScenariosAssumption DEF ScenarioOf
  <1>2. sc.voters \in SUBSET Server
    BY <1>1 DEF ScenarioOf
  <1>3. QED
    BY <1>1, <1>2 DEF Boot, Nobody

LEMMA InvShowsWhole ==
    ASSUME Inv(Membership, Membership)
    PROVE  SnapshotsAreWhole
  <1> SUFFICES ASSUME NEW n \in Server
               PROVE  /\ node[n].snap.index > 0 =>
                            \E w \in Server : node[n].snap.file = File(w, node[n].snap.index)
                      /\ node[n].incoming.pieces # <<>> =>
                            \E w \in Server : IsPrefix(node[n].incoming.pieces,
                                                       File(w, node[n].incoming.index))
    BY DEF SnapshotsAreWhole
  <1> DEFINE s == node[n]
  <1>1. WellMade(s, Membership, Membership)
    BY DEF Inv, NodesAreWellMade
  <1> HIDE DEF s
  <1>2. /\ s \in Node(Membership, Membership) /\ Whole(s) /\ Begun(s)
    BY <1>1 DEF WellMade
  <1>3. s.snap.file \in Seq(Piece) /\ s.incoming.pieces \in Seq(Piece) /\ s.incoming.index \in Nat
    BY <1>2, NodeTypes DEF IncomingOf
  <1>4. ASSUME s.snap.index > 0
        PROVE  \E w \in Server : s.snap.file = File(w, s.snap.index)
    <2> DEFINE w == s.snap.file[1].by
    <2>1. s.snap.file = File(w, s.snap.index)
      BY <1>2, <1>4 DEF Whole
    <2>2. 1 \in DOMAIN s.snap.file
      <3>1. DOMAIN File(w, s.snap.index) = 1 .. Pieces /\ 1 \in 1 .. Pieces
        BY SizesAssumption DEF File
      <3>2. QED
        BY <2>1, <3>1
    <2>3. s.snap.file[1] \in Piece
      BY <2>2, <1>3
    <2>4. w \in Server
      BY <2>3 DEF Piece
    <2>5. QED
      BY <2>1, <2>4
  <1>5. ASSUME s.incoming.pieces # <<>>
        PROVE  \E w \in Server : IsPrefix(s.incoming.pieces, File(w, s.incoming.index))
    <2> DEFINE p == s.incoming.pieces
               w == p[1].by
               file == File(w, s.incoming.index)
    <2>1. p \in Seq(Piece) /\ Len(p) \in Nat /\ Len(p) >= 1
      BY <1>3, <1>5
    <2>2. Len(p) < Pieces /\ \A k \in 1 .. Len(p) : p[k] = file[k]
      BY <1>2, <1>5 DEF Begun
    <2>3. w \in Server
      <3>1. p[1] \in Piece
        BY <2>1
      <3>2. QED
        BY <3>1 DEF Piece
    <2>4. file \in Seq(Piece) /\ Len(file) = Pieces
      BY <2>3, <1>3, FileFacts
    <2> HIDE DEF file, w, p
    <2>5. Pieces \in Nat
      BY SizesAssumption
    <2>6. SubSeq(p, 1, Len(p)) = SubSeq(file, 1, Len(p))
      BY <2>1, <2>2, <2>4, <2>5
    <2>7. IsPrefix(p, file)
      BY <2>1, <2>2, <2>4, <2>5, <2>6 DEF IsPrefix
    <2>8. QED
      BY <2>3, <2>7 DEF file, w, p
  <1>6. QED
    BY <1>4, <1>5 DEF s

(* node.rs: "Pieces from two leaders are never spliced".  For every number *)
(* of nodes and of pieces, whatever is lost, late, repeated or reordered,  *)
(* whoever restarts and however the membership changes, what a node has of *)
(* a snapshot is the start of one node's file, and what it has installed   *)
(* is the whole of one.                                                    *)
THEOREM SnapshotsAreAlwaysWhole == Spec => []SnapshotsAreWhole
  <1>1. Closed(Membership, Membership)
    <2>1. Nobody \in Membership
      BY DEF Nobody, Membership
    <2>2. \A ms \in Membership : \A p \in ms.learners :
              [voters |-> ms.voters \cup {p}, learners |-> ms.learners \ {p}] \in Membership
      BY DEF Membership
    <2>3. QED
      BY <2>1, <2>2 DEF Closed
  <1>2. Init => Inv(Membership, Membership)
    <2> SUFFICES ASSUME Init
                 PROVE  Inv(Membership, Membership)
      OBVIOUS
    <2>1. left \in Scenarios
      BY DEF Init
    <2>2. left \in ScenarioOf(Membership) /\ \A n \in Server : Boot(n, left) \in Membership
      <3>1. \A V \in SUBSET Server : [voters |-> V, learners |-> {}] \in Membership
        BY DEF Membership
      <3>2. QED
        BY <3>1, <2>1, <1>1, ScenariosAreOfMembership DEF Closed
    <2>3. QED
      BY <2>2, <1>1, InitIsInv
  <1>3. Inv(Membership, Membership) /\ [Next]_vars => Inv(Membership, Membership)'
    BY <1>1, NextKeepsInv
  <1>4. Inv(Membership, Membership) => SnapshotsAreWhole
    BY InvShowsWhole
  <1>5. QED
    BY <1>2, <1>3, <1>4, PTL DEF Spec

(* While nobody asks for a change, everyone is governed by the membership  *)
(* the cluster started with, or by none.                                   *)
Standing(V) == {Nobody, [voters |-> V, learners |-> {}]}
Steady ==
    \E V \in SUBSET Server : left.voters = V /\ Inv(Standing(V), {Nobody})

LEMMA StandingIsClosed ==
    ASSUME NEW V \in SUBSET Server
    PROVE  Closed(Standing(V), {Nobody})
  BY DEF Closed, Standing, Nobody, Membership

(* Two majorities share a voter.                                           *)
LEMMA MajoritiesMeet ==
    ASSUME NEW V \in SUBSET Server, NEW P \in SUBSET Server, NEW Q \in SUBSET Server,
           Majority(V, P), Majority(V, Q)
    PROVE  \E v \in Server : v \in P /\ v \in Q
  <1> DEFINE S == P \cap V
             T == Q \cap V
  <1>1. IsFiniteSet(V) /\ IsFiniteSet(S) /\ IsFiniteSet(T)
    BY ServerAssumption, FS_Subset
  <1>2. Cardinality(V) \in Nat /\ Cardinality(S) \in Nat /\ Cardinality(T) \in Nat
    BY <1>1, FS_CardinalityType
  <1>3. Cardinality(S) >= Cardinality(V) \div 2 + 1 /\ Cardinality(T) >= Cardinality(V) \div 2 + 1
    BY DEF Majority, Quorum
  <1>4. S \subseteq V /\ T \subseteq V
    OBVIOUS
  <1> HIDE DEF S, T
  <1>5. Cardinality(S) + Cardinality(T) > Cardinality(V)
    BY <1>2, <1>3
  <1>6. S \cap T # {}
    BY <1>1, <1>4, <1>5, FS_MajoritiesIntersect
  <1>7. QED
    BY <1>6 DEF S, T

(* The voter that two majorities of one membership share voted once.       *)
LEMMA SteadyElects ==
    ASSUME Steady
    PROVE  ElectionSafety
  <1> SUFFICES ASSUME NEW e \in elected, NEW f \in elected, e.term = f.term
               PROVE  e.leader = f.leader
    BY DEF ElectionSafety
  <1>1. PICK V \in SUBSET Server : Inv(Standing(V), {Nobody})
    BY DEF Steady
  <1>2. /\ e.term \in Nat /\ e.leader \in Server /\ e.voters \in SUBSET Server
        /\ f.leader \in Server /\ f.voters \in SUBSET Server
    BY <1>1 DEF Inv, WonByMajorities
  <1>3. Majority(V, e.voters) /\ Majority(V, f.voters)
    <2>1. \A ids : (\E ms \in Standing(V) : Majority(ms.voters, ids)) => Majority(V, ids)
      BY DEF Standing, Nobody, Majority
    <2>2. QED
      BY <2>1, <1>1 DEF Inv, WonByMajorities
  <1>4. PICK v \in Server : v \in e.voters /\ v \in f.voters
    BY <1>2, <1>3, MajoritiesMeet
  <1>5. Voted(v, e.term, e.leader) /\ Voted(v, e.term, f.leader)
    BY <1>4 DEF Voted
  <1>6. QED
    BY <1>1, <1>2, <1>5 DEF Inv, OneVote

(* node.rs: "what stops a restart from being a second vote in the same     *)
(* term".  For every number of nodes and every set of voters, over all of  *)
(* history, restarts and late, lost, repeated or reordered votes included, *)
(* a term has one leader, in a cluster that nobody asks to change.         *)
THEOREM ElectionsAreSafe ==
    ASSUME \A sc \in Scenarios : sc.changes = {}
    PROVE  Spec => []ElectionSafety
  <1>1. Init => Steady
    <2> SUFFICES ASSUME Init
                 PROVE  Steady
      OBVIOUS
    <2> DEFINE V == left.voters
    <2>1. left \in Scenarios
      BY DEF Init
    <2>2. /\ left \in ScenarioOf(Membership) /\ V \in SUBSET Server
          /\ \A n \in Server : Boot(n, left) \in Standing(V)
      BY <2>1, ScenariosAreOfMembership DEF Standing
    <2>3. left.changes = {}
      BY <2>1
    <2>4. left \in ScenarioOf({Nobody})
      BY <2>2, <2>3 DEF ScenarioOf
    <2>5. Inv(Standing(V), {Nobody})
      BY <2>2, <2>4, StandingIsClosed, InitIsInv
    <2>6. QED
      BY <2>2, <2>5 DEF Steady
  <1>2. Steady /\ [Next]_vars => Steady'
    <2> SUFFICES ASSUME Steady, [Next]_vars
                 PROVE  Steady'
      OBVIOUS
    <2>1. PICK V \in SUBSET Server : left.voters = V /\ Inv(Standing(V), {Nobody})
      BY DEF Steady
    <2>2. Inv(Standing(V), {Nobody})' /\ left'.voters = V
      BY <2>1, StandingIsClosed, NextKeepsInv
    <2>3. QED
      BY <2>2 DEF Steady
  <1>3. Steady => ElectionSafety
    BY SteadyElects
  <1>4. QED
    BY <1>1, <1>2, <1>3, PTL DEF Spec
=============================================================================
