------------------------------ MODULE RaftNode ------------------------------
(***************************************************************************)
(* src/raft/node.rs with src/raft/log.rs: one node of a cluster, as a      *)
(* record of its fields, and each of its calls as a function from the node *)
(* and what it is given to the node after the call and the messages it     *)
(* returns.  Raft puts nodes and a network together.                       *)
(*                                                                         *)
(* What the code writes to its Storage is durable before the call returns  *)
(* its messages.  The election timer fires inside tick as soon as it runs  *)
(* out, so between calls it is always still running, and the lease that    *)
(* step checks is held exactly while a leader is known.                    *)
(*                                                                         *)
(* A log keeps the entries a snapshot covers, so that properties can speak *)
(* of them, but nothing here reads one: snap says where the log begins.    *)
(***************************************************************************)
EXTENDS Integers, Sequences, FiniteSets, FiniteSetsExt, SequencesExt

CONSTANTS
    Server,   \* every node there is
    Values,   \* commands clients propose
    Noop,     \* Command::Noop
    Nil,      \* None, for a vote, a leader or a sender
    Batch,    \* Config::max_append_bytes, in entries
    Pieces    \* the length of a snapshot, in messages

ASSUME ServerAssumption == IsFiniteSet(Server) /\ Cardinality(Server) > 1
ASSUME NilAssumption == Nil \notin Server \cup Values
ASSUME NoopAssumption == Noop \notin Values
ASSUME SizesAssumption == Batch \in Nat \ {0} /\ Pieces \in Nat \ {0}

Role == {"Follower", "PreCandidate", "Candidate", "Leader"}

(* What a call does: the node after it, and what it sends.                 *)
Does(s, out) == [s |-> s, out |-> out]
Only(s) == Does(s, {})

-----------------------------------------------------------------------------
(* Entries, and the membership some of them hold (Command::Config).        *)

Membership == [voters : SUBSET Server, learners : SUBSET Server]
Nobody == [voters |-> {}, learners |-> {}]
Everyone(ms) == ms.voters \cup ms.learners

DataEntry(t, v) == [term |-> t, cmd |-> v, members |-> Nobody]
ConfigEntry(t, ms) == [term |-> t, cmd |-> Nil, members |-> ms]
Entry == [term : Nat \ {0}, cmd : Values \cup {Noop, Nil}, members : Membership]

(* A snapshot being sent: which, and how far.                              *)
Sent(index, offset) == [index |-> index, offset |-> offset]

(* The pieces of the snapshot that w wrote of its state at an index.       *)
File(w, index) == [k \in 1 .. Pieces |-> [by |-> w, index |-> index, part |-> k]]

(* A snapshot arriving in pieces, and one this node is writing.            *)
NoIncoming == [from |-> Nil, index |-> 0, term |-> 0, members |-> Nobody, pieces |-> <<>>]
NotBuilding == [index |-> 0, term |-> 0, members |-> Nobody, state |-> <<>>]

(* Storage and StorageExt.                                                 *)
NoSnapshot == [index |-> 0, file |-> <<>>, members |-> Nobody]
LastIndex(s) == Len(s.log)
Held(s) == (s.snap.index + 1) .. LastIndex(s)

(* None, for an index that is not held, is -1; index 0 is before any term. *)
TermAt(s, i) ==
    IF i < s.snap.index \/ i > LastIndex(s) THEN -1
    ELSE IF i = 0 THEN 0 ELSE s.log[i].term
LastTerm(s) == TermAt(s, LastIndex(s))

(* is_up_to_date: a longer log loses to one that ends in a later term.     *)
IsUpToDate(s, m) ==
    \/ m.lastTerm > LastTerm(s)
    \/ m.lastTerm = LastTerm(s) /\ m.lastIndex >= LastIndex(s)

FirstIndexOfTerm(s, t) ==
    LET held == {i \in Held(s) : TermAt(s, i) = t}
    IN  IF held = {} THEN s.snap.index + 1 ELSE Min(held)

IndexesOfTerm(s, t) == {i \in s.snap.index .. LastIndex(s) : i > 0 /\ TermAt(s, i) = t}

EntriesWithin(s, next) == SubSeq(s.log, next, Min({LastIndex(s), next + Batch - 1}))

(* members_at.                                                             *)
ConfigsTo(s, i) == {j \in Held(s) : j <= i /\ s.log[j].members # Nobody}
MembersAt(s, i) ==
    IF ConfigsTo(s, i) # {} THEN s.log[Max(ConfigsTo(s, i))].members
    ELSE IF s.snap.index > 0 THEN s.snap.members ELSE s.boot

Voters(s)   == s.members.voters
Peers(s)    == Voters(s) \ {s.id}
Replicas(s) == (Everyone(s.members) \cup s.departing) \ {s.id}

Quorum_HalfIsEnough(vs) == (Cardinality(vs) + 1) \div 2
Quorum(vs) == Cardinality(vs) \div 2 + 1
HasQuorum(s, ids) ==
    Voters(s) # {} /\ Cardinality(ids \cap Voters(s)) >= Quorum(Voters(s))

(* A follower that is not known of is offered the log from its end.        *)
NextFor(s, p) == IF s.next[p] = 0 THEN LastIndex(s) + 1 ELSE s.next[p]

(* reload_membership: the newest membership in the log, committed or not;  *)
(* who is still sent the log while their removal is uncommitted; and a     *)
(* leader's book-keeping.                                                  *)
Reload(s) ==
    LET at == Max(ConfigsTo(s, LastIndex(s)) \cup {s.snap.index})
        ms == MembersAt(s, at)
        r  == [s EXCEPT !.members = ms, !.membersAt = at,
                        !.departing = IF at > s.commit
                                      THEN Everyone(MembersAt(s, at - 1)) \ (Everyone(ms) \cup {s.id})
                                      ELSE {}]
        only(f, none) == [p \in Server |-> IF p \in Replicas(r) THEN f[p] ELSE none]
    IN  IF s.role # "Leader" THEN r
        ELSE [r EXCEPT !.next = only([p \in Server |-> NextFor(s, p)], 0),
                       !.match = only(@, 0), !.progress = only(@, Sent(0, 0))]

(* with_members: what is not in storage starts over.  A snapshot holds     *)
(* applied state, so that much is committed.                               *)
Started(n, boot, st) ==
    Reload([id |-> n, boot |-> boot, term |-> st.term, votedFor |-> st.votedFor,
            log |-> st.log, snap |-> st.snap,
            role |-> "Follower", leader |-> Nil, votes |-> {}, active |-> {}, start |-> 0,
            commit |-> st.snap.index, applied |-> st.snap.index,
            next |-> [p \in Server |-> 0], match |-> [p \in Server |-> 0],
            progress |-> [p \in Server |-> Sent(0, 0)], departing |-> {},
            members |-> Nobody, membersAt |-> 0,
            incoming |-> NoIncoming, building |-> NotBuilding,
            seq |-> 0, acked |-> [p \in Server |-> 0], remote |-> {},
            reads |-> {}, nextRead |-> 0])

-----------------------------------------------------------------------------
(* Messages.                                                               *)

PreVote(s, p) ==
    [type |-> "PreVote", from |-> s.id, to |-> p, term |-> s.term + 1,
     lastIndex |-> LastIndex(s), lastTerm |-> LastTerm(s)]

RequestVote(s, p) ==
    [type |-> "RequestVote", from |-> s.id, to |-> p, term |-> s.term,
     lastIndex |-> LastIndex(s), lastTerm |-> LastTerm(s)]

VoteReply(type, s, m, t, granted) ==
    [type |-> type, from |-> s.id, to |-> m.from, term |-> t, granted |-> granted]

(* An entry before the log's own has no term to send: 0 stands for none.   *)
AppendEntries(s, p, entries) ==
    [type |-> "AppendEntries", from |-> s.id, to |-> p, term |-> s.term,
     prev |-> NextFor(s, p) - 1, prevTerm |-> Max({TermAt(s, NextFor(s, p) - 1), 0}),
     entries |-> entries, commit |-> s.commit, seq |-> s.seq]

(* The next piece of the snapshot; state is what the whole of it holds.    *)
InstallSnapshot(s, p) ==
    LET offset == IF s.progress[p].index = s.snap.index THEN s.progress[p].offset ELSE 0
    IN  [type |-> "InstallSnapshot", from |-> s.id, to |-> p, term |-> s.term,
         index |-> s.snap.index, lastTerm |-> TermAt(s, s.snap.index), offset |-> offset,
         data |-> s.snap.file[offset + 1], state |-> SubSeq(s.log, 1, s.snap.index),
         done |-> offset + 1 >= Pieces, seq |-> s.seq, members |-> s.snap.members]

(* append_message_for: a follower too far behind is sent the snapshot.     *)
AppendMessageFor(s, p) ==
    IF NextFor(s, p) <= s.snap.index THEN InstallSnapshot(s, p)
    ELSE AppendEntries(s, p, EntriesWithin(s, NextFor(s, p)))

AppendReply(s, m, success, match, conflict) ==
    [type |-> "AppendReply", from |-> s.id, to |-> m.from, term |-> s.term,
     success |-> success, match |-> match, conflict |-> conflict.index,
     conflictTerm |-> conflict.term, seq |-> m.seq]
NoConflict == [index |-> 0, term |-> -1]

SnapshotReply(s, m, offset, done) ==
    [type |-> "SnapshotReply", from |-> s.id, to |-> m.from, term |-> s.term,
     index |-> m.index, offset |-> offset, done |-> done, seq |-> m.seq]

ReadIndexMessage(s, p, id) ==
    [type |-> "ReadIndex", from |-> s.id, to |-> p, term |-> s.term, id |-> id]
ReadIndexReply(s, p, id, index) ==
    [type |-> "ReadIndexReply", from |-> s.id, to |-> p, term |-> s.term, id |-> id,
     index |-> index]

-----------------------------------------------------------------------------
(* Elections.                                                              *)

(* become_follower: the vote goes only if the term does.                   *)
BecomeFollower(s, t) ==
    [s EXCEPT !.role = "Follower", !.leader = Nil, !.votes = {}, !.active = {},
              !.remote = {}, !.term = t, !.votedFor = IF t = s.term THEN @ ELSE Nil]

(* maybe_commit: the highest index a majority of the voters holds, if it   *)
(* is of the leader's own term.                                            *)
MajorityHolds(s) ==
    LET held(i) == {v \in Voters(s) : i <= IF v = s.id THEN LastIndex(s) ELSE s.match[v]}
    IN  Max({i \in 0 .. LastIndex(s) : i = 0 \/ HasQuorum(s, held(i))})
MaybeCommit_AnyTerm(s) == [s EXCEPT !.commit = Max({@, MajorityHolds(s)})]
MaybeCommit(s) ==
    IF MajorityHolds(s) > s.commit /\ TermAt(s, MajorityHolds(s)) = s.term
    THEN [s EXCEPT !.commit = MajorityHolds(s)] ELSE s

AppendLocal(s, e) ==
    LET r == [s EXCEPT !.log = Append(@, e)]
    IN  MaybeCommit(IF e.members = Nobody THEN r ELSE Reload(r))

(* Those who were kept on for their removal go once it has committed.      *)
BroadcastAppend(s) ==
    LET r == IF s.departing # {} /\ s.membersAt <= s.commit THEN Reload(s) ELSE s
    IN  Does(r, {AppendMessageFor(r, p) : p \in Replicas(r)})

(* become_leader: every follower is assumed to match, and a no-op of its   *)
(* own term goes to all of them.                                           *)
BecomeLeader(s) ==
    LET r == [s EXCEPT !.role = "Leader", !.leader = s.id, !.active = {}, !.remote = {},
                  !.progress = [p \in Server |-> Sent(0, 0)],
                  !.acked = [p \in Server |-> 0],
                  !.next = [p \in Server |->
                               IF p \in Replicas(s) THEN LastIndex(s) + 1 ELSE 0],
                  !.match = [p \in Server |-> 0]]
        a == AppendLocal(r, DataEntry(s.term, Noop))
    IN  BroadcastAppend([a EXCEPT !.start = LastIndex(a)])

(* The term a node stands in.                                              *)
NextTerm_TheSame(s) == s.term
NextTerm(s) == s.term + 1

(* become_candidate: the vote for itself is durable like any other.        *)
BecomeCandidate(s) ==
    LET r == [s EXCEPT !.role = "Candidate", !.leader = Nil, !.remote = {},
                       !.term = NextTerm(s), !.votedFor = s.id, !.votes = {s.id}]
    IN  IF HasQuorum(r, r.votes) THEN BecomeLeader(r)
        ELSE Does(r, {RequestVote(r, p) : p \in Peers(r)})

(* become_pre_candidate: nothing is written, no term moves.                *)
BecomePreCandidate(s) ==
    LET r == [s EXCEPT !.role = "PreCandidate", !.leader = Nil, !.remote = {},
                       !.votes = {s.id}]
    IN  IF HasQuorum(r, r.votes) THEN BecomeCandidate(r)
        ELSE Does(r, {PreVote(r, p) : p \in Peers(r)})

(* campaign: stand at once.                                                *)
Campaign(s) == IF s.id \in Voters(s) THEN BecomeCandidate(s) ELSE Only(s)

(* handle_pre_vote, and refuse_vote for a node that knows a leader.        *)
HandlePreVote(s, m) ==
    LET granted == s.leader = Nil /\ m.term > s.term /\ IsUpToDate(s, m)
    IN  Does(s, {VoteReply("PreVoteReply", s, m,
                           IF granted THEN m.term ELSE s.term, granted)})

(* handle_pre_vote_reply: this round's yeses count; a no may say that this *)
(* node is behind.                                                         *)
HandlePreVoteReply(s, m) ==
    LET r == [s EXCEPT !.votes = @ \cup {m.from}]
    IN  IF m.granted
        THEN IF s.role # "PreCandidate" \/ m.term # s.term + 1 THEN Only(s)
             ELSE IF HasQuorum(r, r.votes) THEN BecomeCandidate(r) ELSE Only(r)
        ELSE Only(IF m.term > s.term THEN BecomeFollower(s, m.term) ELSE s)

HandleRequestVote(s, m) ==
    LET granted == s.votedFor \in {Nil, m.from} /\ IsUpToDate(s, m)
    IN  Does([s EXCEPT !.votedFor = IF granted THEN m.from ELSE @],
             {VoteReply("RequestVoteReply", s, m, s.term, granted)})

HandleVoteReply(s, m) ==
    LET r == [s EXCEPT !.votes = @ \cup {m.from}]
    IN  IF s.role # "Candidate" \/ m.term # s.term \/ ~m.granted THEN Only(s)
        ELSE IF HasQuorum(r, r.votes) THEN BecomeLeader(r) ELSE Only(r)

-----------------------------------------------------------------------------
(* Replication.                                                            *)

(* propose and propose_batch.                                              *)
Propose(s, cmds) ==
    LET entries == [i \in DOMAIN cmds |-> DataEntry(s.term, cmds[i])]
    IN  IF s.role # "Leader" THEN Only(s)
        ELSE BroadcastAppend(MaybeCommit([s EXCEPT !.log = @ \o entries]))

(* The log holds the entry the message says comes before its own.          *)
Matches_ByLength(s, prev, prevTerm) == prev <= LastIndex(s)
Matches(s, prev, prevTerm) == TermAt(s, prev) = prevTerm

(* How many of the entries after prev the log already has, and the log     *)
(* once it has them all: cut only at a real conflict.                      *)
AlreadyHeld(s, prev, entries) ==
    Max({k \in 0 .. Len(entries) :
            \A i \in 1 .. k : TermAt(s, prev + i) = entries[i].term})
Cut_Always(s, prev, entries) == SubSeq(s.log, 1, prev + AlreadyHeld(s, prev, entries))
Cut(s, prev, entries) ==
    LET held == AlreadyHeld(s, prev, entries)
    IN  IF held = Len(entries) THEN s.log ELSE SubSeq(s.log, 1, prev + held)
Fresh(s, prev, entries) == SubSeq(entries, AlreadyHeld(s, prev, entries) + 1, Len(entries))

(* A membership is in force from when it is in the log until it is not.    *)
Spliced(s, prev, entries) ==
    LET cut   == Cut(s, prev, entries)
        fresh == Fresh(s, prev, entries)
        r     == [s EXCEPT !.log = cut \o fresh]
        moved == cut # s.log \/ \E i \in DOMAIN fresh : fresh[i].members # Nobody
    IN  IF moved THEN Reload(r) ELSE r

(* The follower's commit index after a message that covers up to covered.  *)
FollowerCommit_TrustsTheLeader(ci, leaderCommit, covered) == Max({ci, leaderCommit})
FollowerCommit(ci, leaderCommit, covered) ==
    IF leaderCommit > ci THEN Min({leaderCommit, covered}) ELSE ci

(* Where the logs part: a term the leader can rewind by.                   *)
Conflict(s, prev) ==
    IF TermAt(s, prev) = -1 THEN [index |-> LastIndex(s) + 1, term |-> -1]
    ELSE [index |-> FirstIndexOfTerm(s, TermAt(s, prev)), term |-> TermAt(s, prev)]

(* Hearing from the leader of the term.                                    *)
Concede(s, m) == [s EXCEPT !.role = "Follower", !.leader = m.from]

(* What of the message is past this node's snapshot.                       *)
Past(s, m) ==
    LET skip == s.snap.index - m.prev
    IN  IF skip <= 0 THEN [prev |-> m.prev, prevTerm |-> m.prevTerm, entries |-> m.entries]
        ELSE [prev |-> s.snap.index, prevTerm |-> TermAt(s, s.snap.index),
              entries |-> SubSeq(m.entries, skip + 1, Len(m.entries))]

HandleAppendEntries(s, m) ==
    LET c       == Concede(s, m)
        past    == Past(s, m)
        covered == past.prev + Len(past.entries)
        r       == Spliced(c, past.prev, past.entries)
    IN  IF m.prev < s.snap.index /\ past.entries = <<>>
        THEN Does(c, {AppendReply(s, m, TRUE, s.snap.index, NoConflict)})
        ELSE IF ~Matches(s, past.prev, past.prevTerm)
        THEN Does(c, {AppendReply(s, m, FALSE, 0, Conflict(s, past.prev))})
        ELSE Does([r EXCEPT !.commit = FollowerCommit(@, m.commit, covered)],
                  {AppendReply(s, m, TRUE, covered, NoConflict)})

(* Where the leader resumes after a refusal.                               *)
Resume(s, m) ==
    IF IndexesOfTerm(s, m.conflictTerm) # {} THEN Max(IndexesOfTerm(s, m.conflictTerm)) + 1
    ELSE Max({m.conflict, 1})

(* A follower holds everything up to i: progress never moves back.         *)
Reached(s, p, i) == MaybeCommit([s EXCEPT !.match[p] = i, !.next[p] = i + 1])

(* handle_append_reply: a follower with more to come is sent it at once.   *)
HandleAppendReply(s, m) ==
    LET r == Reached(s, m.from, m.match)
        b == [s EXCEPT !.next[m.from] = Resume(s, m)]
    IN  IF ~m.success THEN Does(b, {AppendMessageFor(b, m.from)})
        ELSE IF m.match <= s.match[m.from] THEN Only(s)
        ELSE Does(r, IF m.match < LastIndex(r) THEN {AppendMessageFor(r, m.from)} ELSE {})

-----------------------------------------------------------------------------
(* Reads.  A read is Local, confirmed by a round of this leader, or        *)
(* Forwarded to one.  asked is a history: what was committed when it began.*)

Waiting == -1
Refused == -2

LocalRead(s, index, asked) ==
    [kind |-> "Local", term |-> s.term, seq |-> s.seq, index |-> index, asked |-> asked]
ForwardedRead(s, asked) ==
    [kind |-> "Forwarded", id |-> s.nextRead, leader |-> s.leader, answer |-> Waiting,
     asked |-> asked]

(* The index a read must wait for: a leader that has not committed its     *)
(* no-op does not know what is.                                            *)
ReadAt_OfTheCommitIndex(s) == s.commit
ReadAt(s) == Max({s.commit, s.start})

OpenReadRound(s) ==
    LET r == [s EXCEPT !.seq = @ + 1]
    IN  Does(r, {AppendEntries(r, p, <<>>) :
                    p \in {q \in Replicas(r) : NextFor(r, q) > r.snap.index}})

ReadIndex(s, asked) ==
    LET round == OpenReadRound(s)
        f     == [s EXCEPT !.nextRead = @ + 1]
    IN  IF s.role = "Leader"
        THEN Does([round.s EXCEPT !.reads = @ \cup {LocalRead(round.s, ReadAt(s), asked)}],
                  round.out)
        ELSE IF s.leader = Nil THEN Only(s)
        ELSE Does([f EXCEPT !.reads = @ \cup {ForwardedRead(f, asked)}],
                  {ReadIndexMessage(f, s.leader, f.nextRead)})

RoundConfirmed_Unanswered(s, seq) == HasQuorum(s, Voters(s))
RoundConfirmed(s, seq) == HasQuorum(s, {p \in Peers(s) : s.acked[p] >= seq} \cup {s.id})

(* read_state: the index, or why there is none.                            *)
ReadState(s, r) ==
    IF r.kind = "Local"
    THEN IF s.role # "Leader" \/ s.term # r.term THEN Refused
         ELSE IF RoundConfirmed(s, r.seq) THEN r.index ELSE Waiting
    ELSE IF r.answer = Waiting /\ s.leader # r.leader THEN Refused ELSE r.answer

ForgetRead(s, r) == Only([s EXCEPT !.reads = @ \ {r}])

HandleReadIndex(s, m) ==
    LET round == OpenReadRound(s)
        read  == [from |-> m.from, id |-> m.id, seq |-> round.s.seq, index |-> ReadAt(s)]
    IN  IF s.role # "Leader" THEN Does(s, {ReadIndexReply(s, m.from, m.id, Refused)})
        ELSE Does([round.s EXCEPT !.remote = @ \cup {read}], round.out)

(* An answer is taken by its id, whatever the term it comes from.          *)
HandleReadIndexReply(s, m) ==
    LET mine == {r \in s.reads : r.kind = "Forwarded" /\ r.id = m.id /\ r.answer = Waiting}
    IN  Only([s EXCEPT !.reads = (@ \ mine) \cup {[r EXCEPT !.answer = m.index] : r \in mine}])

(* heard_round and release_reads.                                          *)
HeardRound(s, m) ==
    LET r    == [s EXCEPT !.active = @ \cup {m.from}, !.acked[m.from] = Max({@, m.seq})]
        done == {q \in r.remote : RoundConfirmed(r, q.seq)}
    IN  IF m.seq <= s.acked[m.from] THEN Only(r)
        ELSE Does([r EXCEPT !.remote = @ \ done],
                  {ReadIndexReply(r, q.from, q.id, q.index) : q \in done})

-----------------------------------------------------------------------------
(* Snapshots.                                                              *)

(* EntryLog::compact: a snapshot no newer than the node's own is dropped,  *)
(* and what follows a newer one is kept if it agrees.                      *)
Installed(s, meta, file, state) ==
    IF meta.index <= s.snap.index THEN s
    ELSE [s EXCEPT !.log = IF TermAt(s, meta.index) = meta.term THEN @ ELSE state,
                   !.snap = [index |-> meta.index, file |-> file, members |-> meta.members]]

(* begin_compaction, of all that is applied, as start_snapshot asks.  The  *)
(* state written is the one of this moment, whatever is applied meanwhile. *)
BeginCompaction(s) ==
    IF \/ s.building # NotBuilding \/ s.applied <= s.snap.index
       \/ TermAt(s, s.applied) = -1
    THEN Only(s)
    ELSE Only([s EXCEPT !.building = [index |-> s.applied, term |-> TermAt(s, s.applied),
                                      members |-> MembersAt(s, s.applied),
                                      state |-> SubSeq(s.log, 1, s.applied)]])

FinishCompaction(s) ==
    LET b == s.building
    IN  Only(Installed([s EXCEPT !.building = NotBuilding], b, File(s.id, b.index), b.state))

(* Whether a piece belongs to the snapshot that is arriving.               *)
Continuing_ByIndex(s, m) == s.incoming.index = m.index /\ s.incoming.term = m.lastTerm
Continuing(s, m) ==
    s.incoming.from = m.from /\ s.incoming.index = m.index /\ s.incoming.term = m.lastTerm

(* What this node already holds is answered done, with nothing installed.  *)
Unwanted_InTheLog(s, m) == m.index <= LastIndex(s)
Unwanted(s, m) == m.index <= s.commit

HandleInstallSnapshot(s, m) ==
    LET c     == Concede(s, m)
        begun == IF Continuing(s, m) THEN s.incoming
                 ELSE [from |-> m.from, index |-> m.index, term |-> m.lastTerm,
                       members |-> m.members, pieces |-> <<>>]
        held  == Len(begun.pieces)
        grown == [begun EXCEPT !.pieces = Append(@, m.data)]
        done  == Reload(Installed([c EXCEPT !.incoming = NoIncoming],
                                  grown, grown.pieces, m.state))
    IN  IF Unwanted(s, m)
        THEN Does([c EXCEPT !.incoming = NoIncoming], {SnapshotReply(s, m, 0, TRUE)})
        ELSE IF ~Continuing(s, m) /\ m.offset # 0
        THEN Does(c, {SnapshotReply(s, m, 0, FALSE)})
        ELSE IF m.offset # held
        THEN Does(c, {SnapshotReply(s, m, held, FALSE)})
        ELSE IF ~m.done
        THEN Does([c EXCEPT !.incoming = grown], {SnapshotReply(s, m, held + 1, FALSE)})
        ELSE Does([done EXCEPT !.commit = Max({@, m.index}), !.applied = Max({@, m.index})],
                  {SnapshotReply(s, m, held + 1, TRUE)})

HandleSnapshotReply(s, m) ==
    LET p    == m.from
        c    == [s EXCEPT !.progress[p] = Sent(0, 0)]
        r    == IF m.index > s.match[p] THEN Reached(c, p, m.index) ELSE c
        more == [s EXCEPT !.progress[p] =
                    Sent(s.snap.index, IF m.index = s.snap.index THEN m.offset ELSE 0)]
    IN  IF m.done
        THEN Does(r, IF r.next[p] <= LastIndex(r) THEN {AppendMessageFor(r, p)} ELSE {})
        ELSE Does(more, {AppendMessageFor(more, p)})

-----------------------------------------------------------------------------
(* Membership.                                                             *)

ReadyToServe_InOffice(s) == s.role = "Leader"
ReadyToServe(s) == s.role = "Leader" /\ s.commit >= s.start

(* propose_membership: one voter at a time, one change at a time.          *)
ProposeMembership(s, ms) ==
    LET moved == (ms.voters \ Voters(s)) \cup (Voters(s) \ ms.voters)
    IN  IF /\ ReadyToServe(s) /\ s.membersAt <= s.commit
           /\ ms.voters # {} /\ Cardinality(moved) <= 1
        THEN BroadcastAppend(AppendLocal(s, ConfigEntry(s.term, ms)))
        ELSE Only(s)

(* maybe_promote: a learner that holds everything committed, the first of  *)
(* them in the code's list, whichever that is.                             *)
CaughtUp(s) == {p \in s.members.learners : s.match[p] >= s.commit}
MaybePromote(s) ==
    IF ~ReadyToServe(s) \/ s.membersAt > s.commit \/ CaughtUp(s) = {}
    THEN {Only(s)}
    ELSE {ProposeMembership(s, [voters |-> Voters(s) \cup {p},
                                learners |-> s.members.learners \ {p}]) :
             p \in CaughtUp(s)}

-----------------------------------------------------------------------------
(* tick, on which one timer runs out or none does: two at once are the     *)
(* same as one after the other.                                            *)
CheckQuorum(s) ==
    IF HasQuorum(s, s.active \cup {s.id}) THEN [s EXCEPT !.active = {}]
    ELSE BecomeFollower(s, s.term)

Tick(s, due) ==
    LET out  == s.role = "Leader" /\ s.id \notin Voters(s) /\ s.commit >= s.membersAt
        beat == IF due = "heartbeat" THEN BroadcastAppend(s) ELSE Only(s)
    IN  IF out THEN {Only(BecomeFollower(s, s.term))}
        ELSE IF s.role = "Leader"
        THEN {Does(IF due = "election" THEN CheckQuorum(p.s) ELSE p.s, beat.out \cup p.out) :
                 p \in MaybePromote(beat.s)}
        ELSE IF due # "election" THEN {Only(s)}
        ELSE IF s.id \in Voters(s) THEN {BecomePreCandidate(s)}
        ELSE {Only([s EXCEPT !.role = "Follower"])}

(* step: the lease and the pre-vote come before the rule on terms.         *)

ReplyStale(s, m) ==
    CASE m.type = "RequestVote"     -> VoteReply("RequestVoteReply", s, m, s.term, FALSE)
      [] m.type = "AppendEntries"   -> [AppendReply(s, m, FALSE, 0, NoConflict) EXCEPT !.seq = 0]
      [] m.type = "InstallSnapshot" -> [SnapshotReply(s, m, 0, FALSE) EXCEPT !.seq = 0]
      [] m.type = "ReadIndex"       -> ReadIndexReply(s, m.from, m.id, Refused)

(* A request is turned away by a node in a later term, and one for a vote  *)
(* by a node that knows a leader; otherwise it is the handler's, of the    *)
(* node once it has adopted the term.                                      *)
TurnedAway(s, m) ==
    \/ m.term < s.term
    \/ m.type = "RequestVote" /\ s.leader # Nil
Uptodate(s, m) == IF m.term > s.term THEN BecomeFollower(s, m.term) ELSE s
Requested(s, m, handled) ==
    IF TurnedAway(s, m) THEN Does(s, {ReplyStale(s, m)}) ELSE handled

(* A reply counts for a leader that still leads in its term.               *)
Counts(s, m) == s.role = "Leader" /\ m.term = s.term
Answered(s, m, heard, handled) ==
    IF Counts(s, m) THEN Does(handled.s, heard.out \cup handled.out) ELSE Only(s)
=============================================================================
