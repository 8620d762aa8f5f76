-------------------------------- MODULE Raft --------------------------------
(***************************************************************************)
(* A cluster of RaftNodes and the network between them.  One action is one *)
(* call of a node's tick, step or one of the calls its clients make, with  *)
(* what Replicated's own tick and step apply before they return.  The      *)
(* network holds a few messages at a time: one may be late, out of order,  *)
(* delivered more than once, or lost.  A node restarts on what its Storage *)
(* holds.                                                                  *)
(***************************************************************************)
EXTENDS RaftNode

CONSTANT Scenarios
    (* bound: what happens at most, one of these to a behaviour.           *)
    (* inFlight, maxTerm and maxSeq limit the network, the terms and the   *)
    (* rounds; ticks, campaigns, proposals, restarts, compactions and      *)
    (* reads count calls; changes holds the memberships that are asked     *)
    (* for.  voters is the membership the cluster starts with.             *)

ASSUME ScenariosAssumption ==
    Scenarios \subseteq
        [inFlight : Nat, maxTerm : Nat, maxSeq : Nat, ticks : Nat, campaigns : Nat,
         proposals : Nat, restarts : Nat, compactions : Nat, reads : Nat,
         voters : (SUBSET Server) \ {{}}, changes : SUBSET Membership]

VARIABLES
    node,       \* the nodes
    msgs,       \* the messages in flight
    left,       \* what is left of the scenario
    elected,    \* history: every election won, and by whose votes
    committed   \* history: every entry a leader ever committed

vars == <<node, msgs, left, elected, committed>>

-----------------------------------------------------------------------------
(* A node that is not in the membership it is started with is started with *)
(* none.                                                                   *)
Boot(n, sc) == [voters |-> IF n \in sc.voters THEN sc.voters ELSE {}, learners |-> {}]
EmptyStorage == [term |-> 0, votedFor |-> Nil, log |-> <<>>, snap |-> NoSnapshot]

Init ==
    /\ left \in Scenarios
    /\ node = [n \in Server |-> Started(n, Boot(n, left), EmptyStorage)]
    /\ msgs = {} /\ elected = {} /\ committed = {}

Spend(what) == /\ left[what] > 0
               /\ left' = [left EXCEPT ![what] = @ - 1]

(* The network takes what a call sends and loses any of what it holds to   *)
(* make room.  Losing more would allow nothing new: a message in flight    *)
(* may never be delivered, and one that was may be delivered again.        *)
Send(ms) ==
    LET all == msgs \cup ms
    IN  \E kept \in SUBSET all :
            /\ Cardinality(kept) = Min({left.inFlight, Cardinality(all)})
            /\ msgs' = kept

(* What a leader that is at s has committed.                               *)
NewlyCommitted(s) ==
    {c \in {[at |-> j, entry |-> s.log[j], by |-> s.term] : j \in 1 .. s.commit} :
        ~\E d \in committed : d.at = c.at /\ d.entry = c.entry}

(* Node n makes a call that leaves it at s and sends ms.                   *)
Call(n, s, ms) ==
    /\ s.term <= left.maxTerm /\ s.seq <= left.maxSeq
    /\ node' = [node EXCEPT ![n] = s]
    /\ Send(ms)
    /\ elected' = IF s.role = "Leader" /\ <<s.role, s.term>> # <<node[n].role, node[n].term>>
                  THEN elected \cup {[term |-> s.term, leader |-> n, voters |-> s.votes]}
                  ELSE elected
    /\ committed' = IF s.role = "Leader" THEN committed \cup NewlyCommitted(s) ELSE committed

(* Replicated takes what is committed before it lets go of the node.       *)
Applied(s) == [s EXCEPT !.applied = Max({@, s.commit})]

-----------------------------------------------------------------------------
(* step, with one message.                                                 *)
Deliver(m, type, r) ==
    /\ m.type = type
    /\ Call(m.to, Applied(r.s), r.out)
    /\ UNCHANGED left

At(m) == node[m.to]
Ready(m) == Uptodate(node[m.to], m)

DeliverPreVote(m) == Deliver(m, "PreVote", HandlePreVote(At(m), m))
DeliverPreVoteReply(m) == Deliver(m, "PreVoteReply", HandlePreVoteReply(At(m), m))
DeliverRequestVote(m) ==
    Deliver(m, "RequestVote", Requested(At(m), m, HandleRequestVote(Ready(m), m)))
DeliverVoteReply(m) == Deliver(m, "RequestVoteReply", HandleVoteReply(Ready(m), m))
DeliverAppendEntries(m) ==
    Deliver(m, "AppendEntries", Requested(At(m), m, HandleAppendEntries(Ready(m), m)))
DeliverAppendReply(m) ==
    LET heard == HeardRound(Ready(m), m)
    IN  Deliver(m, "AppendReply",
                Answered(Ready(m), m, heard, HandleAppendReply(heard.s, m)))
DeliverInstallSnapshot(m) ==
    Deliver(m, "InstallSnapshot", Requested(At(m), m, HandleInstallSnapshot(Ready(m), m)))
DeliverSnapshotReply(m) ==
    LET heard == HeardRound(Ready(m), m)
    IN  Deliver(m, "SnapshotReply",
                Answered(Ready(m), m, heard, HandleSnapshotReply(heard.s, m)))
DeliverReadIndex(m) ==
    Deliver(m, "ReadIndex", Requested(At(m), m, HandleReadIndex(Ready(m), m)))
DeliverReadIndexReply(m) ==
    Deliver(m, "ReadIndexReply", HandleReadIndexReply(Ready(m), m))

TimerRunsOut(n, due) ==
    /\ Spend("ticks")
    /\ \E r \in Tick(node[n], due) : Call(n, Applied(r.s), r.out)
Heartbeat(n) == node[n].role = "Leader" /\ TimerRunsOut(n, "heartbeat")
ElectionTimer(n) == TimerRunsOut(n, "election")

Stand(n) ==
    /\ Spend("campaigns")
    /\ LET r == Campaign(node[n]) IN Call(n, Applied(r.s), r.out)

ClientProposes(n, cmds) ==
    /\ node[n].role = "Leader"
    /\ Spend("proposals")
    /\ LET r == Propose(node[n], cmds) IN Call(n, r.s, r.out)

ClientReads(n) ==
    /\ Spend("reads")
    /\ LET r == ReadIndex(node[n], Max({c.at : c \in committed} \cup {0}))
       IN  Call(n, r.s, r.out)

ClientForgets(n) ==
    /\ \E read \in node[n].reads : Call(n, ForgetRead(node[n], read).s, {})
    /\ UNCHANGED left

ClientChanges(n, ms) ==
    /\ ms \in left.changes
    /\ left' = [left EXCEPT !.changes = @ \ {ms}]
    /\ LET r == ProposeMembership(node[n], ms)
       IN  r.s # node[n] /\ Call(n, r.s, r.out)

SnapshotBegins(n) ==
    /\ Spend("compactions")
    /\ LET r == BeginCompaction(node[n]) IN r.s # node[n] /\ Call(n, r.s, {})

SnapshotEnds(n) ==
    /\ node[n].building # NotBuilding
    /\ Call(n, FinishCompaction(node[n]).s, {})
    /\ UNCHANGED left

(* A restart, on storage st.                                               *)
Restarted(n, st) ==
    /\ Spend("restarts")
    /\ node' = [node EXCEPT ![n] = Started(n, node[n].boot, st)]
    /\ UNCHANGED <<msgs, elected, committed>>

Storage(s) == [term |-> s.term, votedFor |-> s.votedFor, log |-> s.log, snap |-> s.snap]
Restart_ForgetsItsVote(n) == Restarted(n, [Storage(node[n]) EXCEPT !.votedFor = Nil])
Restart(n) == Restarted(n, Storage(node[n]))

(* handle_append_entries dies between truncating the log and appending to  *)
(* it: the one handler that writes its log twice.                          *)
CrashAfterCut(m) ==
    LET s    == Uptodate(node[m.to], m)
        past == Past(s, m)
        cut  == Cut(s, past.prev, past.entries)
    IN  /\ m.type = "AppendEntries"
        /\ m.term >= s.term /\ Matches(s, past.prev, past.prevTerm)
        /\ cut # s.log
        /\ Restarted(m.to, [Storage(s) EXCEPT !.log = cut])

-----------------------------------------------------------------------------
Proposals == {<<v>> : v \in Values} \cup {<<v, w>> : v, w \in Values}
Elect ==
    \/ \E n \in Server : ElectionTimer(n) \/ Stand(n)
    \/ \E m \in msgs : \/ DeliverPreVote(m) \/ DeliverPreVoteReply(m)
                       \/ DeliverRequestVote(m) \/ DeliverVoteReply(m)
Replicate ==
    \/ \E n \in Server : \/ Heartbeat(n)
                         \/ \E cmds \in Proposals : ClientProposes(n, cmds)
                         \/ \E ms \in left.changes : ClientChanges(n, ms)
    \/ \E m \in msgs : DeliverAppendEntries(m) \/ DeliverAppendReply(m)
Snapshot ==
    \/ \E n \in Server : SnapshotBegins(n) \/ SnapshotEnds(n)
    \/ \E m \in msgs : DeliverInstallSnapshot(m) \/ DeliverSnapshotReply(m)
Read ==
    \/ \E n \in Server : ClientReads(n) \/ ClientForgets(n)
    \/ \E m \in msgs : DeliverReadIndex(m) \/ DeliverReadIndexReply(m)
Crash ==
    \/ \E n \in Server : Restart(n)
    \/ \E m \in msgs : CrashAfterCut(m)
Next == Elect \/ Replicate \/ Snapshot \/ Read \/ Crash

Spec == Init /\ [][Next]_vars

-----------------------------------------------------------------------------
Message ==
    [type : {"PreVote", "RequestVote"}, from : Server, to : Server, term : Nat,
     lastIndex : Nat, lastTerm : Nat]
    \cup [type : {"PreVoteReply", "RequestVoteReply"}, from : Server, to : Server,
          term : Nat, granted : BOOLEAN]
    \cup [type : {"AppendEntries"}, from : Server, to : Server, term : Nat, prev : Nat,
          prevTerm : Nat, entries : Seq(Entry), commit : Nat, seq : Nat]
    \cup [type : {"AppendReply"}, from : Server, to : Server, term : Nat, success : BOOLEAN,
          match : Nat, conflict : Nat, conflictTerm : Int, seq : Nat]
    \cup [type : {"InstallSnapshot"}, from : Server, to : Server, term : Nat,
          index : Nat \ {0}, lastTerm : Nat, offset : 0 .. Pieces - 1,
          data : [by : Server, index : Nat, part : 1 .. Pieces], state : Seq(Entry),
          done : BOOLEAN, seq : Nat, members : Membership]
    \cup [type : {"SnapshotReply"}, from : Server, to : Server, term : Nat, index : Nat,
          offset : 0 .. Pieces, done : BOOLEAN, seq : Nat]
    \cup [type : {"ReadIndex"}, from : Server, to : Server, term : Nat, id : Nat]
    \cup [type : {"ReadIndexReply"}, from : Server, to : Server, term : Nat, id : Nat,
          index : Int]

(* The type of every variable; and a leader waits for no index it does not *)
(* have, or a follower would be sent entries that are not there.           *)
TypeOK ==
    /\ msgs \subseteq Message
    /\ \A n \in Server :
          LET s == node[n] IN
          /\ s.term \in Nat /\ s.votedFor \in Server \cup {Nil} /\ s.log \in Seq(Entry)
          /\ s.snap.index \in 0 .. s.applied /\ s.snap.members \in Membership
          /\ s.role \in Role /\ s.leader \in Server \cup {Nil}
          /\ s.votes \subseteq Server /\ s.active \subseteq Server
          /\ s.commit \in 0 .. LastIndex(s) /\ s.applied \in 0 .. LastIndex(s)
          /\ s.start \in Nat /\ s.seq \in Nat /\ s.nextRead \in Nat
          /\ s.next \in [Server -> Nat] /\ s.match \in [Server -> Nat]
          /\ s.acked \in [Server -> Nat]
          /\ s.progress \in [Server -> [index : Nat, offset : 0 .. Pieces]]
          /\ s.departing \subseteq Server \ {n}
          /\ s.incoming.from \in Server \cup {Nil} /\ Len(s.incoming.pieces) < Pieces
          /\ s.building.index \in 0 .. s.applied
          /\ \A r \in s.remote : r.seq <= s.seq
    /\ elected \subseteq [term : Nat, leader : Server, voters : SUBSET Server]
    /\ committed \subseteq [at : Nat \ {0}, entry : Entry, by : Nat]

(* node.rs "what stops a restart from being a second vote in the same      *)
(* term": one term, one leader, over all of history, restarts, late votes  *)
(* and changes of the membership included.                                 *)
ElectionSafety ==
    \A e, f \in elected : e.term = f.term => e.leader = f.leader

(* message.rs "accepting proves the two logs are identical up to that      *)
(* point": logs that agree on the term of an index agree up to it, in what *)
(* a snapshot stands for as well.                                          *)
LogMatching ==
    \A a, b \in Server : \A i \in DOMAIN node[a].log \cap DOMAIN node[b].log :
        node[a].log[i].term = node[b].log[i].term
        => SubSeq(node[a].log, 1, i) = SubSeq(node[b].log, 1, i)

Holds(n, c) == c.at \in DOMAIN node[n].log /\ node[n].log[c.at] = c.entry

(* message.rs "what stops a stale node from being elected and erasing      *)
(* entries": whoever leads a later term holds everything committed before, *)
(* whatever the memberships the two were elected under.                    *)
LeaderCompleteness ==
    \A n \in Server, c \in committed :
        node[n].role = "Leader" /\ node[n].term >= c.by => Holds(n, c)

(* take_committed "what makes the state machines agree": at most one entry *)
(* is ever committed at an index, and what a node has counted committed,   *)
(* applied or folded into a snapshot is that entry.                        *)
StateMachineSafety ==
    /\ \A c, d \in committed : c.at = d.at => c.entry = d.entry
    /\ \A n \in Server :
          \A i \in 1 .. Max({node[n].commit, node[n].applied, node[n].snap.index}) :
              \E c \in committed : c.at = i /\ Holds(n, c)

(* README "a majority surviving is enough": while the membership stands,   *)
(* in the middle of any election or catch-up, a majority of the logs holds *)
(* each committed entry.                                                   *)
MajorityHoldsCommitted ==
    \A c \in committed :
        Cardinality({n \in left.voters : Holds(n, c)}) >= Quorum(left.voters)

(* What a leader counts a follower's progress to be, from appends, from    *)
(* refusals and from snapshots it was sent or already had, the follower    *)
(* holds: the count is what entries are committed by.                      *)
ProgressIsReal ==
    \A n, p \in Server :
        node[n].role = "Leader" /\ node[p].term = node[n].term /\ p # n
        => \A i \in 1 .. node[n].match[p] :
              i \in DOMAIN node[p].log /\ node[p].log[i] = node[n].log[i]

(* node.rs "Pieces from two leaders are never spliced": what a node has of *)
(* a snapshot is the start of one node's file, and what it installs is the *)
(* whole of one, whoever sent which piece, how often and in what order.    *)
SnapshotsAreWhole ==
    \A n \in Server :
        LET s == node[n] IN
        /\ s.snap.index > 0 => \E w \in Server : s.snap.file = File(w, s.snap.index)
        /\ s.incoming.pieces # <<>> =>
              \E w \in Server : IsPrefix(s.incoming.pieces, File(w, s.incoming.index))

(* ReadState::Ready "will then see every write that was acknowledged       *)
(* before the read began": the index a read is given, by a leader or by    *)
(* its answer to a follower, covers all that had been committed anywhere.  *)
ReadsAreFresh ==
    \A n \in Server : \A r \in node[n].reads :
        ReadState(node[n], r) >= 0 => ReadState(node[n], r) >= r.asked
=============================================================================
