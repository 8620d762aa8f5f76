------------------------------ MODULE Cluster ------------------------------
(***************************************************************************)
(* src/cluster.rs: the threads of one cluster node.  Every client has its  *)
(* own; the ticker and one thread for each peer drive the replica, under   *)
(* its lock, and then tell whoever waits that it has changed.              *)
(*                                                                         *)
(* The replica is what its module and Raft let these threads see of it:    *)
(* the term, whether this node leads, its log and how far that is          *)
(* committed, which here is also how far it is applied.  What the rest of  *)
(* the cluster does to it is PeerStep.                                     *)
(***************************************************************************)
EXTENDS Naturals, Sequences, FiniteSets, FiniteSetsExt, SequencesExt, Ordered

CONSTANTS
    Writers,     \* clients that send a write
    Large,       \* those whose command is over max_entry_bytes
    Changers,    \* clients that send RAFT.ADD or RAFT.REMOVE
    Readers,     \* clients that send a read
    Me,          \* this node
    Bootstrap,   \* the members it was started with
    Nodes,       \* every node that may be a member
    None,        \* nothing, or not yet
    Failed,      \* ReadState::Failed
    MaxTerm,     \* bound: the highest term
    MaxLog,      \* bound: how long other leaders make the log
    Casts        \* bound: which clients are there, and how many steps the
                 \* ticker and the peers take: [clients, steps]

ASSUME NodesAssumption == Bootstrap \subseteq Nodes /\ Me \in Bootstrap

Clients == Writers \cup Changers \cup Readers

ASSUME ClientsAssumption == /\ Large \subseteq Writers
                            /\ Writers \cap (Changers \cup Readers) = {}
                            /\ Changers \cap Readers = {}
                            /\ IsFiniteSet(Writers)

ASSUME BoundsAssumption ==
    /\ MaxTerm \in Nat \ {0} /\ MaxLog \in Nat
    /\ \A cast \in Casts : cast.clients \subseteq Clients /\ cast.steps \in Nat

(* Where a proposal went.                                                  *)
Place == [index : Nat, term : 1..MaxTerm]

Replies == {"OK", "REFUSED", "NOTLEADER", "TIMEOUT", "MOVED", "VALUE"}

ASSUME NoneAssumption == None \notin Place /\ None \notin Replies

(* An entry: a client's write, a membership, or one of another node's.     *)
Entry(t, c, ms) == [term |-> t, by |-> c, members |-> ms]

VARIABLES
    term, leading, log, commit,   \* the replica
    leaderStart,                  \* Node.leader_start
    book,        \* AddressBook: [senders, seen]
    waiting,     \* Queue.waiting: [ticket, by]
    answers,     \* Queue.answers: [ticket, answer]
    busy, nextTicket,             \* the rest of the Queue
    changes,     \* Shared.changes
    unsignalled, \* replica changes whose thread has not called changed yet
    pc,          \* where each client's thread is
    ticket,      \* its ticket
    batch,       \* the batch it is proposing, then its answers
    landed,      \* where it was told its proposal went: [index, term]
    seen,        \* wait_for's seen
    read,        \* Readers: the confirmed index, Failed, or None while Pending
    reply,       \* what the client was told
    agreed,      \* history: how far the cluster's log is committed
    floor,       \* history: agreed when the read began
    readAt,      \* history: commit when the read was answered
    placed,      \* history: every place a client's proposal was given
    steps        \* steps left to the ticker and the peers

replica == <<term, leading, log, commit, leaderStart>>
queue == <<waiting, answers, busy, nextTicket>>
locals == <<ticket, batch, landed, seen>>
results == <<read, reply, floor, readAt, placed>>
vars == <<replica, book, queue, changes, unsignalled, pc, locals, results, agreed, steps>>

-----------------------------------------------------------------------------
(* Node::members: the newest membership in the log, from the moment it is  *)
(* there.                                                                  *)
ConfigsIn(l) == {i \in DOMAIN l : l[i].members # {}}
MembershipIndex(l) == IF ConfigsIn(l) = {} THEN 0 ELSE Max(ConfigsIn(l))
Members(l) == IF ConfigsIn(l) = {} THEN Bootstrap ELSE l[Max(ConfigsIn(l))].members

(* AddressBook::update: reach every member; a node that is configured is   *)
(* never dropped.                                                          *)
Update_SendsToItself(b, l) ==
    [senders |-> Members(l) \cup Bootstrap, seen |-> MembershipIndex(l)]
Update(b, l) == [senders |-> (Members(l) \cup Bootstrap) \ {Me}, seen |-> MembershipIndex(l)]

(* follow_membership.                                                      *)
Follow(b, l) == IF b.seen = MembershipIndex(l) THEN b ELSE Update(b, l)

Init ==
    /\ term = 1 /\ leading = TRUE
    /\ log = <<Entry(1, None, {})>> /\ commit = 1 /\ leaderStart = 1
    /\ book = [senders |-> Bootstrap \ {Me}, seen |-> 0]
    /\ waiting = <<>> /\ answers = {} /\ busy = FALSE /\ nextTicket = 0
    /\ changes = 0 /\ unsignalled = 0
    /\ \E cast \in Casts :
          /\ pc = [c \in Clients |-> IF c \in cast.clients THEN "start" ELSE "done"]
          /\ steps = cast.steps
    /\ ticket = [c \in Clients |-> None]
    /\ batch = [c \in Clients |-> <<>>]
    /\ landed = [c \in Clients |-> None]
    /\ seen = [c \in Clients |-> 0]
    /\ read = [c \in Readers |-> None]
    /\ reply = [c \in Clients |-> None]
    /\ agreed = 1
    /\ floor = [c \in Readers |-> 0] /\ readAt = [c \in Readers |-> 0]
    /\ placed = [c \in Clients |-> {}]

Goto(c, at) == pc' = [pc EXCEPT ![c] = at]

Answer(c, r) == /\ reply' = [reply EXCEPT ![c] = r]
                /\ Goto(c, "done")

-----------------------------------------------------------------------------
(* Proposals::submit. Each turn of its loop is a step of its own, though   *)
(* the code keeps the queue's lock from one turn to the next: more orders  *)
(* than the code allows, never fewer.                                      *)

Submit(c) ==
    /\ c \in Writers
    /\ pc[c] = "start"
    /\ ticket' = [ticket EXCEPT ![c] = nextTicket]
    /\ nextTicket' = nextTicket + 1
    /\ waiting' = Append(waiting, [ticket |-> nextTicket, by |-> c])
    /\ Goto(c, "queue")
    /\ UNCHANGED <<replica, book, answers, busy, changes, unsignalled, batch, landed, seen,
                   results, agreed, steps>>

MyAnswers(c) == {a \in answers : a.ticket = ticket[c]}

(* Somebody has proposed it: on to waiting for it, or the error.           *)
TakeAnswer(c) ==
    /\ pc[c] = "queue"
    /\ \E a \in MyAnswers(c) :
          /\ answers' = answers \ {a}
          /\ IF a.answer = None
             THEN Answer(c, "REFUSED") /\ UNCHANGED landed
             ELSE /\ landed' = [landed EXCEPT ![c] = a.answer]
                  /\ Goto(c, "look")
                  /\ UNCHANGED reply
    /\ UNCHANGED <<replica, book, waiting, busy, nextTicket, changes, unsignalled, ticket,
                   batch, seen, read, floor, readAt, placed, agreed, steps>>

(* Nobody is proposing: this thread takes the whole queue.                 *)
TakeQueue_WhileBusy(c) ==
    /\ pc[c] = "queue"
    /\ MyAnswers(c) = {}
    /\ busy' = TRUE
    /\ batch' = [batch EXCEPT ![c] = waiting]
    /\ waiting' = <<>>
    /\ Goto(c, "propose")
    /\ UNCHANGED <<replica, book, answers, nextTicket, changes, unsignalled, ticket, landed,
                   seen, results, agreed, steps>>
TakeQueue(c) ==
    /\ pc[c] = "queue"
    /\ MyAnswers(c) = {}
    /\ ~busy
    /\ busy' = TRUE
    /\ batch' = [batch EXCEPT ![c] = waiting]
    /\ waiting' = <<>>
    /\ Goto(c, "propose")
    /\ UNCHANGED <<replica, book, answers, nextTicket, changes, unsignalled, ticket, landed,
                   seen, results, agreed, steps>>

Sleep(c) ==
    /\ pc[c] = "queue"
    /\ MyAnswers(c) = {}
    /\ busy
    /\ Goto(c, "asleep")
    /\ UNCHANGED <<replica, book, queue, changes, unsignalled, locals, results, agreed, steps>>

(* Node::propose_batch, under the replica's lock: a command too large is   *)
(* refused and takes no index, and all of them are if this node does not   *)
(* lead.                                                                   *)
Accepted(b) ==
    LET at == InOrder({i \in DOMAIN b : b[i].by \notin Large})
    IN  [k \in DOMAIN at |-> b[at[k]]]

Index_CountsTheRefused(b, i) == Len(log) + i
Index(b, i) == Len(log) + Cardinality({j \in 1..i : b[j].by \notin Large})

Verdict(b, i) ==
    IF leading /\ b[i].by \notin Large
    THEN [index |-> Index(b, i), term |-> term]
    ELSE None

Propose(c) ==
    /\ pc[c] = "propose"
    /\ LET b == batch[c] IN
          /\ batch' = [batch EXCEPT ![c] = [i \in DOMAIN b |->
                          [ticket |-> b[i].ticket, answer |-> Verdict(b, i)]]]
          /\ IF leading
             THEN /\ log' = log \o [i \in DOMAIN Accepted(b) |->
                                        Entry(term, Accepted(b)[i].by, {})]
                  /\ placed' = [d \in Clients |-> placed[d] \cup
                        {[index |-> i, term |-> term] :
                            i \in {i \in (Len(log) + 1)..Len(log') : log'[i].by = d}}]
             ELSE UNCHANGED <<log, placed>>
    /\ Goto(c, "publish")
    /\ UNCHANGED <<term, leading, commit, leaderStart, book, queue, changes, unsignalled,
                   ticket, landed, seen, read, reply, floor, readAt, agreed, steps>>

Woken(p) == [d \in Clients |-> IF p[d] = "asleep" THEN "queue" ELSE p[d]]

Publish_WakesNobody(c) ==
    /\ pc[c] = "publish"
    /\ busy' = FALSE
    /\ answers' = answers \cup ToSet(batch[c])
    /\ batch' = [batch EXCEPT ![c] = <<>>]
    /\ Goto(c, "queue")
    /\ UNCHANGED <<replica, book, waiting, nextTicket, changes, unsignalled, ticket, landed,
                   seen, results, agreed, steps>>
Publish(c) ==
    /\ pc[c] = "publish"
    /\ busy' = FALSE
    /\ answers' = answers \cup ToSet(batch[c])
    /\ batch' = [batch EXCEPT ![c] = <<>>]
    /\ pc' = Woken([pc EXCEPT ![c] = "queue"])
    /\ UNCHANGED <<replica, book, waiting, nextTicket, changes, unsignalled, ticket, landed,
                   seen, results, agreed, steps>>

-----------------------------------------------------------------------------
(* change_membership, up to its wait: an edit of the members as they are   *)
(* now, which Node::propose_membership takes only from a leader that has   *)
(* committed in its term and has no change under way.                      *)
Edits == {m \in SUBSET Nodes \ {{}, Members(log)} :
              Cardinality((m \ Members(log)) \cup (Members(log) \ m)) = 1}

ProposeMembership(c) ==
    /\ c \in Changers
    /\ pc[c] = "start"
    /\ IF leading /\ commit >= leaderStart /\ MembershipIndex(log) <= commit
       THEN /\ \E m \in Edits :
                  /\ log' = Append(log, Entry(term, c, m))
                  /\ book' = Follow(book, log')
            /\ landed' = [landed EXCEPT ![c] = [index |-> Len(log'), term |-> term]]
            /\ placed' = [placed EXCEPT ![c] = {landed'[c]}]
            /\ Goto(c, "look")
            /\ UNCHANGED reply
       ELSE /\ Answer(c, "REFUSED")
            /\ UNCHANGED <<log, book, landed, placed>>
    /\ UNCHANGED <<term, leading, commit, leaderStart, queue, changes, unsignalled, ticket,
                   batch, seen, read, floor, readAt, agreed, steps>>

(* read, up to its wait: Node::read_index.                                 *)
AskRead(c) ==
    /\ c \in Readers
    /\ pc[c] = "start"
    /\ floor' = [floor EXCEPT ![c] = agreed]
    /\ Goto(c, "look")
    /\ UNCHANGED <<replica, book, queue, changes, unsignalled, locals, read, reply, readAt,
                   placed, agreed, steps>>

-----------------------------------------------------------------------------
(* wait_for: the change count, then the check, then perhaps a sleep.       *)

Look(c) ==
    /\ pc[c] = "look"
    /\ seen' = [seen EXCEPT ![c] = changes]
    /\ Goto(c, "check")
    /\ UNCHANGED <<replica, book, queue, changes, unsignalled, ticket, batch, landed, results,
                   agreed, steps>>

(* The checks that write, change_membership and read pass to it.  A write  *)
(* looks at the applied index before it looks at the term.                 *)
WriteVerdict(c) ==
    IF commit >= landed[c].index THEN "OK"
    ELSE IF term # landed[c].term \/ ~leading THEN "NOTLEADER"
    ELSE None

ChangeVerdict(c) ==
    IF commit >= landed[c].index THEN "OK"
    ELSE IF term # landed[c].term THEN "NOTLEADER"
    ELSE None

ReadVerdict_Unapplied(c) ==
    IF read[c] = None THEN None ELSE IF read[c] = Failed THEN "MOVED" ELSE "VALUE"
ReadVerdict(c) ==
    IF read[c] = None THEN None
    ELSE IF read[c] = Failed THEN "MOVED"
    ELSE IF commit >= read[c] THEN "VALUE"
    ELSE None

Verdicts(c) == IF c \in Writers THEN WriteVerdict(c)
               ELSE IF c \in Changers THEN ChangeVerdict(c) ELSE ReadVerdict(c)

Check(c) ==
    /\ pc[c] = "check"
    /\ IF Verdicts(c) = None
       THEN Goto(c, "compare") /\ UNCHANGED <<reply, readAt>>
       ELSE /\ Answer(c, Verdicts(c))
            /\ readAt' = IF c \in Readers THEN [readAt EXCEPT ![c] = commit] ELSE readAt
    /\ UNCHANGED <<replica, book, queue, changes, unsignalled, locals, read, floor,
                   placed, agreed, steps>>

(* Under the lock of the count: look again if it has moved.                *)
Compare_NotAgain(c) ==
    /\ pc[c] = "compare"
    /\ Goto(c, "waiting")
    /\ UNCHANGED <<replica, book, queue, changes, unsignalled, locals, results, agreed, steps>>
Compare(c) ==
    /\ pc[c] = "compare"
    /\ Goto(c, IF changes = seen[c] THEN "waiting" ELSE "look")
    /\ UNCHANGED <<replica, book, queue, changes, unsignalled, locals, results, agreed, steps>>

(* The deadline, which is only looked at when about to sleep again.        *)
Timeout(c) ==
    /\ pc[c] = "waiting"
    /\ Answer(c, "TIMEOUT")
    /\ UNCHANGED <<replica, book, queue, changes, unsignalled, locals, read, floor, readAt,
                   placed, agreed, steps>>

-----------------------------------------------------------------------------
(* Shared::step and the ticker: the replica under its lock, with the       *)
(* address book after it; Changed comes later, without the lock.           *)

PeerStep ==
    /\ steps > 0
    /\ steps' = steps - 1
    /\ unsignalled' = unsignalled + 1
    /\ book' = Follow(book, log')
    /\ UNCHANGED <<queue, changes, pc, locals, reply, floor, readAt, placed>>

(* A majority has more of this leader's log.                               *)
Advance(n) ==
    /\ leading
    /\ n \in (commit + 1)..Len(log)
    /\ commit' = n
    /\ agreed' = Max({agreed, n})
    /\ UNCHANGED <<term, leading, log, leaderStart, read>>
    /\ PeerStep

(* A leader of a later term, in one message: its log replaces what was not *)
(* committed here, starting with the entry it began its term with, and its *)
(* commit index comes with it.                                             *)
Follows(keep, ms, n) ==
    /\ term < MaxTerm
    /\ term' = term + 1
    /\ leading' = FALSE
    /\ LET tail == IF ms = {} THEN <<Entry(term', None, {})>>
                   ELSE <<Entry(term', None, {}), Entry(term', None, ms)>>
       IN  log' = SubSeq(log, 1, keep) \o tail
    /\ Len(log') <= MaxLog
    /\ n <= Len(log')
    /\ commit' = n
    /\ agreed' = Max({agreed, Len(log')})
    /\ UNCHANGED <<leaderStart, read>>
    /\ PeerStep

(* The ticker: no majority heard from.                                     *)
StepDown ==
    /\ leading
    /\ leading' = FALSE
    /\ UNCHANGED <<term, log, commit, leaderStart, agreed, read>>
    /\ PeerStep

Elected ==
    /\ ~leading
    /\ term < MaxTerm
    /\ Len(log) < MaxLog
    /\ term' = term + 1
    /\ leading' = TRUE
    /\ log' = Append(log, Entry(term', None, {}))
    /\ leaderStart' = Len(log')
    /\ UNCHANGED <<commit, agreed, read>>
    /\ PeerStep

(* The node's answer to a read index: an index no lower than what was      *)
(* committed when it was asked, or no leader.                              *)
ReadAnswered(c, state) ==
    /\ pc[c] \notin {"start", "done"}
    /\ read[c] = None
    /\ read' = [read EXCEPT ![c] = state]
    /\ UNCHANGED <<replica, agreed>>
    /\ PeerStep

(* changed: the count, and everyone who sleeps on it.                      *)
Changed ==
    /\ unsignalled > 0
    /\ unsignalled' = unsignalled - 1
    /\ changes' = changes + 1
    /\ pc' = [c \in Clients |-> IF pc[c] = "waiting" THEN "compare" ELSE pc[c]]
    /\ UNCHANGED <<replica, book, queue, locals, results, agreed, steps>>

-----------------------------------------------------------------------------
Thread(c) == \/ Submit(c) \/ TakeAnswer(c) \/ TakeQueue(c) \/ Sleep(c) \/ Propose(c)
             \/ Publish(c) \/ ProposeMembership(c) \/ AskRead(c)
             \/ Look(c) \/ Check(c) \/ Compare(c)

Peers ==
    \/ \E n \in 1..MaxLog : Advance(n)
    \/ \E keep \in commit..Len(log), n \in commit..MaxLog,
          ms \in {{}} \cup {m \in SUBSET Nodes : Me \in m} : Follows(keep, ms, n)
    \/ StepDown
    \/ Elected
    \/ \E c \in Readers : \/ ReadAnswered(c, Failed)
                         \/ \E i \in floor[c]..agreed : ReadAnswered(c, i)

Done == /\ \A c \in Clients : pc[c] = "done"
        /\ UNCHANGED vars

Next == \/ \E c \in Clients : Thread(c) \/ Timeout(c)
        \/ Peers
        \/ Changed
        \/ Done

(* Every thread that can run runs, and a thread that has stepped the       *)
(* replica goes on to say so.  No timeout is relied on.                    *)
Fairness == /\ \A c \in Clients : WF_vars(Thread(c))
            /\ WF_vars(Changed)

Spec == Init /\ [][Next]_vars /\ Fairness

-----------------------------------------------------------------------------
(* The type of every variable.                                             *)
TypeOK ==
    /\ term \in 1..MaxTerm /\ leading \in BOOLEAN
    /\ log \in Seq([term : 1..MaxTerm, by : Clients \cup {None}, members : SUBSET Nodes])
    /\ commit \in 0..Len(log) /\ leaderStart \in Nat \ {0} /\ agreed \in Nat
    /\ book \in [senders : SUBSET (Nodes \ {Me}), seen : Nat]
    /\ waiting \in Seq([ticket : Nat, by : Writers])
    /\ answers \in SUBSET [ticket : Nat, answer : Place \cup {None}]
    /\ busy \in BOOLEAN /\ nextTicket \in 0..Cardinality(Writers)
    /\ changes \in Nat /\ unsignalled \in Nat /\ steps \in Nat
    /\ pc \in [Clients -> {"start", "queue", "asleep", "propose", "publish", "look", "check",
                            "compare", "waiting", "done"}]
    /\ ticket \in [Clients -> Nat \cup {None}] /\ seen \in [Clients -> Nat]
    /\ batch \in [Clients -> Seq([ticket : Nat, by : Writers]) \cup
                              Seq([ticket : Nat, answer : Place \cup {None}])]
    /\ landed \in [Clients -> Place \cup {None}]
    /\ placed \in [Clients -> SUBSET Place]
    /\ reply \in [Clients -> Replies \cup {None}]
    /\ read \in [Readers -> Nat \cup {None, Failed}]
    /\ floor \in [Readers -> Nat] /\ readAt \in [Readers -> Nat]

(* However proposals are batched, and whatever of a batch is refused, a    *)
(* client is told the place of its own command, which was put into the log *)
(* there and nowhere else; one that is refused was never put into it.      *)
AnswersReachTheirOwners ==
    \A c \in Clients :
        /\ landed[c] # None => placed[c] = {landed[c]}
        /\ reply[c] = "REFUSED" => placed[c] = {}

(* One thread proposes at a time, so batches go in whole and in order, and *)
(* busy is set exactly while it does: a flag left behind would stop every  *)
(* write from then on.                                                     *)
OneProposer ==
    Cardinality({c \in Clients : pc[c] \in {"propose", "publish"}}) = IF busy THEN 1 ELSE 0

(* A read is answered from a store that has applied every write that was   *)
(* committed anywhere before the read began.                               *)
ReadsSeeWhatWasCommitted ==
    \A c \in Readers : reply[c] = "VALUE" => readAt[c] >= floor[c]

(* Nobody stays in the queue: a thread that goes to sleep behind another's *)
(* batch is woken to find its answer or to propose itself.                 *)
EveryWriteLeavesTheQueue ==
    \A c \in Writers :
        pc[c] \in {"queue", "asleep", "propose", "publish"} ~> pc[c] \in {"look", "done"}

(* wait_for loses no wake-up: once the replica holds the answer to a       *)
(* write, a change or a read, its thread gives it, with no help from the   *)
(* deadline.                                                               *)
Decided(c) == pc[c] \in {"look", "check", "compare", "waiting"} /\ Verdicts(c) # None
DecidedIsAnswered == \A c \in Clients : Decided(c) ~> pc[c] = "done"

(* "wait for it to take effect here, which means a majority has it on      *)
(* disk": a write that is answered OK is in the log where it was put, and  *)
(* committed.                                                              *)
OkMeansCommitted ==
    \A c \in Writers : reply[c] = "OK" =>
        /\ landed[c].index <= commit
        /\ log[landed[c].index] = Entry(landed[c].term, c, {})
=============================================================================
