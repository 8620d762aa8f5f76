------------------------------ MODULE MCRaft ------------------------------
(* Small instances of Raft for TLC.                                        *)
EXTENDS Raft, TLC

CONSTANT v

Symmetry == Permutations(Server)

Quiet == [inFlight |-> 1, maxTerm |-> 1, maxSeq |-> 0, voters |-> Server, ticks |-> 0,
          campaigns |-> 0, proposals |-> 0, restarts |-> 0, compactions |-> 0, reads |-> 0,
          changes |-> {}]

NoopOf(t) == DataEntry(t, Noop)
Disk(t, vote, lg) == [term |-> t, votedFor |-> vote, log |-> lg, snap |-> NoSnapshot]
Won(t, n, vs) == [term |-> t, leader |-> n, voters |-> vs]
AllAt(lg, t) == {[at |-> i, entry |-> lg[i], by |-> t] : i \in DOMAIN lg}

(* Node s, leading by the votes vs since the index start, every p at       *)
(* match[p].                                                               *)
Leading(s, vs, start, commit, match) ==
    [s EXCEPT !.role = "Leader", !.leader = s.id, !.votes = vs, !.start = start,
              !.commit = commit, !.applied = commit, !.match = match,
              !.next = [p \in Server |-> IF p \in Replicas(s) THEN match[p] + 1 ELSE 0]]

(***************************************************************************)
(* Three servers after two elections whose leaders, a in term 1 and b in   *)
(* term 2, got no further than their own no-op, both with c's vote; a has  *)
(* learnt of term 2 since, and everyone has restarted.  It takes four terms*)
(* to reach the case in which counting replicas of an old term's entry     *)
(* would lose it; the run starts from the second.                          *)
(***************************************************************************)
InitDivided(sc) ==
    \E a, b, c \in Server :
        /\ Cardinality({a, b, c}) = 3
        /\ left = [sc EXCEPT !.voters = {a, b, c}]
        /\ node = [n \in Server |->
               Started(n, Boot(n, left),
                       CASE n = a -> Disk(2, Nil, <<NoopOf(1)>>)
                         [] n = b -> Disk(2, b, <<NoopOf(2)>>)
                         [] OTHER -> Disk(2, b, <<>>))]
        /\ elected = {Won(1, a, {a, c}), Won(2, b, {b, c})}
        /\ msgs = {} /\ committed = {}

(***************************************************************************)
(* Three servers.  c led in term 1 and reached nobody with what it put     *)
(* into its log; a leads in term 2 and has committed a value that b holds, *)
(* and b knows that the first known of its entries are committed.  c has   *)
(* not heard of a.                                                         *)
(***************************************************************************)
InitLed(sc, known) ==
    \E a, b, c \in Server :
        LET lg(t) == <<NoopOf(t), DataEntry(t, v)>> IN
        /\ Cardinality({a, b, c}) = 3
        /\ left = [sc EXCEPT !.voters = {a, b, c}]
        /\ node = [n \in Server |->
               CASE n = a -> Leading(Started(n, Boot(n, left), Disk(2, a, lg(2))), {a, b}, 1, 2,
                                     [p \in Server |-> IF p = b THEN 2 ELSE 0])
                 [] n = b -> [Started(n, Boot(n, left), Disk(2, a, lg(2))) EXCEPT
                                 !.leader = a, !.commit = known, !.applied = known]
                 [] n = c -> Started(n, Boot(n, left), Disk(1, c, lg(1)))
                 [] OTHER -> Started(n, Boot(n, left), EmptyStorage)]
        /\ elected = {Won(1, c, {b, c}), Won(2, a, {a, b})}
        /\ msgs = {} /\ committed = AllAt(lg(2), 2)

(***************************************************************************)
(* Four servers.  a led in term 1 and removed d, which nobody else heard   *)
(* of; b leads in term 2 with the votes of c and d, and is to remove a.    *)
(***************************************************************************)
Ms(vs, ls) == [voters |-> vs, learners |-> ls]
InitChanging(sc) ==
    \E a, b, c, d \in Server :
        LET one == <<NoopOf(1)>>
            two == <<NoopOf(1), NoopOf(2)>> IN
        /\ Cardinality({a, b, c, d}) = 4
        /\ left = [sc EXCEPT !.voters = {a, b, c, d}, !.changes = {Ms({b, c, d}, {})}]
        /\ node = [n \in Server |->
               CASE n = a -> Started(n, Boot(n, left),
                                     Disk(2, Nil, Append(one, ConfigEntry(1, Ms({a, b, c}, {})))))
                 [] n = b -> Leading(Started(n, Boot(n, left), Disk(2, b, two)), {b, c, d}, 2, 1,
                                     [p \in Server |-> CASE p = d -> 2 [] p = b -> 0 [] OTHER -> 1])
                 [] n = c -> Started(n, Boot(n, left), Disk(2, b, one))
                 [] n = d -> [Started(n, Boot(n, left), Disk(2, b, two)) EXCEPT !.leader = b]]
        /\ elected = {Won(1, a, {a, b, c}), Won(2, b, {b, c, d})}
        /\ msgs = {} /\ committed = AllAt(one, 1)

(***************************************************************************)
(* What happens from each: Core is elections and replication, with three   *)
(* servers; Whole has four and is snapshots, reads and changes of the      *)
(* membership.                                                             *)
(***************************************************************************)
FreshClusters ==
    {[Quiet EXCEPT !.inFlight = 2, !.maxTerm = 2, !.campaigns = 2],
     [Quiet EXCEPT !.inFlight = 2, !.maxTerm = 1, !.ticks = 2]}
    \cup {[Quiet EXCEPT !.voters = vs, !.maxTerm = 1, !.campaigns = 2] :
              vs \in {vs \in SUBSET Server : Cardinality(vs) = 2}}

InitCore ==
    \/ Init
    \/ InitLed([Quiet EXCEPT !.inFlight = 2, !.maxTerm = 3, !.campaigns = 1, !.proposals = 1], 1)
    \/ InitLed([Quiet EXCEPT !.inFlight = 2, !.maxTerm = 3, !.campaigns = 1, !.ticks = 1], 1)
    \/ InitDivided([Quiet EXCEPT !.maxTerm = 4, !.campaigns = 3, !.restarts = 1])
    \/ InitDivided([Quiet EXCEPT !.maxTerm = 4, !.campaigns = 3, !.ticks = 1])
SpecCore == InitCore /\ [][Next]_vars

(* A cluster of one, that adds another and then leaves it in its place.    *)
GrowingClusters ==
    UNION {{[Quiet EXCEPT !.voters = {a}, !.changes = {Ms({a}, {b}), Ms({b}, {})},
                          !.maxTerm = 2, !.campaigns = 2, !.ticks = 3],
            [Quiet EXCEPT !.voters = {a}, !.changes = {Ms({a}, {b}), Ms({b}, {})},
                          !.campaigns = 1, !.ticks = 3, !.compactions = 1]} :
           a \in Server, b \in Server}

InitWhole ==
    \/ Init
    \/ InitLed([Quiet EXCEPT !.maxTerm = 3, !.campaigns = 1, !.ticks = 2, !.compactions = 2], 2)
    \/ InitLed([Quiet EXCEPT !.maxTerm = 3, !.campaigns = 1, !.reads = 2, !.maxSeq = 2], 1)
    \/ InitChanging([Quiet EXCEPT !.maxTerm = 3, !.campaigns = 1, !.ticks = 2])
SpecWhole == InitWhole /\ [][Next]_vars

(* A follower that asks, restarts and asks again.                          *)
SpecRestartedReader ==
    /\ InitLed([Quiet EXCEPT !.inFlight = 2, !.maxTerm = 2, !.proposals = 1, !.restarts = 1,
                              !.reads = 2, !.maxSeq = 1], 2)
    /\ [][Next]_vars
=============================================================================
