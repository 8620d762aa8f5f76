--------------------------- MODULE RaftLogProofs ---------------------------
(***************************************************************************)
(* What is proved of the logs of Raft for every number of nodes and every  *)
(* set of voters, for as long as nobody asks for a change of the           *)
(* membership: what is committed stays committed, everywhere the same and  *)
(* on a majority, whoever restarts, is cut short or is sent a snapshot.    *)
(***************************************************************************)
EXTENDS RaftProofs

(* A history G of a run, which nothing in the code keeps: the longest log  *)
(* the leader of each term had, how far each node ever acknowledged it,    *)
(* who led and who stood in which term and with which log, the term each   *)
(* node is in, and what leaders have counted committed at each index.      *)

Plain == EntryOf({Nobody})
Logs == Seq(Plain)
History ==
    [log : [Nat -> Logs], took : [Server -> [Nat -> Nat]], term : [Server -> Nat],
     led : [Nat -> SUBSET Server], stood : [Server -> SUBSET Nat],
     stand : [Server -> [Nat -> Logs]], done : [Nat -> SUBSET Plain]]

Has(q, T, N) == N \in 1 .. Len(q) /\ q[N].term = T
Agree(q, p, i) == i <= Len(q) /\ i <= Len(p) /\ \A j \in 1 .. i : q[j] = p[j]

(* Up to any of its entries, a log is that of the leader that made it.     *)
Sound(q, G) == \A i \in 1 .. Len(q) : Agree(q, G.log[q[i].term], i)

Led(G, t) == G.led[t] # {}

(* A majority acknowledged the entry at N in its own term T; a majority    *)
(* has left T and never will; the leader of T found another's entry there. *)
Chosen(G, T, N, V) ==
    /\ Has(G.log[T], T, N)
    /\ \E Q \in SUBSET Server : Majority(V, Q) /\ \A v \in Q : G.took[v][T] >= N
Never(G, T, N, V) ==
    \E Q \in SUBSET Server :
        Majority(V, Q) /\ \A v \in Q : G.term[v] > T /\ G.took[v][T] < N
Old(G, T, N) == N <= Len(G.log[T]) /\ G.log[T][N].term # T

(* What was or can still be chosen in a term, the later leaders have.      *)
Safe(G, V) ==
    \A t, T, N \in Nat :
        Led(G, t) /\ T < t /\ N > 0
        => Old(G, T, N) \/ Has(G.log[t], T, N) \/ Never(G, T, N, V)

Sorted(q) == \A i, j \in 1 .. Len(q) : i <= j => q[i].term <= q[j].term
UpTo(q, t) == \A i \in 1 .. Len(q) : q[i].term <= t

Recorded(G) ==
    \A t \in Nat :
        /\ Sound(G.log[t], G) /\ UpTo(G.log[t], t) /\ Sorted(G.log[t])
        /\ ~Led(G, t) => G.log[t] = <<>>
        /\ \A v \in Server : G.took[v][t] <= Len(G.log[t])
        /\ \A x, y \in G.led[t] : x = y
HistoryOK(G, V) == G \in History /\ Recorded(G) /\ Safe(G, V)

LEMMA HistoryTypes ==
    ASSUME NEW G \in History
    PROVE  /\ \A t \in Nat : G.log[t] \in Logs /\ Len(G.log[t]) \in Nat
           /\ \A v \in Server, t \in Nat : G.took[v][t] \in Nat
           /\ \A v \in Server : G.term[v] \in Nat /\ G.stood[v] \in SUBSET Nat
           /\ \A t \in Nat : G.led[t] \in SUBSET Server /\ G.done[t] \in SUBSET Plain
           /\ \A v \in Server, t \in Nat : G.stand[v][t] \in Logs
  <1>1. \A t \in Nat : G.log[t] \in Logs
    BY DEF History
  <1>2. \A t \in Nat : Len(G.log[t]) \in Nat
    BY <1>1 DEF Logs
  <1>3. \A v \in Server : G.took[v] \in [Nat -> Nat] /\ G.stand[v] \in [Nat -> Logs]
    BY DEF History
  <1>4. QED
    BY <1>1, <1>2, <1>3 DEF History

LEMMA LogTypes ==
    ASSUME NEW q \in Logs
    PROVE  /\ Len(q) \in Nat
           /\ \A i \in 1 .. Len(q) : q[i] \in Plain /\ q[i].term \in Nat /\ q[i].term > 0
  <1>1. Len(q) \in Nat /\ \A i \in 1 .. Len(q) : q[i] \in Plain
    BY DEF Logs
  <1>2. \A e \in Plain : e.term \in Nat /\ e.term > 0
    BY DEF Plain, EntryOf
  <1>3. QED
    BY <1>1, <1>2

(* Two such logs that hold one entry of a term at one index agree up to it.*)
LEMMA SoundLogsMeet ==
    ASSUME NEW G \in History, NEW q \in Logs, NEW p \in Logs, Sound(q, G), Sound(p, G),
           NEW T, NEW N, Has(q, T, N), Has(p, T, N)
    PROVE  Agree(q, p, N)
  <1>1. N \in Nat /\ Len(q) \in Nat /\ Len(p) \in Nat
    BY LogTypes DEF Has
  <1>2. Agree(q, G.log[T], N) /\ Agree(p, G.log[T], N)
    BY DEF Has, Sound
  <1>3. QED
    BY <1>1, <1>2 DEF Agree, Has

LEMMA AgreeingLogsHave ==
    ASSUME NEW q \in Logs, NEW p \in Logs, NEW i \in Nat, Agree(q, p, i),
           NEW T, NEW N, N <= i, Has(q, T, N)
    PROVE  Has(p, T, N)
  BY LogTypes DEF Agree, Has

LEMMA SoundLogsAreSorted ==
    ASSUME NEW G \in History, Recorded(G), NEW q \in Logs, Sound(q, G)
    PROVE  Sorted(q) /\ \A i \in 1 .. Len(q) : Led(G, q[i].term)
  <1>1. Len(q) \in Nat /\ \A i \in 1 .. Len(q) : q[i].term \in Nat
    BY LogTypes
  <1>2. ASSUME NEW j \in 1 .. Len(q)
        PROVE  /\ Led(G, q[j].term) 
               /\ \A i \in 1 .. j : q[i].term <= q[j].term
    <2> DEFINE p == G.log[q[j].term]
    <2>1. p \in Logs /\ Len(p) \in Nat
      BY <1>1, HistoryTypes
    <2>2. Agree(q, p, j) /\ Sorted(p)
      BY <1>1 DEF Sound, Recorded
    <2>3. p # <<>>
      BY <2>1, <2>2 DEF Agree
    <2>4. Led(G, q[j].term)
      BY <2>3, <1>1 DEF Recorded
    <2> HIDE DEF p
    <2>5. \A i \in 1 .. j : q[i].term <= q[j].term
      BY <2>1, <2>2 DEF Agree, Sorted
    <2>6. QED
      BY <2>4, <2>5
  <1>3. QED
    BY <1>1, <1>2 DEF Sorted

(* Whoever leads later has what was chosen before.                         *)
LEMMA ChosenIsKept ==
    ASSUME NEW V \in SUBSET Server, NEW G, HistoryOK(G, V), NEW t \in Nat, Led(G, t),
           NEW T \in Nat, T <= t, NEW N, Chosen(G, T, N, V)
    PROVE  Has(G.log[t], T, N)
  <1>1. G \in History /\ G.log[T] \in Logs /\ Len(G.log[T]) \in Nat
    BY HistoryTypes DEF HistoryOK
  <1>2. N \in Nat /\ N > 0 /\ ~Old(G, T, N)
    BY <1>1 DEF Chosen, Has, Old
  <1>3. ~Never(G, T, N, V)
    <2> SUFFICES ASSUME Never(G, T, N, V) PROVE FALSE
      OBVIOUS
    <2>1. PICK P \in SUBSET Server : Majority(V, P) /\ \A v \in P : G.took[v][T] < N
      BY DEF Never
    <2>2. PICK Q \in SUBSET Server : Majority(V, Q) /\ \A v \in Q : G.took[v][T] >= N
      BY DEF Chosen
    <2>3. PICK v \in Server : v \in P /\ v \in Q
      BY <2>1, <2>2, MajoritiesMeet
    <2>4. G.took[v][T] \in Nat
      BY <1>1, HistoryTypes
    <2>5. QED
      BY <2>1, <2>2, <2>3, <2>4, <1>2
  <1>4. CASE T = t
    BY <1>4 DEF Chosen
  <1>5. CASE T < t
    BY <1>2, <1>3, <1>5 DEF HistoryOK, Safe
  <1>6. QED
    BY <1>4, <1>5

(* What a node, in term t, may count committed of its log q: up to i.      *)
Settled(q, i, t, G, V) ==
    /\ i <= Len(q)
    /\ \A j \in 1 .. i : q[j] \in G.done[j]
    /\ i > 0 => \E T, N \in Nat : /\ T <= t /\ N >= i
                                  /\ Chosen(G, T, N, V) /\ Agree(q, G.log[T], i)

(* It is in the log of the term's leader.                                  *)
LEMMA SettledIsLed ==
    ASSUME NEW V \in SUBSET Server, NEW G, HistoryOK(G, V), NEW t \in Nat, Led(G, t),
           NEW q \in Logs, NEW i \in Nat, Settled(q, i, t, G, V)
    PROVE  Agree(q, G.log[t], i)
  <1>1. /\ G \in History /\ G.log[t] \in Logs /\ Len(G.log[t]) \in Nat /\ Len(q) \in Nat
        /\ Sound(G.log[t], G)
    BY HistoryTypes, LogTypes DEF HistoryOK, Recorded
  <1>2. CASE i = 0
    BY <1>1, <1>2 DEF Agree
  <1>3. CASE i > 0
    <2>1. PICK T \in Nat, N \in Nat :
              T <= t /\ N >= i /\ Chosen(G, T, N, V) /\ Agree(q, G.log[T], i)
      BY <1>3 DEF Settled
    <2>2. Has(G.log[t], T, N) /\ Has(G.log[T], T, N)
      BY <2>1, ChosenIsKept DEF Chosen
    <2>3. G.log[T] \in Logs /\ Len(G.log[T]) \in Nat /\ Sound(G.log[T], G)
      BY <2>1, <1>1, HistoryTypes DEF HistoryOK, Recorded
    <2>4. Agree(G.log[t], G.log[T], N)
      BY <2>2, <2>3, <1>1, SoundLogsMeet
    <2>5. QED
      BY <2>1, <2>3, <2>4, <1>1 DEF Agree
  <1>4. QED
    BY <1>2, <1>3

LEMMA SettledOnAgreement ==
    ASSUME NEW V, NEW G \in History, NEW t \in Nat, NEW q \in Logs, NEW p \in Logs,
           NEW i \in Nat, Settled(q, i, t, G, V), NEW j \in Nat, j <= i, Agree(q, p, j)
    PROVE  Settled(p, j, t, G, V)
  <1>1. Len(q) \in Nat /\ Len(p) \in Nat
    BY LogTypes
  <1>2. j <= Len(p) /\ \A k \in 1 .. j : p[k] \in G.done[k]
    BY <1>1 DEF Settled, Agree
  <1>3. ASSUME j > 0
        PROVE  \E T, N \in Nat : T <= t /\ N >= j /\ Chosen(G, T, N, V) /\ Agree(p, G.log[T], j)
    <2>1. PICK T \in Nat, N \in Nat :
              T <= t /\ N >= i /\ Chosen(G, T, N, V) /\ Agree(q, G.log[T], i)
      BY <1>3 DEF Settled
    <2>2. Len(G.log[T]) \in Nat
      BY <2>1, HistoryTypes
    <2>3. Agree(p, G.log[T], j) /\ N >= j
      BY <2>1, <2>2, <1>1 DEF Agree
    <2>4. QED
      BY <2>1, <2>3
  <1>4. QED
    BY <1>2, <1>3 DEF Settled

(* What a later leader overruled, and what a voter makes sure of: that the *)
(* candidate's log q is no worse than what it acknowledged.                *)
LastT(q) == IF q = <<>> THEN 0 ELSE q[Len(q)].term
AtLeast(q, T, N) == LastT(q) > T \/ (LastT(q) = T /\ Len(q) >= N)
Overruled(G, t, T, N) ==
    \E U \in Nat : T < U /\ U <= t /\ Led(G, U) /\ ~Has(G.log[U], T, N)
Endorses(v, t, q, G) ==
    /\ G.term[v] >= t
    /\ \A T, N \in Nat :
          T < t /\ N <= G.took[v][T] /\ Has(G.log[T], T, N)
          => Overruled(G, t, T, N) \/ AtLeast(q, T, N)

(* What a node acknowledged it has, unless a later leader overruled it.    *)
Persists(s, G) ==
    \A T, N \in Nat :
        T <= s.term /\ N <= G.took[s.id][T] /\ Has(G.log[T], T, N)
        => Has(s.log, T, N) \/ Overruled(G, s.term, T, N)

(* The snapshot a node is writing is of what it has applied.               *)
Built(s) ==
    /\ s.building.index <= s.applied
    /\ s.building.index > 0 => s.building.term = s.log[s.building.index].term

Stands(s, G) ==
    s.role = "Candidate" =>
        /\ s.term \in G.stood[s.id] /\ G.stand[s.id][s.term] = s.log
        /\ s.id \notin G.led[s.term]
        /\ \A i \in 1 .. Len(s.log) : s.log[i].term # s.term
        /\ \A v \in s.votes : Endorses(v, s.term, s.log, G)
Leads(s, G) ==
    s.role = "Leader" =>
        /\ s.log = G.log[s.term] /\ s.id \in G.led[s.term]
        /\ G.took[s.id][s.term] = Len(s.log)
        /\ \A p \in Server : s.match[p] <= G.took[p][s.term]

(* Its log; what of it is settled; the terms it has been in.               *)
LogOf(s, G) ==
    /\ Sound(s.log, G) /\ UpTo(s.log, s.term)
    /\ Agree(s.log, G.log[s.term], G.took[s.id][s.term])
    /\ Persists(s, G)
Settles(s, G, V) ==
    /\ Settled(s.log, s.commit, s.term, G, V)
    /\ Settled(s.log, s.applied, s.term, G, V)
    /\ Settled(s.log, s.snap.index, s.term, G, V)
TermOf(s, G) ==
    /\ G.term[s.id] = s.term
    /\ \A t \in Nat : t > s.term =>
          G.took[s.id][t] = 0 /\ s.id \notin G.led[t] /\ t \notin G.stood[s.id]

NodeOK(s, G, V) ==
    LogOf(s, G) /\ Settles(s, G, V) /\ TermOf(s, G) /\ Built(s) /\ Stands(s, G) /\ Leads(s, G)

AppendOK(m, G, V) ==
    /\ m.from \in G.led[m.term]
    /\ \A k \in 1 .. Len(m.entries) :
          m.prev + k <= Len(G.log[m.term]) /\ m.entries[k] = G.log[m.term][m.prev + k]
    /\ m.prev = 0 \/ m.prevTerm = 0 \/ Has(G.log[m.term], m.prevTerm, m.prev)
    /\ Settled(G.log[m.term], m.commit, m.term, G, V)
InstallOK(m, G, V) ==
    /\ m.from \in G.led[m.term]
    /\ Agree(m.state, G.log[m.term], m.index) /\ Has(G.log[m.term], m.lastTerm, m.index)
    /\ Settled(G.log[m.term], m.index, m.term, G, V)
RequestOK(m, G) ==
    /\ m.term \in G.stood[m.from]
    /\ m.lastTerm = LastT(G.stand[m.from][m.term])
    /\ m.lastIndex = Len(G.stand[m.from][m.term])
VoteOK(m, G) ==
    m.term \in G.stood[m.to] /\ Endorses(m.from, m.term, G.stand[m.to][m.term], G)

MessageOK(m, G, V) ==
    /\ m.type = "AppendEntries" => AppendOK(m, G, V)
    /\ m.type = "AppendReply" /\ m.success => m.match <= G.took[m.from][m.term]
    /\ m.type = "InstallSnapshot" => InstallOK(m, G, V)
    /\ m.type = "SnapshotReply" /\ m.done => m.index <= G.took[m.from][m.term]
    /\ m.type = "RequestVote" => RequestOK(m, G)
    /\ m.type = "RequestVoteReply" /\ m.granted => VoteOK(m, G)

-----------------------------------------------------------------------------
(* What a step of node n adds to a history.                                *)

LogsGrow(G, H, n) ==
    \A t \in Nat :
        /\ Agree(G.log[t], H.log[t], Len(G.log[t]))
        /\ Led(G, t) => \A i \in 1 .. Len(H.log[t]) : i > Len(G.log[t]) => H.log[t][i].term = t
        /\ H.log[t] = G.log[t] \/ n \in H.led[t]
Extends(G, H, n) ==
    /\ G \in History /\ H \in History /\ LogsGrow(G, H, n)
    /\ \A t \in Nat :
          /\ G.led[t] \subseteq H.led[t] /\ H.led[t] \subseteq G.led[t] \cup {n}
          /\ G.done[t] \subseteq H.done[t]
    /\ \A v \in Server :
          /\ G.stood[v] \subseteq H.stood[v] /\ G.term[v] <= H.term[v]
          /\ \A t \in G.stood[v] : H.stand[v][t] = G.stand[v][t]
          /\ v # n => /\ H.term[v] = G.term[v] /\ H.stood[v] = G.stood[v]
                      /\ H.took[v] = G.took[v]
          /\ \A t \in Nat :
                /\ G.took[v][t] <= H.took[v][t]
                /\ t < G.term[v] => H.took[v][t] = G.took[v][t]

LEMMA NothingIsAdded ==
    ASSUME NEW G \in History, NEW n
    PROVE  Extends(G, G, n)
  <1>1. LogsGrow(G, G, n)
    BY HistoryTypes DEF LogsGrow, Agree
  <1>2. QED
    BY <1>1, HistoryTypes DEF Extends

LEMMA AdditionsCompose ==
    ASSUME NEW G, NEW H, NEW K, NEW n, Extends(G, H, n), Extends(H, K, n)
    PROVE  Extends(G, K, n)
  <1>1. G \in History /\ H \in History /\ K \in History
    BY DEF Extends
  <1>2. \A t \in Nat : G.led[t] \subseteq H.led[t] /\ H.led[t] \subseteq K.led[t]
    BY DEF Extends
  <1>3. LogsGrow(G, K, n)
    <2> SUFFICES ASSUME NEW t \in Nat
                 PROVE  /\ Agree(G.log[t], K.log[t], Len(G.log[t]))
                        /\ Led(G, t) => \A i \in 1 .. Len(K.log[t]) :
                                            i > Len(G.log[t]) => K.log[t][i].term = t
                        /\ K.log[t] = G.log[t] \/ n \in K.led[t]
      BY DEF LogsGrow
    <2> DEFINE g == G.log[t]
               h == H.log[t]
               k == K.log[t]
    <2>1. Len(g) \in Nat /\ Len(h) \in Nat /\ Len(k) \in Nat
      BY <1>1, HistoryTypes
    <2>2. Agree(g, h, Len(g)) /\ Agree(h, k, Len(h))
      BY DEF Extends, LogsGrow
    <2>3. Led(G, t) => /\ \A i \in 1 .. Len(h) : i > Len(g) => h[i].term = t
                       /\ \A i \in 1 .. Len(k) : i > Len(h) => k[i].term = t
      BY <1>2 DEF Extends, LogsGrow, Led
    <2>4. k = g \/ n \in K.led[t]
      BY <1>2 DEF Extends, LogsGrow
    <2> HIDE DEF g, h, k
    <2>5. Agree(g, k, Len(g))
      BY <2>1, <2>2 DEF Agree
    <2>6. Led(G, t) => \A i \in 1 .. Len(k) : i > Len(g) => k[i].term = t
      BY <2>1, <2>2, <2>3 DEF Agree
    <2>7. QED
      BY <2>4, <2>5, <2>6 DEF g, h, k
  <1>4. \A v \in Server :
          /\ G.stood[v] \subseteq K.stood[v] /\ G.term[v] <= K.term[v]
          /\ \A t \in G.stood[v] : K.stand[v][t] = G.stand[v][t]
          /\ v # n => /\ K.term[v] = G.term[v] /\ K.stood[v] = G.stood[v]
                      /\ K.took[v] = G.took[v]
    <2> SUFFICES ASSUME NEW v \in Server
                 PROVE  /\ G.stood[v] \subseteq K.stood[v] /\ G.term[v] <= K.term[v]
                        /\ \A t \in G.stood[v] : K.stand[v][t] = G.stand[v][t]
                        /\ v # n => /\ K.term[v] = G.term[v] /\ K.stood[v] = G.stood[v]
                                    /\ K.took[v] = G.took[v]
      OBVIOUS
    <2>1. G.term[v] \in Nat /\ H.term[v] \in Nat /\ K.term[v] \in Nat
      BY <1>1, HistoryTypes
    <2>2. G.term[v] <= K.term[v]
      BY <2>1 DEF Extends
    <2>3. QED
      BY <2>2 DEF Extends
  <1>5. \A v \in Server, t \in Nat :
            /\ G.took[v][t] <= K.took[v][t]
            /\ t < G.term[v] => K.took[v][t] = G.took[v][t]
    <2> SUFFICES ASSUME NEW v \in Server, NEW t \in Nat
                 PROVE  /\ G.took[v][t] <= K.took[v][t]
                        /\ t < G.term[v] => K.took[v][t] = G.took[v][t]
      OBVIOUS
    <2>1. /\ G.term[v] \in Nat /\ H.term[v] \in Nat
          /\ G.took[v][t] \in Nat /\ H.took[v][t] \in Nat /\ K.took[v][t] \in Nat
      BY <1>1, HistoryTypes
    <2>2. /\ G.term[v] <= H.term[v] /\ G.took[v][t] <= H.took[v][t] /\ H.took[v][t] <= K.took[v][t]
          /\ t < G.term[v] => H.took[v][t] = G.took[v][t]
          /\ t < H.term[v] => K.took[v][t] = H.took[v][t]
      BY DEF Extends
    <2>3. QED
      BY <2>1, <2>2
  <1>6. \A t \in Nat : /\ G.led[t] \subseteq K.led[t] /\ K.led[t] \subseteq G.led[t] \cup {n}
                       /\ G.done[t] \subseteq K.done[t]
    BY DEF Extends
  <1>7. QED
    BY <1>1, <1>3, <1>4, <1>5, <1>6, Zenon DEF Extends

(* What held of the history before it holds of it after.                   *)
LEMMA HeldStaysHeld ==
    ASSUME NEW G, NEW H, NEW n, Extends(G, H, n), NEW t \in Nat
    PROVE  /\ \A T, N : Has(G.log[t], T, N) => Has(H.log[t], T, N)
           /\ \A T, N : N <= Len(G.log[t]) /\ Has(H.log[t], T, N) => Has(G.log[t], T, N)
           /\ \A T, N : Led(G, t) /\ T # t /\ Has(H.log[t], T, N) => Has(G.log[t], T, N)
           /\ Led(G, t) => Led(H, t)
  <1> DEFINE g == G.log[t]
             h == H.log[t]
  <1>1. Len(g) \in Nat /\ Len(h) \in Nat
    BY HistoryTypes DEF Extends
  <1>2. Agree(g, h, Len(g)) /\ (Led(G, t) => \A i \in 1 .. Len(h) : i > Len(g) => h[i].term = t)
    BY DEF Extends, LogsGrow
  <1>3. Led(G, t) => Led(H, t)
    BY DEF Extends, Led
  <1> HIDE DEF g, h
  <1>4. \A T, N : Has(g, T, N) => Has(h, T, N)
    BY <1>1, <1>2 DEF Has, Agree
  <1>5. \A T, N : N <= Len(g) /\ Has(h, T, N) => Has(g, T, N)
    BY <1>1, <1>2 DEF Has, Agree
  <1>6. \A T, N : Led(G, t) /\ T # t /\ Has(h, T, N) => Has(g, T, N)
    BY <1>1, <1>2 DEF Has, Agree
  <1>7. QED
    BY <1>3, <1>4, <1>5, <1>6 DEF g, h

LEMMA AgreementGrows ==
    ASSUME NEW G, NEW H, NEW n, Extends(G, H, n), NEW t \in Nat, NEW q \in Logs, NEW i \in Nat,
           Agree(q, G.log[t], i)
    PROVE  Agree(q, H.log[t], i)
  <1>1. Len(G.log[t]) \in Nat /\ Len(H.log[t]) \in Nat /\ Len(q) \in Nat
    BY HistoryTypes, LogTypes DEF Extends
  <1>2. Agree(G.log[t], H.log[t], Len(G.log[t]))
    BY DEF Extends, LogsGrow
  <1>3. QED
    BY <1>1, <1>2 DEF Agree

LEMMA SoundnessGrows ==
    ASSUME NEW G, NEW H, NEW n, Extends(G, H, n), NEW q \in Logs, Sound(q, G)
    PROVE  Sound(q, H)
  <1> SUFFICES ASSUME NEW i \in 1 .. Len(q)
               PROVE  Agree(q, H.log[q[i].term], i)
    BY DEF Sound
  <1>1. q[i].term \in Nat /\ i \in Nat /\ Agree(q, G.log[q[i].term], i)
    BY LogTypes DEF Sound
  <1>2. QED
    BY <1>1, AgreementGrows

LEMMA ChosenGrows ==
    ASSUME NEW G, NEW H, NEW n, Extends(G, H, n), NEW T \in Nat, NEW N \in Nat, NEW V,
           Chosen(G, T, N, V)
    PROVE  Chosen(H, T, N, V)
  <1>1. PICK Q \in SUBSET Server : Majority(V, Q) /\ \A v \in Q : G.took[v][T] >= N
    BY DEF Chosen
  <1>2. \A v \in Server : G.took[v][T] \in Nat /\ H.took[v][T] \in Nat
    BY HistoryTypes DEF Extends
  <1>3. \A v \in Server : H.took[v][T] >= G.took[v][T]
    BY <1>2 DEF Extends
  <1>4. \A v \in Q : H.took[v][T] >= N
    BY <1>1, <1>2, <1>3
  <1>5. QED
    BY <1>1, <1>4, HeldStaysHeld DEF Chosen

LEMMA SettledGrows ==
    ASSUME NEW G, NEW H, NEW n, Extends(G, H, n), NEW V, NEW q \in Logs, NEW i \in Nat,
           NEW t \in Nat, Settled(q, i, t, G, V), NEW u \in Nat, u >= t
    PROVE  Settled(q, i, u, H, V)
  <1>1. Len(q) \in Nat /\ i <= Len(q)
    BY LogTypes DEF Settled
  <1>2. \A j \in 1 .. i : q[j] \in H.done[j]
    BY DEF Settled, Extends
  <1>3. ASSUME i > 0
        PROVE  \E T, N \in Nat : T <= u /\ N >= i /\ Chosen(H, T, N, V) /\ Agree(q, H.log[T], i)
    <2>1. PICK T \in Nat, N \in Nat :
              T <= t /\ N >= i /\ Chosen(G, T, N, V) /\ Agree(q, G.log[T], i)
      BY <1>3 DEF Settled
    <2>2. Chosen(H, T, N, V) /\ Agree(q, H.log[T], i)
      BY <2>1, ChosenGrows, AgreementGrows
    <2>3. QED
      BY <2>1, <2>2
  <1>4. QED
    BY <1>1, <1>2, <1>3 DEF Settled

LEMMA OverruledGrows ==
    ASSUME NEW G, NEW H, NEW n, Extends(G, H, n), NEW t \in Nat, NEW T \in Nat, NEW N \in Nat,
           Overruled(G, t, T, N), NEW u \in Nat, u >= t
    PROVE  Overruled(H, u, T, N)
  <1>1. PICK U \in Nat : T < U /\ U <= t /\ Led(G, U) /\ ~Has(G.log[U], T, N)
    BY DEF Overruled
  <1>2. Led(H, U) /\ ~Has(H.log[U], T, N)
    BY <1>1, HeldStaysHeld
  <1>3. QED
    BY <1>1, <1>2 DEF Overruled

LEMMA EndorsementGrows ==
    ASSUME NEW G, NEW H, NEW n, Extends(G, H, n), Recorded(G), NEW v \in Server, NEW t \in Nat,
           NEW q \in Logs, Endorses(v, t, q, G)
    PROVE  Endorses(v, t, q, H)
  <1>1. G.term[v] \in Nat /\ H.term[v] \in Nat /\ G.term[v] >= t /\ H.term[v] >= G.term[v]
    BY HistoryTypes DEF Extends, Endorses
  <1>2. ASSUME NEW T \in Nat, NEW N \in Nat, T < t, N <= H.took[v][T], Has(H.log[T], T, N)
        PROVE  Overruled(H, t, T, N) \/ AtLeast(q, T, N)
    <2>1. H.took[v][T] = G.took[v][T]
      BY <1>1, <1>2 DEF Extends
    <2>2. N <= Len(G.log[T])
      <3>1. G.took[v][T] \in Nat /\ Len(G.log[T]) \in Nat /\ G.took[v][T] <= Len(G.log[T])
        BY HistoryTypes DEF Extends, Recorded
      <3>2. QED
        BY <3>1, <2>1, <1>2
    <2>3. Has(G.log[T], T, N)
      BY <2>2, <1>2, HeldStaysHeld
    <2>4. Overruled(G, t, T, N) \/ AtLeast(q, T, N)
      BY <2>1, <2>3, <1>2 DEF Endorses
    <2>5. QED
      BY <2>4, OverruledGrows
  <1>3. QED
    BY <1>1, <1>2 DEF Endorses

(* A node of a cluster that nobody asks to change.                         *)
LEMMA PlainNodes ==
    ASSUME NEW M, NEW s \in Node(M, {Nobody})
    PROVE  /\ s.log \in Logs /\ Len(s.log) \in Nat /\ s.id \in Server /\ s.term \in Nat
           /\ s.commit \in Nat /\ s.applied \in Nat /\ s.snap.index \in Nat
           /\ s.match \in [Server -> Nat] /\ s.votes \in SUBSET Server
           /\ s.building.index \in Nat
  <1>1. s.building \in BuildingOf(M, {Nobody})
    BY NodeTypes
  <1>2. s.building.index \in Nat
    BY <1>1 DEF BuildingOf
  <1>3. QED
    BY <1>2, NodeTypes DEF Logs, Plain

LEMMA PersistenceGrows ==
    ASSUME NEW M, NEW s \in Node(M, {Nobody}), NEW G, NEW H, NEW n, Extends(G, H, n),
           Recorded(G), Persists(s, G), H.took[s.id] = G.took[s.id]
    PROVE  Persists(s, H)
  <1> SUFFICES ASSUME NEW T \in Nat, NEW N \in Nat, T <= s.term, N <= H.took[s.id][T],
                      Has(H.log[T], T, N)
               PROVE  Has(s.log, T, N) \/ Overruled(H, s.term, T, N)
    BY DEF Persists
  <1>1. s.id \in Server /\ s.term \in Nat
    BY PlainNodes
  <1>2. G.took[s.id][T] \in Nat /\ Len(G.log[T]) \in Nat /\ G.took[s.id][T] <= Len(G.log[T])
    BY <1>1, HistoryTypes DEF Extends, Recorded
  <1>3. Has(G.log[T], T, N)
    BY <1>2, HeldStaysHeld
  <1>4. Has(s.log, T, N) \/ Overruled(G, s.term, T, N)
    BY <1>3 DEF Persists
  <1>5. QED
    BY <1>1, <1>4, OverruledGrows

LEMMA SettlingGrows ==
    ASSUME NEW M, NEW s \in Node(M, {Nobody}), NEW G, NEW H, NEW n, Extends(G, H, n), NEW V,
           Settles(s, G, V)
    PROVE  Settles(s, H, V)
  <1>1. /\ s.log \in Logs /\ s.commit \in Nat /\ s.applied \in Nat /\ s.snap.index \in Nat
        /\ s.term \in Nat
    BY PlainNodes
  <1>2. s.term >= s.term
    BY <1>1
  <1>3. QED
    BY <1>1, <1>2, SettledGrows DEF Settles

LEMMA OthersStay ==
    ASSUME NEW M, NEW s \in Node(M, {Nobody}), NEW G, NEW H, NEW n, Extends(G, H, n), NEW V,
           Recorded(G), Recorded(H), NodeOK(s, G, V), s.id # n
    PROVE  NodeOK(s, H, V)
  <1>1. /\ s.log \in Logs /\ s.id \in Server /\ s.term \in Nat /\ G \in History /\ H \in History
        /\ s.votes \in SUBSET Server /\ s.match \in [Server -> Nat]
    BY PlainNodes DEF Extends
  <1>2. /\ H.took[s.id] = G.took[s.id] /\ H.term[s.id] = G.term[s.id]
        /\ H.stood[s.id] = G.stood[s.id]
        /\ \A t \in Nat : s.id \in H.led[t] => s.id \in G.led[t]
        /\ \A t \in G.stood[s.id] : H.stand[s.id][t] = G.stand[s.id][t]
    BY <1>1 DEF Extends
  <1>3. LogOf(s, H)
    <2>1. Sound(s.log, H)
      BY <1>1, SoundnessGrows DEF NodeOK, LogOf
    <2>2. G.took[s.id][s.term] \in Nat
      BY <1>1, HistoryTypes
    <2>3. Agree(s.log, H.log[s.term], H.took[s.id][s.term])
      BY <2>2, <1>1, <1>2, AgreementGrows DEF NodeOK, LogOf
    <2>4. Persists(s, H)
      BY <1>2, PersistenceGrows DEF NodeOK, LogOf
    <2>5. QED
      BY <2>1, <2>3, <2>4 DEF NodeOK, LogOf
  <1>4. Settles(s, H, V)
    BY SettlingGrows DEF NodeOK
  <1>5. TermOf(s, H) /\ Built(s)
    BY <1>2 DEF NodeOK, TermOf
  <1>6. Stands(s, H)
    BY <1>1, <1>2, EndorsementGrows DEF NodeOK, Stands
  <1>7. Leads(s, H)
    <2> SUFFICES ASSUME s.role = "Leader"
                 PROVE  /\ s.log = H.log[s.term] /\ s.id \in H.led[s.term]
                        /\ H.took[s.id][s.term] = Len(s.log)
                        /\ \A p \in Server : s.match[p] <= H.took[p][s.term]
      BY DEF Leads
    <2>1. /\ s.log = G.log[s.term] /\ s.id \in G.led[s.term]
          /\ G.took[s.id][s.term] = Len(s.log)
          /\ \A p \in Server : s.match[p] <= G.took[p][s.term]
      BY DEF NodeOK, Leads
    <2>2. s.id \in H.led[s.term]
      BY <2>1, <1>1 DEF Extends
    <2>3. n \notin H.led[s.term]
      BY <2>2, <1>1 DEF Recorded
    <2>4. H.log[s.term] = G.log[s.term]
      BY <2>3, <1>1 DEF Extends, LogsGrow
    <2>5. \A p \in Server : s.match[p] <= H.took[p][s.term]
      <3> SUFFICES ASSUME NEW p \in Server PROVE s.match[p] <= H.took[p][s.term]
        OBVIOUS
      <3>1. s.match[p] \in Nat /\ G.took[p][s.term] \in Nat /\ H.took[p][s.term] \in Nat
        BY <1>1, HistoryTypes
      <3>2. G.took[p][s.term] <= H.took[p][s.term]
        BY <1>1 DEF Extends
      <3>3. QED
        BY <2>1, <3>1, <3>2
    <2>6. QED
      BY <2>1, <2>2, <2>4, <2>5, <1>2
  <1>8. QED
    BY <1>3, <1>4, <1>5, <1>6, <1>7 DEF NodeOK

LEMMA MessagesStay ==
    ASSUME NEW M, NEW m \in MessageOf(M, {Nobody}), NEW G, NEW H, NEW n, Extends(G, H, n), NEW V,
           Recorded(G), MessageOK(m, G, V)
    PROVE  MessageOK(m, H, V)
  <1>1. m.from \in Server /\ m.to \in Server /\ m.term \in Nat /\ G \in History /\ H \in History
    BY KindsOfMessages DEF Extends
  <1> DEFINE g == G.log[m.term]
             h == H.log[m.term]
  <1>2. g \in Logs /\ h \in Logs /\ Len(g) \in Nat /\ Len(h) \in Nat /\ Agree(g, h, Len(g))
    BY <1>1, HistoryTypes DEF Extends, LogsGrow
  <1>3. \A v \in Server : G.took[v][m.term] \in Nat /\ H.took[v][m.term] \in Nat
    BY <1>1, HistoryTypes
  <1>4. \A v \in Server : G.took[v][m.term] <= H.took[v][m.term]
    BY <1>1 DEF Extends
  <1>5. ASSUME NEW i \in Nat, Settled(g, i, m.term, G, V)
        PROVE  Settled(h, i, m.term, H, V)
    <2>1. Settled(g, i, m.term, H, V)
      BY <1>1, <1>2, <1>5, SettledGrows
    <2>2. Agree(g, h, i)
      BY <1>2, <1>5 DEF Agree, Settled
    <2> HIDE DEF g, h
    <2>3. QED
      BY <2>1, <2>2, <1>1, <1>2, SettledOnAgreement
  <1>6. ASSUME m.type = "AppendEntries" PROVE AppendOK(m, H, V)
    <2>1. m.commit \in Nat /\ m.prev \in Nat /\ m.entries \in Seq(EntryOf({Nobody}))
      BY <1>6, KindsOfMessages DEF AppendOf
    <2>2. AppendOK(m, G, V)
      BY <1>6 DEF MessageOK
    <2>3. Settled(h, m.commit, m.term, H, V)
      BY <2>1, <2>2, <1>5 DEF AppendOK
    <2>4. m.from \in H.led[m.term]
      BY <2>2, <1>1 DEF AppendOK, Extends
    <2>5. Has(g, m.prevTerm, m.prev) => Has(h, m.prevTerm, m.prev)
      BY <1>1, HeldStaysHeld
    <2>6. Len(m.entries) \in Nat /\ \A k \in 1 .. Len(m.entries) :
              m.prev + k <= Len(g) /\ m.entries[k] = g[m.prev + k]
      BY <2>1, <2>2 DEF AppendOK
    <2>7. \A k \in 1 .. Len(m.entries) : m.prev + k <= Len(h) /\ m.entries[k] = h[m.prev + k]
      <3> HIDE DEF g, h
      <3>1. QED
        BY <2>1, <2>6, <1>2 DEF Agree
    <2>8. QED
      BY <2>2, <2>3, <2>4, <2>5, <2>7 DEF AppendOK
  <1>7. ASSUME m.type = "InstallSnapshot" PROVE InstallOK(m, H, V)
    <2>1. m.index \in Nat /\ m.state \in Logs
      BY <1>7, KindsOfMessages DEF InstallOf, Logs, Plain
    <2>2. InstallOK(m, G, V)
      BY <1>7 DEF MessageOK
    <2>3. Settled(h, m.index, m.term, H, V)
      BY <2>1, <2>2, <1>5 DEF InstallOK
    <2>4. m.from \in H.led[m.term]
      BY <2>2, <1>1 DEF InstallOK, Extends
    <2>5. Has(h, m.lastTerm, m.index)
      BY <2>2, <1>1, HeldStaysHeld DEF InstallOK
    <2>6. Agree(m.state, h, m.index)
      BY <2>1, <2>2, <1>1, AgreementGrows DEF InstallOK
    <2>7. QED
      BY <2>3, <2>4, <2>5, <2>6 DEF InstallOK
  <1>8. ASSUME m.type = "AppendReply", m.success PROVE m.match <= H.took[m.from][m.term]
    <2>1. m.match \in Nat
      BY <1>8, KindsOfMessages DEF AppendAnswer
    <2>2. m.match <= G.took[m.from][m.term]
      BY <1>8 DEF MessageOK
    <2>3. QED
      BY <2>1, <2>2, <1>1, <1>3, <1>4
  <1>9. ASSUME m.type = "SnapshotReply", m.done PROVE m.index <= H.took[m.from][m.term]
    <2>1. m.index \in Nat
      BY <1>9, KindsOfMessages DEF InstallAnswer
    <2>2. m.index <= G.took[m.from][m.term]
      BY <1>9 DEF MessageOK
    <2>3. QED
      BY <2>1, <2>2, <1>1, <1>3, <1>4
  <1>10. ASSUME m.type = "RequestVote" PROVE RequestOK(m, H)
    BY <1>1, <1>10 DEF MessageOK, RequestOK, Extends
  <1>11. ASSUME m.type = "RequestVoteReply", m.granted PROVE VoteOK(m, H)
    <2>1. VoteOK(m, G)
      BY <1>11 DEF MessageOK
    <2>2. m.term \in H.stood[m.to] /\ H.stand[m.to][m.term] = G.stand[m.to][m.term]
      BY <2>1, <1>1 DEF VoteOK, Extends
    <2>3. G.stand[m.to][m.term] \in Logs
      BY <1>1, HistoryTypes
    <2>4. QED
      BY <2>1, <2>2, <2>3, <1>1, EndorsementGrows DEF VoteOK
  <1>12. QED
    BY <1>6, <1>7, <1>8, <1>9, <1>10, <1>11 DEF MessageOK

-----------------------------------------------------------------------------
(* The steps of a node, and what each adds to the history.                 *)

(* What a leader was kept from losing it still is.                         *)
LEMMA SafetyGrows ==
    ASSUME NEW G, NEW H, NEW n, Extends(G, H, n), NEW V, Safe(G, V), NEW t \in Nat, Led(G, t),
           NEW T \in Nat, T < t, NEW N \in Nat, N > 0
    PROVE  Old(H, T, N) \/ Has(H.log[t], T, N) \/ Never(H, T, N, V)
  <1>1. Old(G, T, N) \/ Has(G.log[t], T, N) \/ Never(G, T, N, V)
    BY DEF Safe
  <1>2. CASE Old(G, T, N)
    <2>1. Len(G.log[T]) \in Nat /\ Len(H.log[T]) \in Nat
      BY HistoryTypes DEF Extends
    <2>2. Agree(G.log[T], H.log[T], Len(G.log[T]))
      BY DEF Extends, LogsGrow
    <2>3. Old(H, T, N)
      BY <1>2, <2>1, <2>2 DEF Old, Agree
    <2>4. QED
      BY <2>3
  <1>3. CASE Has(G.log[t], T, N)
    BY <1>3, HeldStaysHeld
  <1>4. CASE Never(G, T, N, V)
    <2>1. PICK Q \in SUBSET Server :
              Majority(V, Q) /\ \A v \in Q : G.term[v] > T /\ G.took[v][T] < N
      BY <1>4 DEF Never
    <2>2. \A v \in Server : G.term[v] \in Nat /\ H.term[v] \in Nat /\ G.term[v] <= H.term[v]
      BY HistoryTypes DEF Extends
    <2>3. \A v \in Server : T < G.term[v] => H.took[v][T] = G.took[v][T]
      BY DEF Extends
    <2>4. \A v \in Q : H.term[v] > T /\ H.took[v][T] < N
      BY <2>1, <2>2, <2>3
    <2>5. QED
      BY <2>1, <2>4 DEF Never
  <1>5. QED
    BY <1>1, <1>2, <1>3, <1>4

(* Where the logs and the leaders are the same, so is the record.          *)
LEMMA RecordStays ==
    ASSUME NEW G, NEW H, NEW n, Extends(G, H, n), NEW V, HistoryOK(G, V),
           H.log = G.log, H.led = G.led,
           \A v \in Server, t \in Nat : H.took[v][t] <= Len(G.log[t])
    PROVE  HistoryOK(H, V)
  <1>1. Recorded(H)
    BY DEF Recorded, HistoryOK, Sound, Led
  <1>2. Safe(H, V)
    <2>1. \A t \in Nat : Led(H, t) => Led(G, t)
      BY DEF Led
    <2>2. QED
      BY <2>1, SafetyGrows DEF Safe, HistoryOK
  <1>3. QED
    BY <1>1, <1>2 DEF HistoryOK, Extends

(* Most calls: the log and the term are left alone, nobody is elected, and *)
(* what is counted settled was.                                            *)
Rests(s, r, G) ==
    /\ r.id = s.id /\ r.term = s.term /\ r.log = s.log
    /\ r.role = "Candidate" =>
          /\ s.role = "Candidate"
          /\ \A v \in r.votes : v \in s.votes \/ Endorses(v, s.term, s.log, G)
    /\ r.role = "Leader" =>
          /\ s.role = "Leader"
          /\ \A p \in Server : r.match[p] <= s.match[p] \/ r.match[p] <= G.took[p][s.term]
    /\ \A x \in {r.commit, r.applied, r.snap.index} :
          x <= s.commit \/ x <= s.applied \/ x <= s.snap.index
    /\ Built(r)

LEMMA SettledBelow ==
    ASSUME NEW V, NEW G \in History, NEW t \in Nat, NEW q \in Logs, NEW i \in Nat,
           Settled(q, i, t, G, V), NEW j \in Nat, j <= i
    PROVE  Settled(q, j, t, G, V)
  <1>1. Agree(q, q, j)
    BY LogTypes DEF Agree, Settled
  <1>2. QED
    BY <1>1, SettledOnAgreement

LEMMA RestingKeeps ==
    ASSUME NEW M, NEW s \in Node(M, {Nobody}), NEW r \in Node(M, {Nobody}), NEW V, NEW G \in History,
           NodeOK(s, G, V), Rests(s, r, G)
    PROVE  NodeOK(r, G, V)
  <1>1. /\ s.log \in Logs /\ s.term \in Nat /\ s.commit \in Nat /\ s.applied \in Nat
        /\ s.snap.index \in Nat /\ s.id \in Server /\ s.match \in [Server -> Nat]
    BY PlainNodes
  <1>2. /\ r.commit \in Nat /\ r.applied \in Nat /\ r.snap.index \in Nat
        /\ r.match \in [Server -> Nat]
    BY PlainNodes
  <1>3. LogOf(r, G) /\ TermOf(r, G) /\ Built(r)
    BY DEF NodeOK, Rests, LogOf, TermOf, Persists
  <1>4. \A x \in {r.commit, r.applied, r.snap.index} : Settled(s.log, x, s.term, G, V)
    <2> SUFFICES ASSUME NEW x \in {r.commit, r.applied, r.snap.index}
                 PROVE  Settled(s.log, x, s.term, G, V)
      OBVIOUS
    <2>1. x \in Nat /\ (x <= s.commit \/ x <= s.applied \/ x <= s.snap.index)
      BY <1>2 DEF Rests
    <2>2. QED
      BY <2>1, <1>1, SettledBelow DEF NodeOK, Settles
  <1>5. Settles(r, G, V)
    BY <1>4 DEF Settles, Rests
  <1>6. Stands(r, G)
    BY DEF Stands, Rests, NodeOK
  <1>7. Leads(r, G)
    <2> SUFFICES ASSUME r.role = "Leader" PROVE Leads(r, G)
      BY DEF Leads
    <2>1. \A p \in Server : r.match[p] <= G.took[p][s.term]
      <3> SUFFICES ASSUME NEW p \in Server PROVE r.match[p] <= G.took[p][s.term]
        OBVIOUS
      <3>1. r.match[p] \in Nat /\ s.match[p] \in Nat /\ G.took[p][s.term] \in Nat
        BY <1>1, <1>2, HistoryTypes
      <3>2. s.match[p] <= G.took[p][s.term]
        BY DEF Rests, NodeOK, Leads
      <3>3. r.match[p] <= s.match[p] \/ r.match[p] <= G.took[p][s.term]
        BY DEF Rests
      <3>4. QED
        BY <3>1, <3>2, <3>3
    <2>2. QED
      BY <2>1 DEF Leads, Rests, NodeOK
  <1>8. QED
    BY <1>3, <1>5, <1>6, <1>7 DEF NodeOK

(* A log that has an entry is at least as good as one that ends there.     *)
LEMMA HavingIsAtLeast ==
    ASSUME NEW G \in History, Recorded(G), NEW q \in Logs, Sound(q, G), NEW T \in Nat,
           NEW N \in Nat, Has(q, T, N)
    PROVE  AtLeast(q, T, N)
  <1>1. Sorted(q) /\ Len(q) \in Nat /\ \A i \in 1 .. Len(q) : q[i].term \in Nat
    BY SoundLogsAreSorted, LogTypes
  <1>2. N \in 1 .. Len(q) /\ Len(q) \in 1 .. Len(q) /\ q # <<>> /\ q[N].term = T
    BY <1>1 DEF Has
  <1>3. q[N].term <= q[Len(q)].term
    BY <1>1, <1>2 DEF Sorted
  <1>4. LastT(q) = q[Len(q)].term
    BY <1>2 DEF LastT
  <1>5. QED
    BY <1>1, <1>2, <1>3, <1>4 DEF AtLeast

(* A node endorses what is as good as its own log.                         *)
LEMMA VotersEndorse ==
    ASSUME NEW M, NEW s \in Node(M, {Nobody}), NEW V, NEW G, HistoryOK(G, V), NodeOK(s, G, V),
           NEW t \in Nat, t >= s.term, NEW q,
           LastT(q) \in Nat, Len(q) \in Nat,
           LastT(q) > LastT(s.log) \/ (LastT(q) = LastT(s.log) /\ Len(q) >= Len(s.log)),
           NEW T \in Nat, NEW N \in Nat, T < t, N <= G.took[s.id][T], Has(G.log[T], T, N)
    PROVE  Overruled(G, t, T, N) \/ AtLeast(q, T, N)
  <1>1. /\ s.log \in Logs /\ s.term \in Nat /\ s.id \in Server /\ Len(s.log) \in Nat
        /\ G \in History
    BY PlainNodes DEF HistoryOK
  <1>2. T <= s.term
    <2>1. T > s.term => G.took[s.id][T] = 0
      BY DEF NodeOK, TermOf
    <2>2. N >= 1
      BY DEF Has
    <2>3. QED
      BY <2>1, <2>2, <1>1
  <1>3. Has(s.log, T, N) \/ Overruled(G, s.term, T, N)
    BY <1>2 DEF NodeOK, LogOf, Persists
  <1>4. CASE Overruled(G, s.term, T, N)
    BY <1>1, <1>4 DEF Overruled
  <1>5. CASE Has(s.log, T, N)
    <2>1. AtLeast(s.log, T, N)
      BY <1>1, <1>5, HavingIsAtLeast DEF NodeOK, LogOf, HistoryOK
    <2>2. LastT(s.log) \in Nat
      BY <1>1, LogTypes DEF LastT
    <2>3. AtLeast(q, T, N)
      BY <2>1, <2>2, <1>1 DEF AtLeast
    <2>4. QED
      BY <2>3
  <1>6. QED
    BY <1>3, <1>4, <1>5

(* A node moves to a later term, out of office or to stand in it.          *)
Advances(s, r) ==
    /\ r.id = s.id /\ r.term > s.term /\ r.log = s.log
    /\ r.role # "Leader" /\ (r.role = "Candidate" => r.votes = {r.id})
    /\ \A x \in {r.commit, r.applied, r.snap.index} :
          x <= s.commit \/ x <= s.applied \/ x <= s.snap.index
    /\ Built(r)

LEMMA AdvancingKeeps ==
    ASSUME NEW M, NEW s \in Node(M, {Nobody}), NEW r \in Node(M, {Nobody}), NEW V, NEW G,
           HistoryOK(G, V), NodeOK(s, G, V), Advances(s, r)
    PROVE  \E H : /\ Extends(G, H, s.id) /\ HistoryOK(H, V) /\ NodeOK(r, H, V)
                  /\ H.led = G.led /\ H.done = G.done
  <1> DEFINE n == s.id
             t == r.term
             H == [G EXCEPT !.term = [v \in Server |-> IF v = n THEN t ELSE G.term[v]],
                            !.stood = [v \in Server |->
                                IF v = n /\ r.role = "Candidate" THEN G.stood[v] \cup {t} ELSE G.stood[v]],
                            !.stand = [v \in Server |->
                                IF v = n THEN [u \in Nat |-> IF u = t THEN s.log ELSE G.stand[v][u]]
                                         ELSE G.stand[v]]]
  <1>1. /\ n \in Server /\ s.term \in Nat /\ t \in Nat /\ t > s.term /\ s.log \in Logs
        /\ G \in History /\ r.id = n
    BY PlainNodes DEF Advances, HistoryOK
  <1>2. H \in History
    <2>1. \A v \in Server : G.stand[v] \in [Nat -> Logs] /\ G.stood[v] \in SUBSET Nat
      BY <1>1 DEF History
    <2>2. [u \in Nat |-> IF u = t THEN s.log ELSE G.stand[n][u]] \in [Nat -> Logs]
      BY <2>1, <1>1
    <2>3. QED
      BY <2>1, <2>2, <1>1 DEF History
  <1>3. /\ H.log = G.log /\ H.took = G.took /\ H.led = G.led /\ H.done = G.done
        /\ H.term[n] = t /\ H.stood[n] \subseteq G.stood[n] \cup {t} /\ H.stand[n][t] = s.log
        /\ r.role = "Candidate" => t \in H.stood[n]
        /\ \A v \in Server : G.stood[v] \subseteq H.stood[v]
        /\ \A v \in Server : v # n =>
              H.term[v] = G.term[v] /\ H.stood[v] = G.stood[v] /\ H.stand[v] = G.stand[v]
        /\ \A u \in Nat : u # t => H.stand[n][u] = G.stand[n][u]
    BY <1>1 DEF History
  <1> HIDE DEF H
  <1>4. G.term[n] = s.term /\ \A u \in Nat : u > s.term => /\ G.took[n][u] = 0 /\ n \notin G.led[u]
                                                           /\ u \notin G.stood[n]
    BY DEF NodeOK, TermOf
  <1>5. Extends(G, H, n)
    <2>1. LogsGrow(G, H, n)
      BY <1>1, <1>3, HistoryTypes DEF LogsGrow, Agree
    <2>2. \A v \in Server : G.term[v] \in Nat /\ G.term[v] <= H.term[v]
      BY <1>1, <1>3, <1>4, HistoryTypes
    <2>3. \A v \in Server : \A u \in G.stood[v] : H.stand[v][u] = G.stand[v][u]
      <3>1. \A u \in G.stood[n] : u \in Nat /\ u # t
        BY <1>1, <1>4, HistoryTypes
      <3>2. QED
        BY <3>1, <1>3
    <2>4. \A v \in Server, u \in Nat : G.took[v][u] <= H.took[v][u] /\ H.took[v][u] = G.took[v][u]
      BY <1>1, <1>3, HistoryTypes
    <2>5. QED
      BY <2>1, <2>2, <2>3, <2>4, <1>1, <1>2, <1>3 DEF Extends
  <1>6. HistoryOK(H, V)
    <2>1. \A v \in Server, u \in Nat : H.took[v][u] <= Len(G.log[u])
      BY <1>3 DEF HistoryOK, Recorded
    <2>2. QED
      BY <2>1, <1>3, <1>5, RecordStays
  <1>7. r.log = s.log /\ r.commit \in Nat /\ r.applied \in Nat /\ r.snap.index \in Nat
    BY PlainNodes DEF Advances
  <1>8. LogOf(r, H)
    <2>1. Sound(r.log, H)
      BY <1>1, <1>5, <1>7, SoundnessGrows DEF NodeOK, LogOf
    <2>2. UpTo(r.log, t)
      <3>1. \A i \in 1 .. Len(s.log) : s.log[i].term \in Nat /\ s.log[i].term <= s.term
        BY <1>1, LogTypes DEF NodeOK, LogOf, UpTo
      <3>2. QED
        BY <3>1, <1>1, <1>7 DEF UpTo
    <2>3. Agree(r.log, H.log[t], H.took[n][t])
      BY <1>1, <1>3, <1>4, <1>7, HistoryTypes, LogTypes DEF Agree
    <2>4. Persists(r, H)
      <3> SUFFICES ASSUME NEW T \in Nat, NEW N \in Nat, T <= r.term, N <= H.took[n][T],
                          Has(H.log[T], T, N)
                   PROVE  Has(r.log, T, N) \/ Overruled(H, r.term, T, N)
        BY <1>1 DEF Persists
      <3>1. T <= s.term
        BY <1>1, <1>3, <1>4 DEF Has
      <3>2. Has(s.log, T, N) \/ Overruled(G, s.term, T, N)
        BY <3>1, <1>3 DEF NodeOK, LogOf, Persists
      <3>3. QED
        BY <3>2, <1>1, <1>5, <1>7, OverruledGrows
    <2>5. QED
      BY <2>1, <2>2, <2>3, <2>4, <1>1 DEF LogOf
  <1>9. Settles(r, H, V)
    <2> SUFFICES ASSUME NEW x \in {r.commit, r.applied, r.snap.index}
                 PROVE  Settled(s.log, x, t, H, V)
      BY <1>7 DEF Settles
    <2>1. x \in Nat /\ (x <= s.commit \/ x <= s.applied \/ x <= s.snap.index)
      BY <1>7 DEF Advances
    <2>2. s.commit \in Nat /\ s.applied \in Nat /\ s.snap.index \in Nat
      BY PlainNodes
    <2>3. Settled(s.log, x, s.term, G, V)
      BY <2>1, <2>2, <1>1, SettledBelow DEF NodeOK, Settles
    <2>4. QED
      BY <2>1, <2>3, <1>1, <1>5, SettledGrows
  <1>10. TermOf(r, H)
    BY <1>1, <1>3, <1>4 DEF TermOf
  <1>11. Stands(r, H)
    <2> SUFFICES ASSUME r.role = "Candidate"
                 PROVE  /\ t \in H.stood[n] /\ H.stand[n][t] = r.log /\ n \notin H.led[t]
                        /\ \A i \in 1 .. Len(r.log) : r.log[i].term # t
                        /\ \A v \in r.votes : Endorses(v, t, r.log, H)
      BY <1>1 DEF Stands
    <2>1. \A i \in 1 .. Len(s.log) : s.log[i].term # t
      <3>1. \A i \in 1 .. Len(s.log) : s.log[i].term \in Nat /\ s.log[i].term <= s.term
        BY <1>1, LogTypes DEF NodeOK, LogOf, UpTo
      <3>2. QED
        BY <3>1, <1>1
    <2>2. Endorses(n, t, s.log, H)
      <3>1. H.term[n] >= t
        BY <1>1, <1>3
      <3>2. ASSUME NEW T \in Nat, NEW N \in Nat, T < t, N <= H.took[n][T], Has(H.log[T], T, N)
            PROVE  Overruled(H, t, T, N) \/ AtLeast(s.log, T, N)
        <4>1. LastT(s.log) \in Nat /\ Len(s.log) \in Nat
          BY <1>1, LogTypes DEF LastT
        <4>3. t >= t /\ t >= s.term /\ Len(s.log) >= Len(s.log)
          BY <4>1, <1>1
        <4>2. Overruled(G, t, T, N) \/ AtLeast(s.log, T, N)
          <5>1. N <= G.took[s.id][T] /\ Has(G.log[T], T, N)
            BY <3>2, <1>3
          <5> HIDE DEF t
          <5>2. QED
            BY <5>1, <4>1, <4>3, <3>2, <1>1, VotersEndorse
        <4>4. QED
          BY <4>2, <4>3, <1>1, <1>5, OverruledGrows
      <3>3. QED
        BY <3>1, <3>2 DEF Endorses
    <2>3. QED
      BY <2>1, <2>2, <1>1, <1>3, <1>4, <1>7 DEF Advances
  <1>12. Leads(r, H) /\ Built(r)
    BY DEF Leads, Advances
  <1>13. QED
    BY <1>3, <1>5, <1>6, <1>8, <1>9, <1>10, <1>11, <1>12 DEF NodeOK

(* A node that hears from the leader of its term keeps all that they agree *)
(* on, and may acknowledge up to k of what they now agree on.              *)
Follows(s, r, G, V) ==
    /\ r.id = s.id /\ r.term = s.term /\ r.role = "Follower"
    /\ Sound(r.log, G) /\ UpTo(r.log, r.term)
    /\ \A i \in Nat : Agree(s.log, G.log[s.term], i) => Agree(r.log, G.log[s.term], i)
    /\ \A x \in {r.commit, r.applied, r.snap.index} :
          \/ x <= s.commit \/ x <= s.applied \/ x <= s.snap.index
          \/ Settled(r.log, x, r.term, G, V)
    /\ \/ r.building = s.building /\ r.applied >= s.applied
       \/ r.building.index = 0

LEMMA WhatIsSettledIsFollowed ==
    ASSUME NEW M, NEW s \in Node(M, {Nobody}), NEW r \in Node(M, {Nobody}),
           NEW V \in SUBSET Server, NEW G,
           HistoryOK(G, V), NodeOK(s, G, V), Led(G, s.term), Follows(s, r, G, V),
           NEW x \in Nat, x <= s.commit \/ x <= s.applied \/ x <= s.snap.index
    PROVE  Agree(s.log, r.log, x) /\ Settled(r.log, x, r.term, G, V)
  <1>1. /\ s.log \in Logs /\ s.term \in Nat /\ r.log \in Logs /\ r.term = s.term
        /\ s.commit \in Nat /\ s.applied \in Nat /\ s.snap.index \in Nat /\ G \in History
    BY PlainNodes DEF Follows, HistoryOK
  <1>2. Len(s.log) \in Nat /\ Len(r.log) \in Nat /\ Len(G.log[s.term]) \in Nat
    BY <1>1, LogTypes, HistoryTypes
  <1>3. Settled(s.log, x, s.term, G, V)
    BY <1>1, SettledBelow DEF NodeOK, Settles
  <1>4. Agree(s.log, G.log[s.term], x)
    BY <1>1, <1>3, SettledIsLed
  <1>5. Agree(r.log, G.log[s.term], x)
    BY <1>4 DEF Follows
  <1>6. Agree(s.log, r.log, x)
    BY <1>2, <1>4, <1>5 DEF Agree
  <1>7. x <= x
    OBVIOUS
  <1>8. QED
    BY <1>1, <1>3, <1>6, <1>7, SettledOnAgreement

LEMMA FollowingKeeps ==
    ASSUME NEW M, NEW s \in Node(M, {Nobody}), NEW r \in Node(M, {Nobody}),
           NEW V \in SUBSET Server, NEW G,
           HistoryOK(G, V), NodeOK(s, G, V), Led(G, s.term), Follows(s, r, G, V),
           NEW k \in Nat, Agree(r.log, G.log[s.term], k)
    PROVE  \E H : /\ Extends(G, H, s.id) /\ HistoryOK(H, V) /\ NodeOK(r, H, V)
                  /\ H.led = G.led /\ H.done = G.done /\ H.took[s.id][s.term] >= k
  <1> DEFINE n == s.id
             t == s.term
             H == [G EXCEPT !.took = [v \in Server |->
                       IF v = n THEN [u \in Nat |-> IF u = t /\ G.took[v][u] < k THEN k ELSE G.took[v][u]]
                                ELSE G.took[v]]]
  <1>1. /\ n \in Server /\ t \in Nat /\ s.log \in Logs /\ r.log \in Logs /\ G \in History
        /\ r.id = n /\ r.term = t
    BY PlainNodes DEF Follows, HistoryOK
  <1>2. \A v \in Server : G.took[v] \in [Nat -> Nat]
    BY <1>1 DEF History
  <1>3. H \in History
    <2>1. [u \in Nat |-> IF u = t /\ G.took[n][u] < k THEN k ELSE G.took[n][u]] \in [Nat -> Nat]
      BY <1>1, <1>2
    <2>2. QED
      BY <2>1, <1>1, <1>2 DEF History
  <1>4. /\ H.log = G.log /\ H.led = G.led /\ H.done = G.done /\ H.term = G.term
        /\ H.stood = G.stood /\ H.stand = G.stand
        /\ \A v \in Server : v # n => H.took[v] = G.took[v]
        /\ \A u \in Nat : u # t => H.took[n][u] = G.took[n][u]
        /\ H.took[n][t] = IF G.took[n][t] < k THEN k ELSE G.took[n][t]
    BY <1>1, <1>2 DEF History
  <1> HIDE DEF H
  <1>5. G.took[n][t] \in Nat /\ G.term[n] = t /\ G.log[t] \in Logs /\ Len(G.log[t]) \in Nat
    BY <1>1, HistoryTypes DEF NodeOK, TermOf
  <1>6. Agree(r.log, G.log[t], H.took[n][t])
    <2>1. Agree(r.log, G.log[t], G.took[n][t])
      BY <1>1, <1>5 DEF NodeOK, LogOf, Follows
    <2>2. QED
      BY <2>1, <1>4
  <1>7. Extends(G, H, n)
    <2>1. LogsGrow(G, H, n)
      BY <1>1, <1>4, HistoryTypes DEF LogsGrow, Agree
    <2>2. \A v \in Server : G.term[v] \in Nat /\ \A u \in Nat : G.took[v][u] \in Nat
      BY <1>1, HistoryTypes
    <2>3. \A v \in Server, u \in Nat : /\ G.took[v][u] <= H.took[v][u]
                                       /\ u < G.term[v] => H.took[v][u] = G.took[v][u]
      <3> SUFFICES ASSUME NEW v \in Server, NEW u \in Nat
                   PROVE  /\ G.took[v][u] <= H.took[v][u]
                          /\ u < G.term[v] => H.took[v][u] = G.took[v][u]
        OBVIOUS
      <3>1. CASE v = n /\ u = t
        BY <3>1, <1>4, <1>5
      <3>2. CASE ~(v = n /\ u = t)
        BY <3>2, <2>2, <1>4
      <3>3. QED
        BY <3>1, <3>2
    <2>4. \A v \in Server : G.term[v] <= H.term[v]
      BY <2>2, <1>4
    <2>5. QED
      BY <2>1, <2>3, <2>4, <1>1, <1>3, <1>4 DEF Extends
  <1>8. HistoryOK(H, V)
    <2>1. H.took[n][t] <= Len(G.log[t])
      BY <1>6 DEF Agree
    <2>2. \A v \in Server, u \in Nat : H.took[v][u] <= Len(G.log[u])
      BY <2>1, <1>1, <1>4 DEF HistoryOK, Recorded
    <2>3. QED
      BY <2>2, <1>4, <1>7, RecordStays
  <1>9. LogOf(r, H)
    <2>1. Sound(r.log, H) /\ UpTo(r.log, t)
      BY <1>1, <1>7, SoundnessGrows DEF Follows
    <2>2. Persists(r, H)
      <3> SUFFICES ASSUME NEW T \in Nat, NEW N \in Nat, T <= t, N <= H.took[n][T],
                          Has(G.log[T], T, N)
                   PROVE  Has(r.log, T, N) \/ Overruled(H, t, T, N)
        BY <1>1, <1>4 DEF Persists
      <3>1. CASE T = t
        <4>1. Len(r.log) \in Nat
          BY <1>1, LogTypes
        <4>2. Has(r.log, T, N)
          BY <3>1, <4>1, <1>4, <1>5, <1>6 DEF Agree, Has
        <4>3. QED
          BY <4>2
      <3>2. CASE T # t
        <4>1. Has(s.log, T, N) \/ Overruled(G, t, T, N)
          BY <3>2, <1>4 DEF NodeOK, LogOf, Persists
        <4>2. CASE Overruled(G, t, T, N)
          BY <4>2, <1>1, <1>7, OverruledGrows
        <4>3. CASE Has(s.log, T, N) /\ Has(G.log[t], T, N)
          <5>1. Agree(s.log, G.log[t], N)
            BY <4>3, <1>1, <1>5, SoundLogsMeet DEF NodeOK, LogOf, HistoryOK, Recorded
          <5>2. Agree(r.log, G.log[t], N)
            BY <5>1 DEF Follows
          <5>3. Agree(G.log[t], r.log, N) /\ N <= N
            BY <5>2 DEF Agree
          <5>4. QED
            BY <5>3, <4>3, <1>1, <1>5, AgreeingLogsHave
        <4>4. CASE ~Has(G.log[t], T, N)
          <5>1. Overruled(G, t, T, N)
            BY <3>2, <4>4, <1>1 DEF Overruled
          <5>2. QED
            BY <5>1, <4>2
        <4>5. QED
          BY <4>1, <4>2, <4>3, <4>4
      <3>3. QED
        BY <3>1, <3>2
    <2>3. QED
      BY <2>1, <2>2, <1>1, <1>4, <1>6 DEF LogOf
  <1>10. \A x \in {r.commit, r.applied, r.snap.index} : x \in Nat /\ Settled(r.log, x, r.term, G, V)
    <2>1. r.commit \in Nat /\ r.applied \in Nat /\ r.snap.index \in Nat
      BY PlainNodes
    <2>2. QED
      BY <2>1, WhatIsSettledIsFollowed DEF Follows
  <1>11. Settles(r, H, V)
    <2>1. Settles(r, G, V)
      BY <1>10 DEF Settles
    <2>2. QED
      BY <2>1, <1>7, SettlingGrows
  <1>12. Built(r)
    <2>1. /\ r.building.index \in Nat /\ s.building.index \in Nat
          /\ r.applied \in Nat /\ s.applied \in Nat
      BY PlainNodes
    <2>2. CASE r.building.index = 0
      BY <2>1, <2>2 DEF Built
    <2>3. CASE r.building = s.building /\ r.applied >= s.applied
      <3>1. s.building.index <= s.applied
        BY DEF NodeOK, Built
      <3>2. Agree(s.log, r.log, s.building.index)
        BY <2>1, <3>1, WhatIsSettledIsFollowed
      <3>3. s.building.index > 0 => s.log[s.building.index] = r.log[s.building.index]
        BY <2>1, <3>2 DEF Agree
      <3>4. QED
        BY <2>1, <2>3, <3>1, <3>3 DEF NodeOK, Built
    <2>4. QED
      BY <2>2, <2>3 DEF Follows
  <1>13. TermOf(r, H)
    BY <1>1, <1>4 DEF NodeOK, TermOf
  <1>14. Stands(r, H) /\ Leads(r, H)
    BY DEF Stands, Leads, Follows
  <1>15. H.took[n][t] >= k
    BY <1>4, <1>5
  <1>16. QED
    BY <1>4, <1>7, <1>8, <1>9, <1>11, <1>12, <1>13, <1>14, <1>15 DEF NodeOK

(* A majority that endorses a candidate keeps its election from losing     *)
(* anything that was chosen or could still be.                             *)
LEMMA ElectionIsSafe ==
    ASSUME NEW M, NEW s \in Node(M, {Nobody}), NEW V \in SUBSET Server, NEW G,
           HistoryOK(G, V), NodeOK(s, G, V), s.role = "Candidate", Majority(V, s.votes),
           ~Led(G, s.term), NEW T \in Nat, T < s.term, NEW N \in Nat, N > 0
    PROVE  Old(G, T, N) \/ Has(s.log, T, N) \/ Never(G, T, N, V)
  <1> DEFINE q == s.log
             t == s.term
  <1>1. q \in Logs /\ Len(q) \in Nat /\ t \in Nat /\ s.votes \in SUBSET Server /\ G \in History
    BY PlainNodes DEF HistoryOK
  <1>2. G.log[T] \in Logs /\ Len(G.log[T]) \in Nat
    BY <1>1, HistoryTypes
  <1>3. \A v \in s.votes : Endorses(v, t, q, G)
    BY DEF NodeOK, Stands
  <1>4. CASE \A v \in s.votes : G.took[v][T] < N
    <2>1. \A v \in s.votes : G.term[v] > T
      <3>1. \A v \in s.votes : G.term[v] \in Nat /\ G.term[v] >= t
        BY <1>1, <1>3, HistoryTypes DEF Endorses
      <3>2. QED
        BY <3>1, <1>1
    <2>2. Never(G, T, N, V)
      BY <2>1, <1>1, <1>4 DEF Never
    <2>3. QED
      BY <2>2
  <1>5. ASSUME NEW v \in s.votes, ~(G.took[v][T] < N), ~Old(G, T, N)
        PROVE  Has(q, T, N) \/ Never(G, T, N, V)
    <2>1. G.took[v][T] \in Nat /\ G.took[v][T] <= Len(G.log[T])
      BY <1>1, HistoryTypes DEF HistoryOK, Recorded
    <2>2. N <= G.took[v][T] /\ Has(G.log[T], T, N)
      BY <2>1, <1>2, <1>5 DEF Old, Has
    <2>3. Overruled(G, t, T, N) \/ AtLeast(q, T, N)
      BY <2>2, <1>1, <1>3 DEF Endorses
    <2>4. CASE Overruled(G, t, T, N)
      <3>1. PICK U \in Nat : T < U /\ U <= t /\ Led(G, U) /\ ~Has(G.log[U], T, N)
        BY <2>4 DEF Overruled
      <3>2. QED
        BY <3>1, <1>5 DEF HistoryOK, Safe
    <2>5. CASE AtLeast(q, T, N)
      <3> DEFINE U == LastT(q)
                 L == Len(q)
      <3>1. U \in Nat /\ (U > T \/ (U = T /\ L >= N))
        BY <1>1, <2>5, LogTypes DEF AtLeast, LastT
      <3>2. L \in 1 .. L /\ q[L].term = U
        <4>1. L # 0
          BY <3>1, <1>1 DEF LastT
        <4>2. q # <<>>
          BY <4>1
        <4>3. QED
          BY <4>1, <4>2, <1>1 DEF LastT
      <3>3. Sound(q, G) /\ Led(G, U) /\ Agree(q, G.log[U], L)
        BY <3>2, <1>1, SoundLogsAreSorted DEF NodeOK, LogOf, HistoryOK, Sound
      <3>4. G.log[U] \in Logs /\ Len(G.log[U]) \in Nat /\ Sorted(G.log[U])
        BY <3>1, <1>1, HistoryTypes DEF HistoryOK, Recorded
      <3> HIDE DEF U, L, q, t
      <3>5. CASE U = T
        BY <3>1, <3>2, <3>3, <3>4, <3>5, <2>2 DEF Agree, Has, L
      <3>6. CASE U > T
        <4>1. Has(G.log[U], T, N) \/ Never(G, T, N, V)
          BY <3>1, <3>3, <3>6, <1>5 DEF HistoryOK, Safe
        <4>2. ASSUME Has(G.log[U], T, N)
              PROVE  Has(q, T, N)
          <5>1. N <= L
            <6> SUFFICES ASSUME L < N PROVE FALSE
              BY <3>2
            <6>1. L \in 1 .. Len(G.log[U]) /\ N \in 1 .. Len(G.log[U])
              BY <4>2, <3>2, <3>3, <3>4 DEF Agree, Has
            <6>2. G.log[U][L].term <= G.log[U][N].term
              BY <6>1, <3>4 DEF Sorted
            <6>3. G.log[U][L] = q[L]
              BY <3>2, <3>3 DEF Agree
            <6>4. QED
              BY <6>2, <6>3, <4>2, <3>1, <3>2, <3>6 DEF Has
          <5>2. Agree(G.log[U], q, L)
            BY <3>3 DEF Agree
          <5>3. QED
            BY <5>1, <5>2, <4>2, <3>2, <3>4, <1>1, AgreeingLogsHave
        <4>3. QED
          BY <4>1, <4>2
      <3>7. QED
        BY <3>1, <3>5, <3>6 DEF q
    <2>6. QED
      BY <2>3, <2>4, <2>5
  <1>6. QED
    BY <1>4, <1>5

(* A leader, or a candidate that becomes one, puts entries of its own term *)
(* after its log.                                                          *)
Lengthens(q, p, t) ==
    /\ Agree(q, p, Len(q))
    /\ \A i \in 1 .. Len(p) : i > Len(q) => p[i].term = t
Reigns(s, r, G, V) ==
    /\ r.id = s.id /\ r.term = s.term /\ r.role = "Leader" /\ Lengthens(s.log, r.log, s.term)
    /\ \/ s.id \in G.led[s.term] /\ G.log[s.term] = s.log
       \/ /\ ~Led(G, s.term)
          /\ \A T, N \in Nat : T < s.term /\ N > 0
                => Old(G, T, N) \/ Has(s.log, T, N) \/ Never(G, T, N, V)
    /\ \A p \in Server : r.match[p] <= G.took[p][s.term]
    /\ r.commit = s.commit /\ r.applied = s.applied /\ r.snap.index = s.snap.index
    /\ r.building = s.building

LEMMA LongerLogs ==
    ASSUME NEW q \in Logs, NEW p \in Logs, NEW t \in Nat, Lengthens(q, p, t), UpTo(q, t),
           Sorted(q)
    PROVE  /\ UpTo(p, t) /\ Sorted(p) /\ Len(q) <= Len(p)
           /\ \A T, N : Has(q, T, N) => Has(p, T, N)
           /\ \A i \in Nat : i <= Len(q) => Agree(q, p, i)
  <1>1. /\ Len(q) \in Nat /\ Len(p) \in Nat
        /\ \A i \in 1 .. Len(p) : p[i].term \in Nat
    BY LogTypes
  <1>2. Len(q) <= Len(p) /\ \A i \in 1 .. Len(q) : q[i] = p[i]
    BY DEF Lengthens, Agree
  <1>3. \A i \in 1 .. Len(p) : i > Len(q) => p[i].term = t
    BY DEF Lengthens
  <1>4. UpTo(p, t)
    BY <1>1, <1>2, <1>3 DEF UpTo
  <1>5. Sorted(p)
    <2> SUFFICES ASSUME NEW i \in 1 .. Len(p), NEW j \in 1 .. Len(p), i <= j
                 PROVE  p[i].term <= p[j].term
      BY DEF Sorted
    <2>1. CASE j <= Len(q)
      BY <2>1, <1>1, <1>2 DEF Sorted
    <2>2. CASE j > Len(q)
      BY <2>2, <1>3, <1>4 DEF UpTo
    <2>3. QED
      BY <2>1, <2>2, <1>1
  <1>6. \A T, N : Has(q, T, N) => Has(p, T, N)
    BY <1>1, <1>2 DEF Has
  <1>7. \A i \in Nat : i <= Len(q) => Agree(q, p, i)
    BY <1>1, <1>2 DEF Agree
  <1>8. QED
    BY <1>2, <1>4, <1>5, <1>6, <1>7

LEMMA ReigningKeeps ==
    ASSUME NEW M, NEW s \in Node(M, {Nobody}), NEW r \in Node(M, {Nobody}),
           NEW V \in SUBSET Server, NEW G,
           HistoryOK(G, V), NodeOK(s, G, V), Reigns(s, r, G, V)
    PROVE  \E H : /\ Extends(G, H, s.id) /\ HistoryOK(H, V) /\ NodeOK(r, H, V)
                  /\ H.done = G.done
                  /\ \A u \in Nat : \A x \in H.led[u] :
                        x \in G.led[u] \/ (x = s.id /\ u = s.term /\ ~Led(G, s.term))
  <1> DEFINE n == s.id
             t == s.term
             H == [G EXCEPT !.log = [u \in Nat |-> IF u = t THEN r.log ELSE G.log[u]],
                            !.led = [u \in Nat |-> IF u = t THEN G.led[u] \cup {n} ELSE G.led[u]],
                            !.took = [v \in Server |->
                                IF v = n THEN [u \in Nat |-> IF u = t THEN Len(r.log) ELSE G.took[v][u]]
                                         ELSE G.took[v]]]
  <1>1. /\ n \in Server /\ t \in Nat /\ s.log \in Logs /\ r.log \in Logs /\ G \in History
        /\ r.id = n /\ r.term = t /\ Len(r.log) \in Nat /\ Len(s.log) \in Nat
    BY PlainNodes DEF Reigns, HistoryOK
  <1>2. H \in History
    <2>1. \A v \in Server : G.took[v] \in [Nat -> Nat]
      BY <1>1 DEF History
    <2>2. [u \in Nat |-> IF u = t THEN Len(r.log) ELSE G.took[n][u]] \in [Nat -> Nat]
      BY <2>1, <1>1
    <2>3. \A u \in Nat : G.led[u] \in SUBSET Server /\ G.log[u] \in Logs
      BY <1>1, HistoryTypes
    <2>4. QED
      BY <2>1, <2>2, <2>3, <1>1 DEF History
  <1>3. /\ H.done = G.done /\ H.term = G.term /\ H.stood = G.stood /\ H.stand = G.stand
        /\ H.log[t] = r.log /\ H.led[t] = G.led[t] \cup {n} /\ H.took[n][t] = Len(r.log)
        /\ \A v \in Server : v # n => H.took[v] = G.took[v]
        /\ \A u \in Nat : u # t => /\ H.took[n][u] = G.took[n][u] /\ H.log[u] = G.log[u]
                                   /\ H.led[u] = G.led[u]
    BY <1>1 DEF History
  <1> HIDE DEF H
  <1>4. /\ G.term[n] = t /\ Sound(s.log, G) /\ UpTo(s.log, t) /\ Sorted(s.log)
        /\ \A u \in Nat : u > t => G.took[n][u] = 0 /\ n \notin G.led[u] /\ u \notin G.stood[n]
    BY <1>1, SoundLogsAreSorted DEF NodeOK, TermOf, LogOf, HistoryOK
  <1>5. /\ UpTo(r.log, t) /\ Sorted(r.log) /\ Len(s.log) <= Len(r.log)
        /\ \A T, N : Has(s.log, T, N) => Has(r.log, T, N)
        /\ \A i \in Nat : i <= Len(s.log) => Agree(s.log, r.log, i)
        /\ \A i \in 1 .. Len(r.log) : i > Len(s.log) => r.log[i].term = t
    <2>1. Lengthens(s.log, r.log, t)
      BY DEF Reigns
    <2>2. QED
      BY <2>1, <1>1, <1>4, LongerLogs DEF Lengthens
  <1>6. /\ G.led[t] \subseteq {n} /\ (G.log[t] = s.log \/ G.log[t] = <<>>)
        /\ Led(G, t) => G.log[t] = s.log
    BY <1>1 DEF Reigns, HistoryOK, Recorded, Led
  <1>7. \A v \in Server, u \in Nat : /\ G.took[v][u] \in Nat
                                     /\ G.took[v][u] <= Len(G.log[u]) /\ Len(G.log[u]) \in Nat
    BY <1>1, HistoryTypes DEF HistoryOK, Recorded
  <1>8. Len(G.log[t]) <= Len(r.log) /\ Agree(G.log[t], r.log, Len(G.log[t]))
    <2>1. CASE G.log[t] = s.log
      BY <2>1, <1>1, <1>5
    <2>2. CASE G.log[t] = <<>>
      BY <2>2, <1>1 DEF Agree
    <2>3. QED
      BY <2>1, <2>2, <1>6
  <1>9. Extends(G, H, n)
    <2>1. LogsGrow(G, H, n)
      <3> SUFFICES ASSUME NEW u \in Nat
                   PROVE  /\ Agree(G.log[u], H.log[u], Len(G.log[u]))
                          /\ Led(G, u) => \A i \in 1 .. Len(H.log[u]) :
                                             i > Len(G.log[u]) => H.log[u][i].term = u
                          /\ H.log[u] = G.log[u] \/ n \in H.led[u]
        BY DEF LogsGrow
      <3>1. CASE u = t
        BY <3>1, <1>1, <1>3, <1>5, <1>6, <1>8
      <3>2. CASE u # t
        BY <3>2, <1>1, <1>3, <1>7 DEF Agree
      <3>3. QED
        BY <3>1, <3>2
    <2>2. \A v \in Server, u \in Nat : /\ G.took[v][u] <= H.took[v][u]
                                       /\ u < G.term[v] => H.took[v][u] = G.took[v][u]
      <3> SUFFICES ASSUME NEW v \in Server, NEW u \in Nat
                   PROVE  /\ G.took[v][u] <= H.took[v][u]
                          /\ u < G.term[v] => H.took[v][u] = G.took[v][u]
        OBVIOUS
      <3>1. CASE v = n /\ u = t
        <4>1. /\ G.took[n][t] \in Nat /\ Len(G.log[t]) \in Nat
              /\ G.took[n][t] <= Len(G.log[t])
          BY <1>1, <1>7
        <4>2. G.took[n][t] <= Len(r.log) /\ ~(t < G.term[n])
          BY <4>1, <1>1, <1>4, <1>8
        <4>3. QED
          BY <4>2, <3>1, <1>3
      <3>2. CASE v # n \/ u # t
        <4>1. H.took[v][u] = G.took[v][u] /\ G.took[v][u] \in Nat
          BY <3>2, <1>3, <1>7
        <4>2. QED
          BY <4>1
      <3>3. QED
        BY <3>1, <3>2
    <2>3. \A v \in Server : G.term[v] <= H.term[v]
      BY <1>1, <1>3, HistoryTypes
    <2>4. \A u \in Nat : G.led[u] \subseteq H.led[u] /\ H.led[u] \subseteq G.led[u] \cup {n}
      BY <1>3
    <2>5. QED
      BY <2>1, <2>2, <2>3, <2>4, <1>1, <1>2, <1>3 DEF Extends
  <1>10. Sound(r.log, H)
    <2> SUFFICES ASSUME NEW i \in 1 .. Len(r.log)
                 PROVE  Agree(r.log, H.log[r.log[i].term], i)
      BY DEF Sound
    <2>1. CASE i <= Len(s.log)
      <3>1. i \in 1 .. Len(s.log) /\ i \in Nat /\ s.log[i].term \in Nat
        BY <2>1, <1>1, LogTypes
      <3>2. Agree(s.log, r.log, i)
        BY <2>1, <3>1, <1>5
      <3>3. s.log[i] = r.log[i]
        BY <3>1, <3>2 DEF Agree
      <3>4. Agree(s.log, H.log[r.log[i].term], i)
        BY <3>1, <3>3, <1>1, <1>4, <1>9, SoundnessGrows DEF Sound
      <3>5. QED
        BY <3>2, <3>4 DEF Agree
    <2>2. CASE i > Len(s.log)
      BY <2>2, <1>1, <1>3, <1>5 DEF Agree
    <2>3. QED
      BY <2>1, <2>2, <1>1
  <1>11. Recorded(H)
    <2> SUFFICES ASSUME NEW u \in Nat
                 PROVE  /\ Sound(H.log[u], H) /\ UpTo(H.log[u], u) /\ Sorted(H.log[u])
                        /\ ~Led(H, u) => H.log[u] = <<>>
                        /\ \A v \in Server : H.took[v][u] <= Len(H.log[u])
                        /\ \A x, y \in H.led[u] : x = y
      BY DEF Recorded
    <2>1. CASE u = t
      <3>1. \A v \in Server : H.took[v][t] <= Len(H.log[t])
        <4> SUFFICES ASSUME NEW v \in Server PROVE H.took[v][t] <= Len(r.log)
          BY <1>3
        <4>1. CASE v = n
          BY <4>1, <1>1, <1>3
        <4>2. CASE v # n
          BY <4>2, <1>1, <1>3, <1>7, <1>8
        <4>3. QED
          BY <4>1, <4>2
      <3>2. \A x, y \in H.led[t] : x = y
        BY <1>3, <1>6
      <3>3. Led(H, t)
        BY <1>3 DEF Led
      <3>4. QED
        BY <2>1, <3>1, <3>2, <3>3, <1>3, <1>5, <1>10
    <2>2. CASE u # t
      <3>1. H.log[u] = G.log[u] /\ H.led[u] = G.led[u] /\ \A v \in Server : H.took[v][u] = G.took[v][u]
        BY <2>2, <1>3
      <3>2. G.log[u] \in Logs /\ Sound(G.log[u], G)
        BY <1>1, HistoryTypes DEF HistoryOK, Recorded
      <3>3. Sound(H.log[u], H)
        BY <3>1, <3>2, <1>9, SoundnessGrows
      <3>4. QED
        BY <3>1, <3>3 DEF HistoryOK, Recorded, Led
    <2>3. QED
      BY <2>1, <2>2
  <1>12. Safe(H, V)
    <2> SUFFICES ASSUME NEW u \in Nat, NEW T \in Nat, NEW N \in Nat, Led(H, u), T < u, N > 0
                 PROVE  Old(H, T, N) \/ Has(H.log[u], T, N) \/ Never(H, T, N, V)
      BY DEF Safe
    <2>1. CASE Led(G, u)
      BY <2>1, <1>9, SafetyGrows DEF HistoryOK
    <2>2. CASE ~Led(G, u)
      <3>1. u = t
        BY <2>2, <1>3 DEF Led
      <3>2. n \notin G.led[t]
        BY <2>2, <3>1 DEF Led
      <3>3. Old(G, T, N) \/ Has(s.log, T, N) \/ Never(G, T, N, V)
        BY <3>1, <3>2 DEF Reigns
      <3>4. H.log[T] = G.log[T] /\ \A v \in Server : H.took[v][T] = G.took[v][T]
        BY <3>1, <1>1, <1>3
      <3>5. Old(G, T, N) => Old(H, T, N)
        BY <3>4 DEF Old
      <3>6. Never(G, T, N, V) => Never(H, T, N, V)
        BY <3>4, <1>3 DEF Never
      <3>7. QED
        BY <3>1, <3>3, <3>5, <3>6, <1>3, <1>5
    <2>3. QED
      BY <2>1, <2>2
  <1>13. HistoryOK(H, V)
    BY <1>2, <1>11, <1>12 DEF HistoryOK
  <1>14. LogOf(r, H)
    <2>1. Agree(r.log, H.log[t], H.took[n][t])
      BY <1>1, <1>3 DEF Agree
    <2>2. Persists(r, H)
      <3> SUFFICES ASSUME NEW T \in Nat, NEW N \in Nat, T <= t, N <= H.took[n][T],
                          Has(H.log[T], T, N)
                   PROVE  Has(r.log, T, N) \/ Overruled(H, t, T, N)
        BY <1>1 DEF Persists
      <3>1. CASE T = t
        BY <3>1, <1>3
      <3>2. CASE T # t
        <4>1. Has(s.log, T, N) \/ Overruled(G, t, T, N)
          BY <3>2, <1>3 DEF NodeOK, LogOf, Persists
        <4>2. t >= t
          BY <1>1
        <4>3. QED
          BY <4>1, <4>2, <1>1, <1>5, <1>9, OverruledGrows
      <3>3. QED
        BY <3>1, <3>2
    <2>3. QED
      BY <2>1, <2>2, <1>1, <1>5, <1>10 DEF LogOf
  <1>15. \A x \in {s.commit, s.applied, s.snap.index} :
            x \in Nat /\ x <= Len(s.log) /\ Settled(r.log, x, t, H, V)
    <2> SUFFICES ASSUME NEW x \in {s.commit, s.applied, s.snap.index}
                 PROVE  x \in Nat /\ x <= Len(s.log) /\ Settled(r.log, x, t, H, V)
      OBVIOUS
    <2>1. x \in Nat /\ Settled(s.log, x, t, G, V)
      BY PlainNodes DEF NodeOK, Settles
    <2>2. t >= t /\ x <= x /\ x <= Len(s.log)
      BY <2>1, <1>1 DEF Settled
    <2>3. Settled(s.log, x, t, H, V)
      BY <2>1, <2>2, <1>1, <1>9, SettledGrows
    <2>4. Agree(s.log, r.log, x)
      BY <2>1, <2>2, <1>5
    <2>5. QED
      BY <2>1, <2>2, <2>3, <2>4, <1>1, <1>2, SettledOnAgreement
  <1>16. Settles(r, H, V)
    BY <1>1, <1>15 DEF Settles, Reigns
  <1>17. Built(r)
    <2>1. s.building.index \in Nat /\ s.building.index <= s.applied
      BY PlainNodes DEF NodeOK, Built
    <2>2. s.building.index <= Len(s.log)
      BY <2>1, <1>1, <1>15
    <2>3. Agree(s.log, r.log, s.building.index)
      BY <2>1, <2>2, <1>5
    <2>4. s.building.index > 0 => s.log[s.building.index] = r.log[s.building.index]
      BY <2>1, <2>3 DEF Agree
    <2>5. QED
      BY <2>1, <2>4 DEF Built, NodeOK, Reigns
  <1>18. TermOf(r, H)
    BY <1>1, <1>3, <1>4 DEF TermOf
  <1>19. Stands(r, H)
    BY DEF Stands, Reigns
  <1>20. Leads(r, H)
    <2>1. \A p \in Server : r.match[p] <= H.took[p][t]
      <3> SUFFICES ASSUME NEW p \in Server PROVE r.match[p] <= H.took[p][t]
        OBVIOUS
      <3>1. r.match[p] \in Nat /\ G.took[p][t] \in Nat /\ H.took[p][t] \in Nat
        BY <1>1, <1>2, PlainNodes, HistoryTypes
      <3>2. r.match[p] <= G.took[p][t] /\ G.took[p][t] <= H.took[p][t]
        BY <1>1, <1>9 DEF Reigns, Extends
      <3>3. QED
        BY <3>1, <3>2
    <2>2. QED
      BY <2>1, <1>1, <1>3 DEF Leads
  <1>21. \A u \in Nat : \A x \in H.led[u] : x \in G.led[u] \/ (x = n /\ u = t /\ ~Led(G, t))
    <2>1. n \in G.led[t] \/ ~Led(G, t)
      BY DEF Reigns
    <2>2. QED
      BY <2>1, <1>3
  <1>22. QED
    BY <1>3, <1>9, <1>13, <1>14, <1>16, <1>17, <1>18, <1>19, <1>20, <1>21 DEF NodeOK

(* A leader counts up to i committed: a majority acknowledged its entry    *)
(* there, which is of its own term.                                        *)
Tallies(s, r, i, Q, G, V) ==
    /\ s.role = "Leader" /\ i \in 1 .. Len(s.log) /\ s.log[i].term = s.term
    /\ Q \in SUBSET Server /\ Majority(V, Q) /\ \A v \in Q : G.took[v][s.term] >= i
    /\ r.id = s.id /\ r.term = s.term /\ r.log = s.log /\ r.role = "Leader" /\ r.commit = i
    /\ r.applied = s.applied /\ r.snap = s.snap /\ r.building = s.building /\ r.match = s.match
Gains(s, i, G, H) ==
    /\ H.led = G.led
    /\ \A j \in Nat : \A e \in H.done[j] : e \in G.done[j] \/ (j \in 1 .. i /\ e = s.log[j])

LEMMA CommittingKeeps ==
    ASSUME NEW M, NEW s \in Node(M, {Nobody}), NEW r \in Node(M, {Nobody}),
           NEW V \in SUBSET Server, NEW G, HistoryOK(G, V), NodeOK(s, G, V),
           NEW i, NEW Q, Tallies(s, r, i, Q, G, V)
    PROVE  \E H : /\ Extends(G, H, s.id) /\ HistoryOK(H, V) /\ NodeOK(r, H, V)
                  /\ Gains(s, i, G, H)
  <1>0. /\ s.role = "Leader" /\ i \in 1 .. Len(s.log) /\ s.log[i].term = s.term
        /\ Q \in SUBSET Server /\ Majority(V, Q) /\ \A v \in Q : G.took[v][s.term] >= i
    BY DEF Tallies
  <1> DEFINE H == [G EXCEPT !.done = [j \in Nat |->
                       IF j \in 1 .. i THEN G.done[j] \cup {s.log[j]} ELSE G.done[j]]]
  <1>1. /\ s.log \in Logs /\ Len(s.log) \in Nat /\ G \in History /\ s.term \in Nat
        /\ s.id \in Server /\ s.commit \in Nat /\ s.applied \in Nat /\ s.snap.index \in Nat
    BY PlainNodes DEF HistoryOK
  <1>i. i \in Nat
    BY <1>0, <1>1
  <1>2. \A j \in Nat : j \in 1 .. i => s.log[j] \in Plain
    BY <1>0, <1>1, <1>i, LogTypes
  <1>3. H \in History
    <2>1. \A j \in Nat : G.done[j] \in SUBSET Plain
      BY <1>1, HistoryTypes
    <2>2. QED
      BY <2>1, <1>1, <1>2 DEF History
  <1>4. /\ H.log = G.log /\ H.led = G.led /\ H.took = G.took /\ H.term = G.term
        /\ H.stood = G.stood /\ H.stand = G.stand
        /\ \A j \in Nat : H.done[j] = IF j \in 1 .. i THEN G.done[j] \cup {s.log[j]} ELSE G.done[j]
    BY <1>1 DEF History
  <1> HIDE DEF H
  <1>5. Extends(G, H, s.id)
    <2>1. LogsGrow(G, H, s.id)
      BY <1>1, <1>4, HistoryTypes DEF LogsGrow, Agree
    <2>2. \A v \in Server : G.term[v] <= H.term[v] /\ \A u \in Nat : G.took[v][u] <= H.took[v][u]
      BY <1>1, <1>4, HistoryTypes
    <2>3. QED
      BY <2>1, <2>2, <1>1, <1>3, <1>4 DEF Extends
  <1>6. HistoryOK(H, V)
    <2>1. \A v \in Server, u \in Nat : H.took[v][u] <= Len(G.log[u])
      BY <1>4 DEF HistoryOK, Recorded
    <2>2. QED
      BY <2>1, <1>4, <1>5, RecordStays
  <1>7. /\ s.log = G.log[s.term] /\ s.id \in G.led[s.term]
        /\ G.took[s.id][s.term] = Len(s.log)
        /\ \A p \in Server : s.match[p] <= G.took[p][s.term]
    BY <1>0 DEF NodeOK, Leads
  <1>8. Settled(s.log, i, s.term, H, V)
    <2>1. Chosen(H, s.term, i, V)
      BY <1>0, <1>1, <1>4, <1>7 DEF Chosen, Has
    <2>2. Agree(s.log, H.log[s.term], i)
      BY <1>0, <1>1, <1>4, <1>7 DEF Agree
    <2>3. \A j \in 1 .. i : s.log[j] \in H.done[j]
      <3> SUFFICES ASSUME NEW j \in 1 .. i PROVE s.log[j] \in H.done[j]
        OBVIOUS
      <3>1. j \in Nat
        BY <1>i
      <3>2. QED
        BY <3>1, <1>4
    <2>4. i >= i /\ s.term <= s.term
      BY <1>1, <1>i
    <2>5. QED
      BY <2>1, <2>2, <2>3, <2>4, <1>0, <1>1, <1>i DEF Settled
  <1>9. /\ r.id = s.id /\ r.term = s.term /\ r.log = s.log /\ r.role = "Leader"
        /\ r.commit = i /\ r.applied = s.applied /\ r.snap = s.snap
        /\ r.building = s.building /\ r.match = s.match
    BY DEF Tallies
  <1>10. Settles(s, H, V)
    BY <1>5, SettlingGrows DEF NodeOK
  <1>11. Settles(r, H, V)
    BY <1>8, <1>9, <1>10 DEF Settles
  <1>12. LogOf(r, H)
    <2>1. Sound(s.log, H)
      BY <1>1, <1>5, SoundnessGrows DEF NodeOK, LogOf
    <2>2. Persists(s, H)
      BY <1>4, <1>5, PersistenceGrows DEF NodeOK, LogOf, HistoryOK
    <2>3. QED
      BY <2>1, <2>2, <1>4, <1>9 DEF NodeOK, LogOf, Persists
  <1>13. TermOf(r, H) /\ Built(r) /\ Stands(r, H) /\ Leads(r, H)
    BY <1>0, <1>4, <1>9 DEF NodeOK, TermOf, Built, Stands, Leads
  <1>14. Gains(s, i, G, H)
    BY <1>4 DEF Gains
  <1>15. QED
    BY <1>5, <1>6, <1>11, <1>12, <1>13, <1>14 DEF NodeOK

-----------------------------------------------------------------------------
(* A call leaves node s at r and the history at H.  Whoever is new among   *)
(* the leaders is the caller, at r, and whatever is newly committed is in  *)
(* r's log and counted.                                                    *)

Accounts(r, G, H) ==
    /\ \A u \in Nat : \A x \in H.led[u] :
          x \in G.led[u] \/ (x = r.id /\ u = r.term /\ r.role = "Leader")
    /\ \A j \in Nat : \A e \in H.done[j] :
          e \in G.done[j] \/ (r.role = "Leader" /\ j \in 1 .. r.commit /\ e = r.log[j])
Passes(s, r, G, H, V) ==
    /\ r.id = s.id /\ Extends(G, H, s.id) /\ HistoryOK(H, V) /\ NodeOK(r, H, V)
    /\ Accounts(r, G, H)
Quietly(s, r, G, H, V) ==
    /\ r.id = s.id /\ Extends(G, H, s.id) /\ HistoryOK(H, V) /\ NodeOK(r, H, V)
    /\ H.led = G.led /\ H.done = G.done
Says(out, G, V) == \A m \in out : MessageOK(m, G, V)
Fares(s, d, G, V) ==
    \E H : Passes(s, d.s, G, H, V) /\ Says(d.out, H, V)

LEMMA QuietPasses ==
    ASSUME NEW s, NEW r, NEW G, NEW H, NEW V, Quietly(s, r, G, H, V)
    PROVE  Passes(s, r, G, H, V)
  BY DEF Quietly, Passes, Accounts

LEMMA FaresOf ==
    ASSUME NEW s, NEW r, NEW out, NEW G, NEW H, NEW V, Passes(s, r, G, H, V), Says(out, H, V)
    PROVE  Fares(s, Does(r, out), G, V)
  BY DEF Fares, Does

LEMMA SaysNothing ==
    ASSUME NEW G, NEW V
    PROVE  Says({}, G, V)
  BY DEF Says

LEMMA FaresAlone ==
    ASSUME NEW s, NEW r, NEW G, NEW H, NEW V, Passes(s, r, G, H, V)
    PROVE  Fares(s, Only(r), G, V)
  BY FaresOf, SaysNothing DEF Only

LEMMA QuietlyThenFares ==
    ASSUME NEW s, NEW u, NEW d, NEW G, NEW H, NEW V, Quietly(s, u, G, H, V), Fares(u, d, H, V)
    PROVE  Fares(s, d, G, V)
  <1>1. PICK K : Passes(u, d.s, H, K, V) /\ Says(d.out, K, V)
    BY DEF Fares
  <1>2. Extends(G, K, s.id)
    BY <1>1, AdditionsCompose DEF Quietly, Passes
  <1>3. Accounts(d.s, G, K)
    BY <1>1 DEF Quietly, Passes, Accounts
  <1>4. Passes(s, d.s, G, K, V)
    BY <1>1, <1>2, <1>3 DEF Passes, Quietly
  <1>5. QED
    BY <1>1, <1>4 DEF Fares

LEMMA QuietlyTwice ==
    ASSUME NEW s, NEW u, NEW r, NEW G, NEW H, NEW K, NEW V,
           Quietly(s, u, G, H, V), Quietly(u, r, H, K, V)
    PROVE  Quietly(s, r, G, K, V)
  BY AdditionsCompose DEF Quietly

LEMMA RestsQuietly ==
    ASSUME NEW M, NEW s \in Node(M, {Nobody}), NEW r \in Node(M, {Nobody}), NEW V, NEW G,
           HistoryOK(G, V), NodeOK(s, G, V), Rests(s, r, G)
    PROVE  Quietly(s, r, G, G, V)
  <1>1. G \in History
    BY DEF HistoryOK
  <1>2. NodeOK(r, G, V) /\ Extends(G, G, s.id)
    BY <1>1, RestingKeeps, NothingIsAdded
  <1>3. QED
    BY <1>2 DEF Quietly, Rests

LEMMA RestingFares ==
    ASSUME NEW M, NEW s \in Node(M, {Nobody}), NEW r \in Node(M, {Nobody}), NEW V, NEW G,
           HistoryOK(G, V), NodeOK(s, G, V), Rests(s, r, G), NEW out, Says(out, G, V)
    PROVE  Fares(s, Does(r, out), G, V)
  BY RestsQuietly, QuietPasses, FaresOf

(* The end of a call, in which the caller changes little.                  *)
LEMMA PassesOn ==
    ASSUME NEW M, NEW s, NEW u \in Node(M, {Nobody}), NEW r \in Node(M, {Nobody}), NEW V,
           NEW G, NEW H, Passes(s, u, G, H, V), Rests(u, r, H),
           r.role = u.role, r.commit = u.commit
    PROVE  Passes(s, r, G, H, V)
  <1>1. H \in History
    BY DEF Passes, HistoryOK
  <1>2. NodeOK(r, H, V)
    BY <1>1, RestingKeeps DEF Passes
  <1>3. r.id = u.id /\ r.term = u.term /\ r.log = u.log
    BY DEF Rests
  <1>4. Accounts(r, G, H)
    BY <1>3 DEF Passes, Accounts
  <1>5. QED
    BY <1>2, <1>3, <1>4 DEF Passes

LEMMA SayingStays ==
    ASSUME NEW M, NEW out, \A m \in out : m \in MessageOf(M, {Nobody}),
           NEW G, NEW H, NEW n, Extends(G, H, n), NEW V, HistoryOK(G, V), Says(out, G, V)
    PROVE  Says(out, H, V)
  BY MessagesStay DEF Says, HistoryOK

(* A change that the logs and what is counted of them do not notice.       *)
Idles(s, r) ==
    /\ Keeps(s, r) /\ r.log = s.log /\ r.commit = s.commit /\ r.applied = s.applied
    /\ \A p \in Server : r.match[p] <= s.match[p]

LEMMA IdlingRests ==
    ASSUME NEW M, NEW s \in Node(M, {Nobody}), NEW r \in Node(M, {Nobody}), Idles(s, r), Built(s),
           NEW G
    PROVE  Rests(s, r, G)
  <1>1. /\ r.id = s.id /\ r.term = s.term /\ r.log = s.log /\ r.role = s.role /\ r.votes = s.votes
        /\ r.commit = s.commit /\ r.applied = s.applied /\ r.snap = s.snap
        /\ r.building = s.building /\ \A p \in Server : r.match[p] <= s.match[p]
    BY DEF Idles, Keeps
  <1>2. Built(r)
    BY <1>1 DEF Built
  <1>3. s.commit \in Nat /\ s.applied \in Nat /\ s.snap.index \in Nat
    BY PlainNodes
  <1>4. \A x \in {r.commit, r.applied, r.snap.index} :
          x <= s.commit \/ x <= s.applied \/ x <= s.snap.index
    BY <1>1, <1>3
  <1>5. QED
    BY <1>1, <1>2, <1>4 DEF Rests

LEMMA IdlingTwice ==
    ASSUME NEW M, NEW E, NEW s \in Node(M, E), NEW u \in Node(M, E), NEW r \in Node(M, E),
           Idles(s, u), Idles(u, r)
    PROVE  Idles(s, r)
  <1>1. Keeps(s, r)
    BY KeepsIsTransitive DEF Idles
  <1>2. \A p \in Server : s.match[p] \in Nat /\ u.match[p] \in Nat /\ r.match[p] \in Nat
    BY NodeTypes
  <1>3. \A p \in Server : r.match[p] <= s.match[p]
    BY <1>2 DEF Idles
  <1>4. QED
    BY <1>1, <1>3 DEF Idles

LEMMA StandingStillIdles ==
    ASSUME NEW M, NEW E, NEW s \in Node(M, E)
    PROVE  Idles(s, s)
  <1>1. \A p \in Server : s.match[p] \in Nat
    BY NodeTypes
  <1>2. Len(s.log) \in Nat
    BY NodeTypes
  <1>3. QED
    BY <1>1, <1>2 DEF Idles, Keeps

LEMMA ReloadIdles ==
    ASSUME NEW M, NEW E, Closed(M, E), NEW s \in Node(M, E)
    PROVE  Idles(s, Reload(s))
  <1>1. Reload(s) \in Node(M, E) /\ Keeps(s, Reload(s)) /\ Reload(s).log = s.log
    BY ReloadFacts
  <1> DEFINE at == Max(ConfigsTo(s, LastIndex(s)) \cup {s.snap.index})
             ms == MembersAt(s, at)
             dep == IF at > s.commit
                    THEN Everyone(MembersAt(s, at - 1)) \ (Everyone(ms) \cup {s.id}) ELSE {}
             r  == [s EXCEPT !.members = ms, !.membersAt = at, !.departing = dep]
  <1> HIDE DEF at, ms, dep
  <1>2. r.commit = s.commit /\ r.applied = s.applied /\ r.match = s.match
    BY DEF Node
  <1>3. s.match \in [Server -> Nat]
    BY NodeTypes
  <1>4. CASE s.role # "Leader"
    <2>1. Reload(s) = r
      BY <1>4, Zenon DEF Reload, r, at, ms, dep
    <2>2. QED
      BY <2>1, <1>1, <1>2, <1>3 DEF Idles
  <1>5. CASE s.role = "Leader"
    <2> DEFINE nx == [p \in Server |-> IF p \in Replicas(r) THEN [q \in Server |-> NextFor(s, q)][p] ELSE 0]
               mt == [p \in Server |-> IF p \in Replicas(r) THEN r.match[p] ELSE 0]
               pg == [p \in Server |-> IF p \in Replicas(r) THEN r.progress[p] ELSE Sent(0, 0)]
               q == [r EXCEPT !.next = nx, !.match = mt, !.progress = pg]
    <2>1. Reload(s) = q
      BY <1>5 DEF Reload, r, at, ms, dep
    <2>2. \A p \in Server : mt[p] <= s.match[p]
      BY <1>2, <1>3
    <2> HIDE DEF nx, mt, pg
    <2>3. q.commit = r.commit /\ q.applied = r.applied /\ q.match = mt
      BY DEF Node
    <2> HIDE DEF q, r
    <2>4. QED
      BY <2>1, <2>2, <2>3, <1>1, <1>2 DEF Idles
  <1>6. QED
    BY <1>4, <1>5

-----------------------------------------------------------------------------
(* What is sent.                                                           *)

LEMMA TermAtIs ==
    ASSUME NEW M, NEW E, NEW s \in Node(M, E), NEW i \in Nat,
           s.snap.index <= i, i <= Len(s.log)
    PROVE  TermAt(s, i) = IF i = 0 THEN 0 ELSE s.log[i].term
  <1>1. s.snap.index \in Nat /\ Len(s.log) \in Nat
    BY NodeTypes
  <1>2. QED
    BY <1>1 DEF TermAt, LastIndex

LEMMA LastTermIs ==
    ASSUME NEW M, NEW s \in Node(M, {Nobody}), Sized(s)
    PROVE  LastTerm(s) = LastT(s.log) /\ LastT(s.log) \in Nat
  <1>1. s.log \in Logs /\ Len(s.log) \in Nat
    BY PlainNodes
  <1>2. LastTerm(s) = IF Len(s.log) = 0 THEN 0 ELSE s.log[Len(s.log)].term
    BY <1>1, TermAtIs DEF LastTerm, LastIndex, Sized
  <1>3. s.log = <<>> <=> Len(s.log) = 0
    BY <1>1 DEF Logs
  <1>4. Len(s.log) > 0 => s.log[Len(s.log)].term \in Nat
    BY <1>1, LogTypes
  <1>5. QED
    BY <1>1, <1>2, <1>3, <1>4 DEF LastT

LEMMA OtherMessages ==
    ASSUME NEW m, NEW G, NEW V,
           \/ m.type \in {"PreVote", "PreVoteReply", "ReadIndex", "ReadIndexReply"}
           \/ m.type = "AppendReply" /\ ~m.success
           \/ m.type = "SnapshotReply" /\ ~m.done
           \/ m.type = "RequestVoteReply" /\ ~m.granted
    PROVE  MessageOK(m, G, V)
  BY DEF MessageOK

LEMMA ReadAnswersAreOK ==
    ASSUME NEW out, out \subseteq ReadAnswer, NEW G, NEW V
    PROVE  Says(out, G, V)
  <1>1. \A m \in out : m.type = "ReadIndexReply"
    BY DEF ReadAnswer
  <1>2. QED
    BY <1>1, OtherMessages DEF Says

LEMMA AppendEntriesIsOK ==
    ASSUME NEW M, NEW s \in Node(M, {Nobody}), NEW G, NEW V, HistoryOK(G, V), NodeOK(s, G, V),
           s.role = "Leader", NEW p \in Server, NEW entries,
           \A k \in 1 .. Len(entries) : /\ NextFor(s, p) - 1 + k <= Len(s.log)
                                        /\ entries[k] = s.log[NextFor(s, p) - 1 + k]
    PROVE  MessageOK(AppendEntries(s, p, entries), G, V)
  <1> DEFINE prev == NextFor(s, p) - 1
             pt == Max({TermAt(s, prev), 0})
             m == AppendEntries(s, p, entries)
  <1>1. /\ m.type = "AppendEntries" /\ m.from = s.id /\ m.term = s.term /\ m.prev = prev
        /\ m.prevTerm = pt /\ m.entries = entries /\ m.commit = s.commit
    BY DEF AppendEntries
  <1>2. s.log = G.log[s.term] /\ s.id \in G.led[s.term] /\ Settled(s.log, s.commit, s.term, G, V)
    BY DEF NodeOK, Leads, Settles
  <1>3. prev \in Nat /\ s.log \in Logs /\ Len(s.log) \in Nat /\ s.snap.index \in Nat
    BY NextForFacts, PlainNodes
  <1> HIDE DEF prev
  <1>4. TermAt(s, prev) \in Nat \cup {-1}
    BY <1>3, TermAtFacts
  <1>5. prev = 0 \/ pt = 0 \/ Has(s.log, pt, prev)
    <2>1. CASE TermAt(s, prev) = -1
      <3>1. pt = 0
        BY <2>1 DEF Max
      <3>2. QED
        BY <3>1
    <2>2. CASE TermAt(s, prev) # -1 /\ prev # 0
      <3>1. s.snap.index <= prev /\ prev <= Len(s.log)
        BY <2>2, <1>3, TermAtFacts
      <3>2. TermAt(s, prev) = s.log[prev].term /\ TermAt(s, prev) \in Nat
        BY <3>1, <2>2, <1>3, <1>4, TermAtIs
      <3>3. pt = TermAt(s, prev)
        BY <3>2 DEF Max
      <3>4. QED
        BY <3>1, <3>2, <3>3, <2>2, <1>3 DEF Has
    <2>3. QED
      BY <2>1, <2>2
  <1> HIDE DEF pt, m
  <1>6. AppendOK(m, G, V)
    <2>1. \A k \in 1 .. Len(m.entries) :
              m.prev + k <= Len(G.log[m.term]) /\ m.entries[k] = G.log[m.term][m.prev + k]
      BY <1>1, <1>2 DEF prev
    <2>2. QED
      BY <2>1, <1>1, <1>2, <1>5 DEF AppendOK
  <1>7. QED
    BY <1>1, <1>6 DEF MessageOK, m

LEMMA InstallSnapshotIsOK ==
    ASSUME NEW M, NEW s \in Node(M, {Nobody}), Sized(s), NEW G, NEW V, HistoryOK(G, V),
           NodeOK(s, G, V), s.role = "Leader", NEW p \in Server, s.snap.index > 0
    PROVE  MessageOK(InstallSnapshot(s, p), G, V)
  <1> DEFINE m == InstallSnapshot(s, p)
  <1>1. /\ m.type = "InstallSnapshot" /\ m.from = s.id /\ m.term = s.term
        /\ m.index = s.snap.index /\ m.lastTerm = TermAt(s, s.snap.index)
        /\ m.state = SubSeq(s.log, 1, s.snap.index)
    BY DEF InstallSnapshot
  <1> HIDE DEF m
  <1>2. /\ s.log = G.log[s.term] /\ s.id \in G.led[s.term]
        /\ Settled(s.log, s.snap.index, s.term, G, V)
    BY DEF NodeOK, Leads, Settles
  <1>3. s.log \in Logs /\ Len(s.log) \in Nat /\ s.snap.index \in Nat
    BY PlainNodes
  <1>4. s.snap.index <= Len(s.log)
    BY DEF Sized
  <1>5. TermAt(s, s.snap.index) = s.log[s.snap.index].term
    BY <1>3, <1>4, TermAtIs
  <1>6. Has(s.log, m.lastTerm, m.index)
    BY <1>1, <1>3, <1>4, <1>5 DEF Has
  <1>7. /\ Len(m.state) = s.snap.index
        /\ \A j \in 1 .. s.snap.index : m.state[j] = s.log[j]
    BY <1>1, <1>3, <1>4 DEF Logs
  <1>8. Agree(m.state, s.log, m.index)
    BY <1>1, <1>3, <1>4, <1>7 DEF Agree
  <1>9. InstallOK(m, G, V)
    BY <1>1, <1>2, <1>6, <1>8 DEF InstallOK
  <1>10. QED
    BY <1>1, <1>9 DEF MessageOK, m

LEMMA EntriesWithinAre ==
    ASSUME NEW M, NEW E, NEW s \in Node(M, E), NEW i \in Nat \ {0}
    PROVE  \A k \in 1 .. Len(EntriesWithin(s, i)) :
              i - 1 + k <= Len(s.log) /\ EntriesWithin(s, i)[k] = s.log[i - 1 + k]
  <1> DEFINE j == Min({LastIndex(s), i + Batch - 1})
  <1>1. s.log \in Seq(EntryOf(E)) /\ Len(s.log) \in Nat
    BY NodeTypes
  <1>2. \A a, b \in Int : Min({a, b}) \in Int /\ Min({a, b}) <= a
    BY DEF Min
  <1>3. i + Batch - 1 \in Int /\ LastIndex(s) \in Int
    BY <1>1, SizesAssumption DEF LastIndex
  <1>4. j \in Int /\ j <= Len(s.log)
    BY <1>2, <1>3 DEF LastIndex
  <1> HIDE DEF j
  <1>5. EntriesWithin(s, i) = SubSeq(s.log, i, j)
    BY DEF EntriesWithin, j
  <1>6. CASE i > j
    <2>1. EntriesWithin(s, i) = <<>>
      BY <1>4, <1>5, <1>6, <1>1
    <2>2. QED
      BY <2>1
  <1>7. CASE i <= j
    <2>1. /\ Len(EntriesWithin(s, i)) = j - i + 1
          /\ \A k \in 1 .. j - i + 1 : EntriesWithin(s, i)[k] = s.log[i + k - 1]
      BY <1>1, <1>4, <1>5, <1>7
    <2>2. \A k \in 1 .. j - i + 1 : i + k - 1 = i - 1 + k /\ i - 1 + k <= Len(s.log)
      BY <1>1, <1>4, <1>7
    <2>3. QED
      BY <2>1, <2>2
  <1>8. QED
    BY <1>4, <1>6, <1>7

LEMMA AppendMessageForIsOK ==
    ASSUME NEW M, NEW s \in Node(M, {Nobody}), Sized(s), NEW G, NEW V, HistoryOK(G, V),
           NodeOK(s, G, V), s.role = "Leader", NEW p \in Server
    PROVE  MessageOK(AppendMessageFor(s, p), G, V)
  <1>1. NextFor(s, p) \in Nat \ {0} /\ s.snap.index \in Nat
    BY NextForFacts, PlainNodes
  <1>2. CASE NextFor(s, p) <= s.snap.index
    <2>1. s.snap.index > 0
      BY <1>1, <1>2
    <2>2. QED
      BY <2>1, <1>2, InstallSnapshotIsOK DEF AppendMessageFor
  <1>3. CASE ~(NextFor(s, p) <= s.snap.index)
    <2> DEFINE es == EntriesWithin(s, NextFor(s, p))
    <2>1. \A k \in 1 .. Len(es) : /\ NextFor(s, p) - 1 + k <= Len(s.log)
                                  /\ es[k] = s.log[NextFor(s, p) - 1 + k]
      BY <1>1, EntriesWithinAre
    <2>2. AppendMessageFor(s, p) = AppendEntries(s, p, es)
      BY <1>3 DEF AppendMessageFor
    <2> HIDE DEF es
    <2>3. MessageOK(AppendEntries(s, p, es), G, V)
      BY <2>1, AppendEntriesIsOK
    <2>4. QED
      BY <2>2, <2>3
  <1>4. QED
    BY <1>2, <1>3

LEMMA RequestVoteIsOK ==
    ASSUME NEW M, NEW s \in Node(M, {Nobody}), Sized(s), NEW G, NEW V,
           NodeOK(s, G, V), s.role = "Candidate", NEW p
    PROVE  MessageOK(RequestVote(s, p), G, V)
  <1> DEFINE m == RequestVote(s, p)
  <1>1. /\ m.type = "RequestVote" /\ m.from = s.id /\ m.term = s.term
        /\ m.lastIndex = Len(s.log) /\ m.lastTerm = LastT(s.log)
    BY LastTermIs DEF RequestVote, LastIndex
  <1> HIDE DEF m
  <1>2. s.term \in G.stood[s.id] /\ G.stand[s.id][s.term] = s.log
    BY DEF NodeOK, Stands
  <1>3. RequestOK(m, G)
    BY <1>1, <1>2 DEF RequestOK
  <1>4. QED
    BY <1>1, <1>3 DEF MessageOK, m

LEMMA BroadcastAppendFares ==
    ASSUME NEW M, Closed(M, {Nobody}), NEW s, WellMade(s, M, {Nobody}), NEW G, NEW V,
           HistoryOK(G, V), NodeOK(s, G, V), s.role = "Leader"
    PROVE  LET d == BroadcastAppend(s) IN
           Idles(s, d.s) /\ NodeOK(d.s, G, V) /\ Rests(s, d.s, G) /\ Says(d.out, G, V)
  <1> DEFINE r == IF s.departing # {} /\ s.membersAt <= s.commit THEN Reload(s) ELSE s
             d == BroadcastAppend(s)
  <1>1. s \in Node(M, {Nobody}) /\ Built(s) /\ G \in History
    BY DEF WellMade, NodeOK, HistoryOK
  <1>2. d.s = r /\ d.out = {AppendMessageFor(r, p) : p \in Replicas(r)}
    BY DEF BroadcastAppend, Does
  <1>3. r \in Node(M, {Nobody}) /\ Idles(s, r)
    BY <1>1, ReloadFacts, ReloadIdles, StandingStillIdles
  <1>4. WellMade(r, M, {Nobody}) /\ r.role = "Leader"
    BY <1>2, <1>3, WhatIsKeptIsWellMade DEF Idles, Keeps
  <1> HIDE DEF d, r
  <1>5. Rests(s, r, G)
    BY <1>1, <1>3, IdlingRests
  <1>6. NodeOK(r, G, V)
    BY <1>1, <1>3, <1>5, RestingKeeps
  <1>7. \A p \in Replicas(r) : MessageOK(AppendMessageFor(r, p), G, V)
    BY <1>3, <1>4, <1>6, ReplicasFacts, AppendMessageForIsOK DEF WellMade
  <1>8. QED
    BY <1>2, <1>3, <1>5, <1>6, <1>7 DEF Says, d

-----------------------------------------------------------------------------
(* A leader counts what a majority holds, and an election.                 *)

LEMMA VotersStand ==
    ASSUME NEW V, NEW s \in Node(Standing(V), {Nobody}), NEW ids, HasQuorum(s, ids)
    PROVE  Voters(s) = V /\ Majority(V, ids)
  <1>1. s.members \in Standing(V)
    BY NodeTypes
  <1>2. Voters(s) = V
    BY <1>1 DEF HasQuorum, Voters, Standing, Nobody
  <1>3. QED
    BY <1>2 DEF HasQuorum, Majority

LEMMA MaybeCommitPasses ==
    ASSUME NEW V \in SUBSET Server, NEW s \in Node(Standing(V), {Nobody}), NEW G,
           HistoryOK(G, V), NodeOK(s, G, V), s.role = "Leader"
    PROVE  \E H : Passes(s, MaybeCommit(s), G, H, V) /\ H.led = G.led
  <1> DEFINE i == MajorityHolds(s)
             r == [s EXCEPT !.commit = i]
  <1>1. /\ G \in History /\ s.log \in Logs /\ Len(s.log) \in Nat /\ s.term \in Nat
        /\ s.commit \in Nat /\ s.snap.index \in Nat /\ s.id \in Server
        /\ s.match \in [Server -> Nat]
    BY PlainNodes DEF HistoryOK
  <1>2. i \in 0 .. Len(s.log)
    BY MajorityHoldsFacts
  <1>3. CASE ~(i > s.commit /\ TermAt(s, i) = s.term)
    <2>1. MaybeCommit(s) = s
      BY <1>3 DEF MaybeCommit
    <2>2. Extends(G, G, s.id)
      BY <1>1, NothingIsAdded
    <2>3. Passes(s, s, G, G, V)
      BY <2>2 DEF Passes, Accounts
    <2>4. QED
      BY <2>1, <2>3
  <1>4. CASE i > s.commit /\ TermAt(s, i) = s.term
    <2> DEFINE held(j) == {v \in Voters(s) : j <= IF v = s.id THEN LastIndex(s) ELSE s.match[v]}
               S == {j \in 0 .. LastIndex(s) : j = 0 \/ HasQuorum(s, held(j))}
               Q == held(i)
    <2>1. i \in 1 .. Len(s.log)
      BY <1>1, <1>2, <1>4
    <2>2. HasQuorum(s, Q)
      <3>1. S \in SUBSET Nat /\ 0 \in S /\ \A x \in S : x <= LastIndex(s)
        BY <1>1 DEF LastIndex
      <3>2. Max(S) \in S
        BY <1>1, <3>1, MaxFacts DEF LastIndex
      <3>3. i = Max(S)
        BY DEF MajorityHolds
      <3>4. i \in S
        BY <3>2, <3>3
      <3>5. QED
        BY <3>4, <2>1
    <2>3. Voters(s) = V /\ Majority(V, Q)
      BY <2>2, VotersStand
    <2>4. /\ G.took[s.id][s.term] = Len(s.log)
          /\ \A p \in Server : s.match[p] <= G.took[p][s.term]
      BY DEF NodeOK, Leads
    <2>5. \A v \in Server : G.took[v][s.term] \in Nat
      BY <1>1, HistoryTypes
    <2>6. Q \in SUBSET Server /\ \A v \in Q : G.took[v][s.term] >= i
      <3>1. Q \in SUBSET Server
        BY <2>3
      <3>2. \A v \in Q : i <= IF v = s.id THEN Len(s.log) ELSE s.match[v]
        BY DEF LastIndex
      <3>3. i \in Nat
        BY <2>1
      <3> HIDE DEF Q, i
      <3>4. ASSUME NEW v \in Q PROVE G.took[v][s.term] >= i
        <4>1. v \in Server /\ s.match[v] \in Nat /\ G.took[v][s.term] \in Nat
          BY <3>1, <2>5, <1>1
        <4>2. CASE v = s.id
          BY <4>1, <4>2, <3>2, <3>3, <2>4, <1>1
        <4>3. CASE v # s.id
          BY <4>1, <4>3, <3>2, <3>3, <2>4, <1>1
        <4>4. QED
          BY <4>2, <4>3
      <3>5. QED
        BY <3>1, <3>4
    <2>7. s.log[i].term = s.term
      <3>1. TermAt(s, i) # -1
        BY <1>4, <1>1
      <3>2. s.snap.index <= i
        BY <3>1, <2>1, <1>1 DEF TermAt
      <3>3. TermAt(s, i) = s.log[i].term
        BY <3>2, <2>1, <1>1, TermAtIs
      <3>4. QED
        BY <3>3, <1>4
    <2>8. MaybeCommit(s) = r
      BY <1>4 DEF MaybeCommit
    <2>9. r \in Node(Standing(V), {Nobody})
      BY <2>8, MaybeCommitFacts
    <2>a. r = [s EXCEPT !.commit = i]
      OBVIOUS
    <2> HIDE DEF i, Q, r
    <2> HIDE DEF held, S
    <2>11. /\ r.id = s.id /\ r.term = s.term /\ r.log = s.log /\ r.role = "Leader"
           /\ r.commit = i /\ r.applied = s.applied /\ r.snap = s.snap
           /\ r.building = s.building /\ r.match = s.match
      BY <2>a DEF Node
    <2>b. Tallies(s, r, i, Q, G, V)
      BY <2>1, <2>3, <2>6, <2>7, <2>11 DEF Tallies
    <2>10. PICK H : /\ Extends(G, H, s.id) /\ HistoryOK(H, V) /\ NodeOK(r, H, V)
                    /\ Gains(s, i, G, H)
      BY <2>b, <2>9, CommittingKeeps
    <2>12. Passes(s, r, G, H, V)
      <3>1. Accounts(r, G, H)
        BY <2>10, <2>11 DEF Accounts, Gains
      <3>2. QED
        BY <3>1, <2>10, <2>11 DEF Passes
    <2>13. QED
      BY <2>8, <2>10, <2>12 DEF Gains
  <1>5. QED
    BY <1>3, <1>4

(* What follows a step that adds to no count.                              *)
LEMMA CommitsAfter ==
    ASSUME NEW V \in SUBSET Server, NEW s, NEW u \in Node(Standing(V), {Nobody}), NEW G, NEW H,
           Passes(s, u, G, H, V), H.done = G.done, u.role = "Leader"
    PROVE  \E K : Passes(s, MaybeCommit(u), G, K, V)
  <1> DEFINE r == MaybeCommit(u)
  <1>1. PICK K : Passes(u, r, H, K, V) /\ K.led = H.led
    BY MaybeCommitPasses DEF Passes
  <1>2. Keeps(u, r)
    BY MaybeCommitFacts
  <1> HIDE DEF r
  <1>3. r.id = u.id /\ r.term = u.term /\ r.role = "Leader"
    BY <1>2 DEF Keeps
  <1>4. Extends(G, K, s.id)
    BY <1>1, AdditionsCompose DEF Passes
  <1>5. Accounts(r, G, K)
    <2>1. ASSUME NEW t \in Nat, NEW x \in K.led[t]
          PROVE  x \in G.led[t] \/ (x = r.id /\ t = r.term /\ r.role = "Leader")
      BY <2>1, <1>1, <1>3 DEF Passes, Accounts
    <2>2. ASSUME NEW j \in Nat, NEW e \in K.done[j]
          PROVE  e \in G.done[j] \/ (r.role = "Leader" /\ j \in 1 .. r.commit /\ e = r.log[j])
      BY <2>2, <1>1 DEF Passes, Accounts
    <2>3. QED
      BY <2>1, <2>2 DEF Accounts
  <1>6. Passes(s, r, G, K, V)
    BY <1>1, <1>3, <1>4, <1>5 DEF Passes
  <1>7. QED
    BY <1>6 DEF r

LEMMA BroadcastsAfter ==
    ASSUME NEW M, Closed(M, {Nobody}), NEW s, NEW u, WellMade(u, M, {Nobody}), NEW V, NEW G,
           NEW H, Passes(s, u, G, H, V), u.role = "Leader"
    PROVE  Fares(s, BroadcastAppend(u), G, V)
  <1> DEFINE d == BroadcastAppend(u)
  <1>1. d.s \in Node(M, {Nobody}) /\ u \in Node(M, {Nobody})
    BY BroadcastAppendFacts DEF WellMade
  <1>2. Idles(u, d.s) /\ Rests(u, d.s, H) /\ Says(d.out, H, V)
    BY BroadcastAppendFares DEF Passes
  <1> HIDE DEF d
  <1>3. d.s.role = u.role /\ d.s.commit = u.commit
    BY <1>2 DEF Idles, Keeps
  <1>4. Passes(s, d.s, G, H, V)
    BY <1>1, <1>2, <1>3, PassesOn
  <1>5. QED
    BY <1>2, <1>4 DEF Fares, d

(* Nobody but the caller has led the term it leads after the call.         *)
Alone(d, G) == d.s.role = "Leader" => \A x \in G.led[d.s.term] : x = d.s.id

LEMMA BecomeLeaderFacts ==
    ASSUME NEW M, NEW E, Closed(M, E), NEW s, WellMade(s, M, E), s.role = "Candidate"
    PROVE  \E u, b :
               /\ u \in Node(M, E) /\ u.id = s.id /\ u.term = s.term /\ u.role = "Leader"
               /\ u.log = Append(s.log, DataEntry(s.term, Noop))
               /\ u.match = [p \in Server |-> 0]
               /\ u.commit = s.commit /\ u.applied = s.applied /\ u.snap = s.snap
               /\ u.building = s.building
               /\ MaybeCommit(u) \in Node(M, E) /\ WellMade(b, M, E)
               /\ Idles(MaybeCommit(u), b) /\ Keeps(u, MaybeCommit(u))
               /\ BecomeLeader(s) = BroadcastAppend(b)
               /\ BecomeLeader(s).s.role = "Leader" /\ BecomeLeader(s).s.term = s.term
               /\ BecomeLeader(s).s.id = s.id
  <1> DEFINE pg == [p \in Server |-> Sent(0, 0)]
             zero == [p \in Server |-> 0]
             nx == [p \in Server |-> IF p \in Replicas(s) THEN LastIndex(s) + 1 ELSE 0]
             r == [s EXCEPT !.role = "Leader", !.leader = s.id, !.active = {}, !.remote = {},
                       !.progress = pg, !.acked = zero, !.next = nx, !.match = zero]
             e == DataEntry(s.term, Noop)
             lg == Append(s.log, e)
             u == [r EXCEPT !.log = lg]
             a == MaybeCommit(u)
             b == [a EXCEPT !.start = LastIndex(a)]
  <1>1. /\ s \in Node(M, E) /\ s.term \in Nat /\ s.term > 0 /\ s.id \in Server
        /\ LastIndex(s) \in Nat /\ s.log \in Seq(EntryOf(E)) /\ Len(s.log) \in Nat
    BY NodeTypes DEF WellMade, Termed, Office, LastIndex
  <1>2. pg \in [Server -> Sending] /\ zero \in [Server -> Nat] /\ nx \in [Server -> Nat]
    BY <1>1, SizesAssumption DEF Sent, Sending
  <1>3. e \in EntryOf(E) /\ e.members = Nobody
    BY <1>1 DEF DataEntry, EntryOf, Closed
  <1>4. lg \in Seq(EntryOf(E)) /\ Len(lg) >= Len(s.log)
    BY <1>1, <1>3
  <1>a. BecomeLeader(s) = BroadcastAppend(b)
    <2>1. AppendLocal(r, e) = MaybeCommit([r EXCEPT !.log = Append(@, e)])
      BY <1>3 DEF AppendLocal
    <2>2. r.log = s.log
      BY <1>1 DEF Node
    <2>3. [r EXCEPT !.log = Append(@, e)] = u
      BY <2>2
    <2>4. QED
      BY <2>1, <2>3 DEF BecomeLeader
  <1> HIDE DEF pg, zero, nx, e, lg
  <1>5. r \in Node(M, E)
    BY <1>1, <1>2 DEF Node, Role, Maybe
  <1>6. /\ r.id = s.id /\ r.term = s.term /\ r.match = zero
        /\ r.snap = s.snap /\ r.incoming = s.incoming /\ r.building = s.building
        /\ r.log = s.log /\ r.role = "Leader" /\ r.commit = s.commit /\ r.applied = s.applied
    BY <1>1 DEF Node
  <1> HIDE DEF r
  <1>7. WellMade(r, M, E)
    <2>1. Sized(r) /\ Termed(r) /\ Whole(r) /\ Begun(r)
      BY <1>1, <1>6 DEF Sized, Termed, Whole, Begun, WellMade
    <2>2. QED
      BY <2>1, <1>5 DEF WellMade
  <1>8. u \in Node(M, E)
    BY <1>4, <1>5 DEF Node
  <1>9. /\ u.id = r.id /\ u.term = r.term /\ u.match = r.match /\ u.boot = r.boot
        /\ u.votedFor = r.votedFor /\ u.votes = r.votes
        /\ u.snap = r.snap /\ u.incoming = r.incoming /\ u.building = r.building
        /\ u.log = lg /\ u.role = r.role /\ u.commit = r.commit /\ u.applied = r.applied
    BY <1>5 DEF Node
  <1> HIDE DEF u
  <1>10. WellMade(u, M, E)
    <2>1. Keeps(r, u)
      BY <1>4, <1>6, <1>9 DEF Keeps
    <2>2. QED
      BY <2>1, <1>7, <1>8, WhatIsKeptIsWellMade
  <1>11. a \in Node(M, E) /\ Keeps(u, a)
    BY <1>8, MaybeCommitFacts
  <1> HIDE DEF a
  <1>12. WellMade(a, M, E) /\ LastIndex(a) \in Nat
    BY <1>10, <1>11, WhatIsKeptIsWellMade, NodeTypes DEF LastIndex
  <1>13. b \in Node(M, E)
    BY <1>11, <1>12 DEF Node
  <1>14. /\ b.id = a.id /\ b.boot = a.boot /\ b.term = a.term /\ b.votedFor = a.votedFor
         /\ b.role = a.role /\ b.votes = a.votes /\ b.snap = a.snap
         /\ b.incoming = a.incoming /\ b.building = a.building /\ b.log = a.log
         /\ b.commit = a.commit /\ b.applied = a.applied /\ b.match = a.match
    BY <1>11 DEF Node
  <1> HIDE DEF b
  <1>15. Idles(a, b)
    <2>1. \A p \in Server : a.match[p] \in Nat
      BY <1>11, NodeTypes
    <2>2. Len(a.log) \in Nat
      BY <1>11, NodeTypes
    <2>3. QED
      BY <2>1, <2>2, <1>14 DEF Idles, Keeps
  <1>16. WellMade(b, M, E)
    BY <1>12, <1>13, <1>15, WhatIsKeptIsWellMade DEF Idles
  <1>17. Keeps(b, BroadcastAppend(b).s)
    BY <1>16, BroadcastAppendFacts
  <1>18. /\ BroadcastAppend(b).s.role = "Leader" /\ BroadcastAppend(b).s.term = s.term
         /\ BroadcastAppend(b).s.id = s.id
    BY <1>17, <1>14, <1>11, <1>9, <1>6 DEF Keeps
  <1>19. QED
    <2>1. /\ u.log = Append(s.log, DataEntry(s.term, Noop))
          /\ u.match = [p \in Server |-> 0] /\ a = MaybeCommit(u)
      BY <1>6, <1>9 DEF a, lg, e, zero
    <2>2. BecomeLeader(s) = BroadcastAppend(b)
      BY <1>a
    <2> WITNESS u, b
    <2>3. QED
      BY <2>1, <2>2, <1>6, <1>8, <1>9, <1>11, <1>15, <1>16, <1>18

LEMMA BecomeLeaderFares ==
    ASSUME NEW V \in SUBSET Server, NEW s, WellMade(s, Standing(V), {Nobody}), NEW G,
           HistoryOK(G, V), NodeOK(s, G, V), s.role = "Candidate", HasQuorum(s, s.votes),
           Alone(BecomeLeader(s), G)
    PROVE  Fares(s, BecomeLeader(s), G, V)
  <1> DEFINE M == Standing(V)
             e == DataEntry(s.term, Noop)
  <1>1. Closed(M, {Nobody}) /\ s \in Node(M, {Nobody})
    BY StandingIsClosed DEF WellMade
  <1>2. PICK u, b :
            /\ u \in Node(M, {Nobody}) /\ u.id = s.id /\ u.term = s.term /\ u.role = "Leader"
            /\ u.log = Append(s.log, e) /\ u.match = [p \in Server |-> 0]
            /\ u.commit = s.commit /\ u.applied = s.applied /\ u.snap = s.snap
            /\ u.building = s.building
            /\ MaybeCommit(u) \in Node(M, {Nobody}) /\ WellMade(b, M, {Nobody})
            /\ Idles(MaybeCommit(u), b) /\ Keeps(u, MaybeCommit(u))
            /\ BecomeLeader(s) = BroadcastAppend(b)
            /\ BecomeLeader(s).s.role = "Leader" /\ BecomeLeader(s).s.term = s.term
            /\ BecomeLeader(s).s.id = s.id
    BY <1>1, BecomeLeaderFacts
  <1>3. /\ G \in History /\ s.log \in Logs /\ Len(s.log) \in Nat /\ s.term \in Nat
        /\ s.id \in Server
    BY <1>1, PlainNodes DEF HistoryOK
  <1>4. ~Led(G, s.term)
    <2>1. s.id \notin G.led[s.term]
      BY DEF NodeOK, Stands
    <2>2. \A x \in G.led[s.term] : x = s.id
      BY <1>2 DEF Alone
    <2>3. QED
      BY <2>1, <2>2 DEF Led
  <1>5. Majority(V, s.votes)
    BY <1>1, VotersStand
  <1>6. \A T, N \in Nat : T < s.term /\ N > 0
            => Old(G, T, N) \/ Has(s.log, T, N) \/ Never(G, T, N, V)
    BY <1>1, <1>4, <1>5, ElectionIsSafe
  <1>7. Lengthens(s.log, u.log, s.term)
    <2>1. e.term = s.term
      BY DEF DataEntry
    <2> HIDE DEF e
    <2>2. /\ Len(u.log) = Len(s.log) + 1 /\ u.log[Len(s.log) + 1] = e
          /\ \A i \in 1 .. Len(s.log) : u.log[i] = s.log[i]
      BY <1>2, <1>3 DEF Logs
    <2>3. QED
      BY <2>1, <2>2, <1>3 DEF Lengthens, Agree
  <1>8. \A p \in Server : u.match[p] <= G.took[p][s.term]
    <2>1. \A p \in Server : G.took[p][s.term] \in Nat
      BY <1>3, HistoryTypes
    <2>2. QED
      BY <2>1, <1>2
  <1>9. Reigns(s, u, G, V)
    BY <1>2, <1>4, <1>6, <1>7, <1>8 DEF Reigns
  <1>10. PICK H : /\ Extends(G, H, s.id) /\ HistoryOK(H, V) /\ NodeOK(u, H, V)
                  /\ H.done = G.done
                  /\ \A t \in Nat : \A x \in H.led[t] :
                        x \in G.led[t] \/ (x = s.id /\ t = s.term /\ ~Led(G, s.term))
    BY <1>1, <1>2, <1>9, ReigningKeeps
  <1>11. Passes(s, u, G, H, V)
    <2>1. Accounts(u, G, H)
      BY <1>2, <1>10 DEF Accounts
    <2>2. QED
      BY <2>1, <1>2, <1>10 DEF Passes
  <1>12. PICK K : Passes(s, MaybeCommit(u), G, K, V)
    BY <1>2, <1>10, <1>11, CommitsAfter
  <1>13. Passes(s, b, G, K, V)
    <2>1. Built(MaybeCommit(u)) /\ b \in Node(M, {Nobody})
      BY <1>2, <1>12 DEF Passes, NodeOK, WellMade
    <2>2. Rests(MaybeCommit(u), b, K)
      BY <2>1, <1>2, IdlingRests
    <2>3. QED
      BY <2>1, <2>2, <1>2, <1>12, PassesOn DEF Idles, Keeps
  <1>14. b.role = "Leader"
    BY <1>2 DEF Idles, Keeps
  <1>15. Fares(s, BroadcastAppend(b), G, V)
    BY <1>1, <1>2, <1>13, <1>14, BroadcastsAfter
  <1>16. QED
    BY <1>2, <1>15

-----------------------------------------------------------------------------
(* Elections, with the logs.                                               *)

Sits(s, r) ==
    /\ r.id = s.id /\ r.term = s.term /\ r.log = s.log /\ r.commit = s.commit
    /\ r.applied = s.applied /\ r.snap = s.snap /\ r.building = s.building
    /\ r.role \in Office => /\ r.role = s.role /\ r.votes = s.votes
                            /\ \A p \in Server : r.match[p] <= s.match[p]

LEMMA SittingRests ==
    ASSUME NEW M, NEW s \in Node(M, {Nobody}), NEW r \in Node(M, {Nobody}), Sits(s, r), Built(s),
           NEW G
    PROVE  Rests(s, r, G)
  <1>1. Built(r)
    BY DEF Built, Sits
  <1>2. s.commit \in Nat /\ s.applied \in Nat /\ s.snap.index \in Nat
    BY PlainNodes
  <1>3. \A x \in {r.commit, r.applied, r.snap.index} :
          x <= s.commit \/ x <= s.applied \/ x <= s.snap.index
    BY <1>2 DEF Sits
  <1>4. QED
    BY <1>1, <1>3 DEF Rests, Sits, Office

LEMMA SittingFares ==
    ASSUME NEW M, NEW s \in Node(M, {Nobody}), NEW r \in Node(M, {Nobody}), NEW V, NEW G,
           HistoryOK(G, V), NodeOK(s, G, V), Sits(s, r), NEW out, Says(out, G, V)
    PROVE  Fares(s, Does(r, out), G, V)
  <1>1. Rests(s, r, G)
    BY SittingRests DEF NodeOK
  <1>2. QED
    BY <1>1, RestingFares

LEMMA ItselfSits ==
    ASSUME NEW M, NEW E, NEW s \in Node(M, E)
    PROVE  Sits(s, s)
  <1>1. \A p \in Server : s.match[p] \in Nat
    BY NodeTypes
  <1>2. QED
    BY <1>1 DEF Sits

LEMMA IdlingSits ==
    ASSUME NEW s, NEW r, Idles(s, r)
    PROVE  Sits(s, r)
  BY DEF Idles, Keeps, Sits

(* become_follower: the term may move up.                                  *)
LEMMA BecomeFollowerQuietly ==
    ASSUME NEW M, NEW s, WellMade(s, M, {Nobody}), NEW G, NEW V, HistoryOK(G, V),
           NodeOK(s, G, V), NEW t \in Nat, t >= s.term
    PROVE  \E H : Quietly(s, BecomeFollower(s, t), G, H, V)
  <1> DEFINE r == BecomeFollower(s, t)
  <1>1. s \in Node(M, {Nobody}) /\ r \in Node(M, {Nobody}) /\ s.term \in Nat
    BY BecomeFollowerFacts, NodeTypes DEF WellMade
  <1>2. /\ r.id = s.id /\ r.term = t /\ r.log = s.log /\ r.commit = s.commit
        /\ r.applied = s.applied /\ r.snap = s.snap /\ r.building = s.building
        /\ r.role = "Follower"
    BY <1>1 DEF BecomeFollower, Node
  <1> HIDE DEF r
  <1>3. CASE t = s.term
    <2>1. Sits(s, r)
      BY <1>2, <1>3 DEF Sits, Office
    <2>2. Rests(s, r, G)
      BY <2>1, <1>1, SittingRests DEF NodeOK
    <2>3. QED
      BY <2>2, <1>1, RestsQuietly DEF r
  <1>4. CASE t > s.term
    <2>1. Built(r)
      BY <1>2 DEF Built, NodeOK
    <2>2. s.commit \in Nat /\ s.applied \in Nat /\ s.snap.index \in Nat
      BY <1>1, PlainNodes
    <2>3. Advances(s, r)
      BY <2>1, <2>2, <1>2, <1>4 DEF Advances
    <2>4. PICK H : /\ Extends(G, H, s.id) /\ HistoryOK(H, V) /\ NodeOK(r, H, V)
                   /\ H.led = G.led /\ H.done = G.done
      BY <2>3, <1>1, AdvancingKeeps
    <2>5. Quietly(s, r, G, H, V)
      BY <2>4, <1>2 DEF Quietly
    <2>6. QED
      BY <2>5 DEF r
  <1>5. QED
    BY <1>1, <1>3, <1>4

LEMMA UptodateQuietly ==
    ASSUME NEW M, NEW s, WellMade(s, M, {Nobody}), NEW G, NEW V, HistoryOK(G, V),
           NodeOK(s, G, V), NEW m, m.term \in Nat
    PROVE  \E H : Quietly(s, Uptodate(s, m), G, H, V)
  <1>1. s \in Node(M, {Nobody}) /\ s.term \in Nat /\ Built(s)
    BY NodeTypes DEF WellMade, NodeOK
  <1>2. CASE m.term > s.term
    <2>1. m.term >= s.term
      BY <1>1, <1>2
    <2>2. QED
      BY <2>1, <1>2, BecomeFollowerQuietly DEF Uptodate
  <1>3. CASE ~(m.term > s.term)
    <2>1. Quietly(s, s, G, G, V)
      BY <1>1, ItselfSits, SittingRests, RestsQuietly
    <2>2. QED
      BY <2>1, <1>3 DEF Uptodate
  <1>4. QED
    BY <1>2, <1>3

LEMMA OnlySits ==
    ASSUME NEW M, NEW s \in Node(M, {Nobody}), NEW r \in Node(M, {Nobody}), NEW V, NEW G,
           HistoryOK(G, V), NodeOK(s, G, V), Sits(s, r)
    PROVE  Fares(s, Only(r), G, V)
  BY SittingFares, SaysNothing DEF Only

LEMMA OnlyItself ==
    ASSUME NEW M, NEW s \in Node(M, {Nobody}), NEW V, NEW G, HistoryOK(G, V), NodeOK(s, G, V)
    PROVE  Fares(s, Only(s), G, V)
  BY OnlySits, ItselfSits

LEMMA BecomeCandidateFares ==
    ASSUME NEW V \in SUBSET Server, NEW s, WellMade(s, Standing(V), {Nobody}), NEW G,
           HistoryOK(G, V), NodeOK(s, G, V), Alone(BecomeCandidate(s), G)
    PROVE  Fares(s, BecomeCandidate(s), G, V)
  <1> DEFINE M == Standing(V)
             r == [s EXCEPT !.role = "Candidate", !.leader = Nil, !.remote = {},
                       !.term = NextTerm(s), !.votedFor = s.id, !.votes = {s.id}]
             out == {RequestVote(r, p) : p \in Peers(r)}
  <1>1. s \in Node(M, {Nobody}) /\ s.term \in Nat /\ s.id \in Server /\ Closed(M, {Nobody})
    BY NodeTypes, StandingIsClosed DEF WellMade
  <1>2. NextTerm(s) = s.term + 1 /\ NextTerm(s) \in Nat
    BY <1>1 DEF NextTerm
  <1>3. r \in Node(M, {Nobody})
    BY <1>1, <1>2 DEF Node, Role, Maybe
  <1>4. /\ r.id = s.id /\ r.term = s.term + 1 /\ r.votes = {s.id} /\ r.snap = s.snap
        /\ r.incoming = s.incoming /\ r.building = s.building /\ r.log = s.log
        /\ r.role = "Candidate" /\ r.commit = s.commit /\ r.applied = s.applied
    BY <1>1, <1>2 DEF Node
  <1>5. BecomeCandidate(s) = IF HasQuorum(r, r.votes) THEN BecomeLeader(r) ELSE Does(r, out)
    BY DEF BecomeCandidate
  <1> HIDE DEF r
  <1>6. WellMade(r, M, {Nobody})
    <2>1. Sized(r) /\ Termed(r) /\ Whole(r) /\ Begun(r)
      BY <1>1, <1>4 DEF Sized, Termed, Whole, Begun, WellMade
    <2>2. QED
      BY <2>1, <1>3 DEF WellMade
  <1>7. Advances(s, r)
    <2>1. Built(r)
      BY <1>4 DEF Built, NodeOK
    <2>2. s.commit \in Nat /\ s.applied \in Nat /\ s.snap.index \in Nat
      BY <1>1, PlainNodes
    <2>3. QED
      BY <2>1, <2>2, <1>1, <1>4 DEF Advances
  <1>8. PICK H : /\ Extends(G, H, s.id) /\ HistoryOK(H, V) /\ NodeOK(r, H, V)
                 /\ H.led = G.led /\ H.done = G.done
    BY <1>1, <1>3, <1>7, AdvancingKeeps
  <1>9. Quietly(s, r, G, H, V)
    BY <1>4, <1>8 DEF Quietly
  <1>10. Fares(r, BecomeCandidate(s), H, V)
    <2>1. CASE HasQuorum(r, r.votes)
      <3>1. Alone(BecomeLeader(r), H)
        BY <2>1, <1>5, <1>8 DEF Alone
      <3>2. QED
        BY <3>1, <2>1, <1>4, <1>5, <1>6, <1>8, BecomeLeaderFares
    <2>2. CASE ~HasQuorum(r, r.votes)
      <3>1. \A p : MessageOK(RequestVote(r, p), H, V)
        BY <1>3, <1>4, <1>6, <1>8, RequestVoteIsOK DEF WellMade
      <3>2. Says(out, H, V)
        BY <3>1 DEF Says
      <3>3. QED
        BY <3>2, <2>2, <1>3, <1>5, <1>8, ItselfSits, SittingFares
    <2>3. QED
      BY <2>1, <2>2
  <1>11. QED
    BY <1>9, <1>10, QuietlyThenFares

LEMMA BecomePreCandidateFares ==
    ASSUME NEW V \in SUBSET Server, NEW s, WellMade(s, Standing(V), {Nobody}), NEW G,
           HistoryOK(G, V), NodeOK(s, G, V), Alone(BecomePreCandidate(s), G)
    PROVE  Fares(s, BecomePreCandidate(s), G, V)
  <1> DEFINE M == Standing(V)
             r == [s EXCEPT !.role = "PreCandidate", !.leader = Nil, !.remote = {},
                       !.votes = {s.id}]
             out == {PreVote(r, p) : p \in Peers(r)}
  <1>1. s \in Node(M, {Nobody}) /\ s.id \in Server /\ Built(s)
    BY NodeTypes DEF WellMade, NodeOK
  <1>2. r \in Node(M, {Nobody})
    BY <1>1 DEF Node, Role, Maybe
  <1>3. /\ r.id = s.id /\ r.term = s.term /\ r.snap = s.snap
        /\ r.incoming = s.incoming /\ r.building = s.building /\ r.log = s.log
        /\ r.role = "PreCandidate" /\ r.commit = s.commit /\ r.applied = s.applied
    BY <1>1 DEF Node
  <1>4. BecomePreCandidate(s) = IF HasQuorum(r, r.votes) THEN BecomeCandidate(r) ELSE Does(r, out)
    BY DEF BecomePreCandidate
  <1> HIDE DEF r
  <1>5. WellMade(r, M, {Nobody})
    <2>1. Sized(r) /\ Termed(r) /\ Whole(r) /\ Begun(r)
      BY <1>1, <1>3 DEF Sized, Termed, Whole, Begun, WellMade, Office
    <2>2. QED
      BY <2>1, <1>2 DEF WellMade
  <1>6. Sits(s, r)
    BY <1>3 DEF Sits, Office
  <1>7. Quietly(s, r, G, G, V)
    BY <1>1, <1>2, <1>6, SittingRests, RestsQuietly
  <1>8. NodeOK(r, G, V)
    BY <1>7 DEF Quietly
  <1>9. CASE HasQuorum(r, r.votes)
    <2>1. Fares(r, BecomeCandidate(r), G, V)
      BY <1>4, <1>5, <1>8, <1>9, BecomeCandidateFares
    <2>2. QED
      BY <2>1, <1>4, <1>7, <1>9, QuietlyThenFares
  <1>10. CASE ~HasQuorum(r, r.votes)
    <2>1. Says(out, G, V)
      <3>1. \A m \in out : m.type = "PreVote"
        BY DEF PreVote
      <3>2. QED
        BY <3>1, OtherMessages DEF Says
    <2>2. QED
      BY <2>1, <1>1, <1>2, <1>4, <1>6, <1>10, SittingFares
  <1>11. QED
    BY <1>9, <1>10

LEMMA CampaignFares ==
    ASSUME NEW V \in SUBSET Server, NEW s, WellMade(s, Standing(V), {Nobody}), NEW G,
           HistoryOK(G, V), NodeOK(s, G, V), Alone(Campaign(s), G)
    PROVE  Fares(s, Campaign(s), G, V)
  <1>1. s \in Node(Standing(V), {Nobody})
    BY DEF WellMade
  <1>2. CASE s.id \in Voters(s)
    BY <1>2, BecomeCandidateFares DEF Campaign
  <1>3. CASE s.id \notin Voters(s)
    BY <1>1, <1>3, OnlyItself DEF Campaign
  <1>4. QED
    BY <1>2, <1>3

LEMMA HandlePreVoteFares ==
    ASSUME NEW M, NEW s, WellMade(s, M, {Nobody}), NEW G, NEW V, HistoryOK(G, V),
           NodeOK(s, G, V), NEW m
    PROVE  Fares(s, HandlePreVote(s, m), G, V)
  <1> DEFINE granted == s.leader = Nil /\ m.term > s.term /\ IsUpToDate(s, m)
             out == {VoteReply("PreVoteReply", s, m, IF granted THEN m.term ELSE s.term, granted)}
  <1>1. s \in Node(M, {Nobody})
    BY DEF WellMade
  <1>2. Says(out, G, V)
    <2>1. \A x \in out : x.type = "PreVoteReply"
      BY DEF VoteReply
    <2>2. QED
      BY <2>1, OtherMessages DEF Says
  <1>3. HandlePreVote(s, m) = Does(s, out)
    BY DEF HandlePreVote
  <1>4. QED
    BY <1>1, <1>2, <1>3, ItselfSits, SittingFares

LEMMA HandlePreVoteReplyFares ==
    ASSUME NEW V \in SUBSET Server, NEW s, WellMade(s, Standing(V), {Nobody}), NEW G,
           HistoryOK(G, V), NodeOK(s, G, V), NEW m \in VoteAnswer,
           Alone(HandlePreVoteReply(s, m), G)
    PROVE  Fares(s, HandlePreVoteReply(s, m), G, V)
  <1> DEFINE M == Standing(V)
             r == [s EXCEPT !.votes = @ \cup {m.from}]
  <1>1. s \in Node(M, {Nobody}) /\ Built(s) /\ s.term \in Nat /\ m.from \in Server /\ m.term \in Nat
    BY NodeTypes DEF WellMade, NodeOK, VoteAnswer
  <1>2. CASE m.granted /\ (s.role # "PreCandidate" \/ m.term # s.term + 1)
    BY <1>1, <1>2, OnlyItself DEF HandlePreVoteReply
  <1>3. CASE m.granted /\ ~(s.role # "PreCandidate" \/ m.term # s.term + 1)
    <2>1. r \in Node(M, {Nobody})
      BY <1>1 DEF Node
    <2>2. /\ r.id = s.id /\ r.term = s.term /\ r.snap = s.snap
          /\ r.incoming = s.incoming /\ r.building = s.building /\ r.log = s.log
          /\ r.role = s.role /\ r.commit = s.commit /\ r.applied = s.applied
      BY <1>1 DEF Node
    <2>3. HandlePreVoteReply(s, m) = IF HasQuorum(r, r.votes) THEN BecomeCandidate(r) ELSE Only(r)
      BY <1>3 DEF HandlePreVoteReply
    <2> HIDE DEF r
    <2>4. WellMade(r, M, {Nobody})
      <3>1. Sized(r) /\ Termed(r) /\ Whole(r) /\ Begun(r)
        BY <1>1, <2>2 DEF Sized, Termed, Whole, Begun, WellMade
      <3>2. QED
        BY <3>1, <2>1 DEF WellMade
    <2>5. Sits(s, r)
      BY <2>2, <1>3 DEF Sits, Office
    <2>6. Quietly(s, r, G, G, V)
      BY <2>1, <2>5, <1>1, SittingRests, RestsQuietly
    <2>7. NodeOK(r, G, V)
      BY <2>6 DEF Quietly
    <2>8. CASE HasQuorum(r, r.votes)
      <3>1. Fares(r, BecomeCandidate(r), G, V)
        BY <2>3, <2>4, <2>7, <2>8, BecomeCandidateFares
      <3>2. QED
        BY <3>1, <2>3, <2>6, <2>8, QuietlyThenFares
    <2>9. CASE ~HasQuorum(r, r.votes)
      BY <2>1, <2>3, <2>5, <2>9, <1>1, OnlySits
    <2>10. QED
      BY <2>8, <2>9
  <1>4. CASE ~m.granted
    <2>1. CASE m.term > s.term
      <3>1. m.term >= s.term
        BY <2>1, <1>1
      <3>2. PICK H : Quietly(s, BecomeFollower(s, m.term), G, H, V)
        BY <3>1, <1>1, BecomeFollowerQuietly
      <3>3. HandlePreVoteReply(s, m) = Only(BecomeFollower(s, m.term))
        BY <1>4, <2>1 DEF HandlePreVoteReply
      <3>4. QED
        BY <3>2, <3>3, QuietPasses, FaresAlone
    <2>2. CASE ~(m.term > s.term)
      BY <2>2, <1>1, <1>4, OnlyItself DEF HandlePreVoteReply
    <2>3. QED
      BY <2>1, <2>2
  <1>5. QED
    BY <1>2, <1>3, <1>4

(* The reply it sends endorses the log of the node that asked.             *)
LEMMA VoteIsOK ==
    ASSUME NEW M, NEW s, WellMade(s, M, {Nobody}), NEW G, NEW V, HistoryOK(G, V),
           NodeOK(s, G, V), NEW m \in VoteRequest, m.type = "RequestVote", m.term = s.term,
           MessageOK(m, G, V), NEW granted, granted => IsUpToDate(s, m)
    PROVE  MessageOK(VoteReply("RequestVoteReply", s, m, s.term, granted), G, V)
  <1> DEFINE x == VoteReply("RequestVoteReply", s, m, s.term, granted)
             q == G.stand[m.from][s.term]
  <1>1. /\ x.type = "RequestVoteReply" /\ x.from = s.id /\ x.to = m.from /\ x.term = s.term
        /\ x.granted = granted
    BY DEF VoteReply
  <1>2. s \in Node(M, {Nobody}) /\ Sized(s) /\ s.term \in Nat /\ s.id \in Server /\ G \in History
    BY NodeTypes DEF WellMade, HistoryOK
  <1>3. /\ m.from \in Server /\ m.lastTerm \in Nat /\ m.lastIndex \in Nat
        /\ s.term \in G.stood[m.from] /\ m.lastTerm = LastT(q) /\ m.lastIndex = Len(q)
    BY DEF VoteRequest, MessageOK, RequestOK
  <1> HIDE DEF x, q
  <1>4. ASSUME granted PROVE VoteOK(x, G)
    <2>1. LastT(q) > LastT(s.log) \/ (LastT(q) = LastT(s.log) /\ Len(q) >= Len(s.log))
      BY <1>2, <1>3, <1>4, LastTermIs DEF IsUpToDate, LastIndex
    <2>2. s.term >= s.term /\ G.term[s.id] = s.term
      BY <1>2 DEF NodeOK, TermOf
    <2>3. \A T, N \in Nat :
              T < s.term /\ N <= G.took[s.id][T] /\ Has(G.log[T], T, N)
              => Overruled(G, s.term, T, N) \/ AtLeast(q, T, N)
      BY <2>1, <2>2, <1>2, <1>3, VotersEndorse
    <2>4. Endorses(s.id, s.term, q, G)
      BY <2>2, <2>3 DEF Endorses
    <2>5. QED
      BY <2>4, <1>1, <1>3 DEF VoteOK, q
  <1>5. QED
    BY <1>1, <1>4 DEF MessageOK, x

LEMMA HandleRequestVoteFares ==
    ASSUME NEW M, NEW s, WellMade(s, M, {Nobody}), NEW G, NEW V, HistoryOK(G, V),
           NodeOK(s, G, V), NEW m \in VoteRequest, m.type = "RequestVote", m.term = s.term,
           MessageOK(m, G, V)
    PROVE  Fares(s, HandleRequestVote(s, m), G, V)
  <1> DEFINE granted == s.votedFor \in {Nil, m.from} /\ IsUpToDate(s, m)
             vf == IF granted THEN m.from ELSE s.votedFor
             r == [s EXCEPT !.votedFor = vf]
             out == {VoteReply("RequestVoteReply", s, m, s.term, granted)}
  <1>1. s \in Node(M, {Nobody}) /\ m.from \in Server /\ s.votedFor \in Maybe
    BY NodeTypes DEF WellMade, VoteRequest
  <1>2. vf \in Maybe
    BY <1>1 DEF Maybe
  <1>3. HandleRequestVote(s, m) = Does(r, out)
    BY DEF HandleRequestVote
  <1>4. MessageOK(VoteReply("RequestVoteReply", s, m, s.term, granted), G, V)
    BY VoteIsOK
  <1>5. Says(out, G, V)
    BY <1>4 DEF Says
  <1> HIDE DEF vf, out
  <1>6. r \in Node(M, {Nobody})
    BY <1>1, <1>2 DEF Node
  <1>7. /\ r.id = s.id /\ r.term = s.term /\ r.snap = s.snap /\ r.votes = s.votes
        /\ r.building = s.building /\ r.log = s.log /\ r.match = s.match
        /\ r.role = s.role /\ r.commit = s.commit /\ r.applied = s.applied
    BY <1>1 DEF Node
  <1> HIDE DEF r
  <1>8. \A p \in Server : s.match[p] \in Nat
    BY <1>1, NodeTypes
  <1>9. Sits(s, r)
    BY <1>7, <1>8 DEF Sits
  <1>10. QED
    BY <1>1, <1>3, <1>5, <1>6, <1>9, SittingFares

LEMMA HandleVoteReplyFares ==
    ASSUME NEW V \in SUBSET Server, NEW s, WellMade(s, Standing(V), {Nobody}), NEW G,
           HistoryOK(G, V), NodeOK(s, G, V), NEW m \in VoteAnswer, m.type = "RequestVoteReply",
           m.to = s.id, MessageOK(m, G, V), Alone(HandleVoteReply(s, m), G)
    PROVE  Fares(s, HandleVoteReply(s, m), G, V)
  <1> DEFINE M == Standing(V)
             r == [s EXCEPT !.votes = @ \cup {m.from}]
  <1>1. s \in Node(M, {Nobody}) /\ Built(s) /\ m.from \in Server
    BY DEF WellMade, NodeOK, VoteAnswer
  <1>2. CASE s.role # "Candidate" \/ m.term # s.term \/ ~m.granted
    BY <1>1, <1>2, OnlyItself DEF HandleVoteReply
  <1>3. CASE ~(s.role # "Candidate" \/ m.term # s.term \/ ~m.granted)
    <2>1. r \in Node(M, {Nobody})
      BY <1>1 DEF Node
    <2>2. /\ r.id = s.id /\ r.term = s.term /\ r.snap = s.snap /\ r.match = s.match
          /\ r.incoming = s.incoming /\ r.building = s.building /\ r.log = s.log
          /\ r.role = s.role /\ r.commit = s.commit /\ r.applied = s.applied
          /\ r.votes = s.votes \cup {m.from}
      BY <1>1 DEF Node
    <2>3. HandleVoteReply(s, m) = IF HasQuorum(r, r.votes) THEN BecomeLeader(r) ELSE Only(r)
      BY <1>3 DEF HandleVoteReply
    <2> HIDE DEF r
    <2>4. WellMade(r, M, {Nobody})
      <3>1. Sized(r) /\ Termed(r) /\ Whole(r) /\ Begun(r)
        BY <1>1, <2>2 DEF Sized, Termed, Whole, Begun, WellMade
      <3>2. QED
        BY <3>1, <2>1 DEF WellMade
    <2>5. Endorses(m.from, s.term, s.log, G)
      BY <1>3 DEF MessageOK, VoteOK, NodeOK, Stands
    <2>6. Rests(s, r, G)
      <3>1. Built(r)
        BY <2>2, <1>1 DEF Built
      <3>2. s.commit \in Nat /\ s.applied \in Nat /\ s.snap.index \in Nat
        BY <1>1, PlainNodes
      <3>3. \A v \in r.votes : v \in s.votes \/ Endorses(v, s.term, s.log, G)
        BY <2>2, <2>5
      <3>4. QED
        BY <3>1, <3>2, <3>3, <2>2, <1>3 DEF Rests
    <2>7. Quietly(s, r, G, G, V)
      BY <2>1, <2>6, <1>1, RestsQuietly
    <2>8. NodeOK(r, G, V) /\ r.role = "Candidate"
      BY <2>2, <2>7, <1>3 DEF Quietly
    <2>9. CASE HasQuorum(r, r.votes)
      <3>1. Fares(r, BecomeLeader(r), G, V)
        BY <2>3, <2>4, <2>8, <2>9, BecomeLeaderFares
      <3>2. QED
        BY <3>1, <2>3, <2>7, <2>9, QuietlyThenFares
    <2>10. CASE ~HasQuorum(r, r.votes)
      BY <2>3, <2>7, <2>10, QuietPasses, FaresAlone
    <2>11. QED
      BY <2>9, <2>10
  <1>4. QED
    BY <1>2, <1>3

-----------------------------------------------------------------------------
(* Replication, from the leader's side, and reads.                         *)

(* Only a leader's book-keeping, or that of reads, changes.                *)
Books(s, r) ==
    /\ r.id = s.id /\ r.boot = s.boot /\ r.term = s.term /\ r.votedFor = s.votedFor
    /\ r.role = s.role /\ r.votes = s.votes /\ r.snap = s.snap
    /\ r.incoming = s.incoming /\ r.building = s.building /\ r.log = s.log
    /\ r.commit = s.commit /\ r.applied = s.applied /\ r.match = s.match

LEMMA BookKeepingIdles ==
    ASSUME NEW M, NEW E, NEW s \in Node(M, E), NEW r, Books(s, r)
    PROVE  Idles(s, r)
  <1>1. Len(s.log) \in Nat /\ \A p \in Server : s.match[p] \in Nat
    BY NodeTypes
  <1>2. QED
    BY <1>1 DEF Books, Idles, Keeps

LEMMA ProposeFares ==
    ASSUME NEW V \in SUBSET Server, NEW s, WellMade(s, Standing(V), {Nobody}), NEW G,
           HistoryOK(G, V), NodeOK(s, G, V), NEW cmds \in Seq(Values)
    PROVE  Fares(s, Propose(s, cmds), G, V)
  <1> DEFINE M == Standing(V)
             entries == [i \in DOMAIN cmds |-> DataEntry(s.term, cmds[i])]
             lg == s.log \o entries
             u == [s EXCEPT !.log = lg]
             c == MaybeCommit(u)
  <1>1. /\ s \in Node(M, {Nobody}) /\ s.term \in Nat /\ s.log \in Logs /\ Len(s.log) \in Nat
        /\ Closed(M, {Nobody})
    BY PlainNodes, StandingIsClosed DEF WellMade
  <1>2. CASE s.role # "Leader"
    BY <1>1, <1>2, OnlyItself DEF Propose
  <1>3. CASE s.role = "Leader"
    <2>1. s.term > 0
      BY <1>3 DEF WellMade, Termed, Office
    <2>2. DOMAIN cmds = 1 .. Len(cmds) /\ Len(cmds) \in Nat
          /\ \A i \in 1 .. Len(cmds) : cmds[i] \in Values
      OBVIOUS
    <2>3. \A v \in Values : DataEntry(s.term, v) \in Plain /\ DataEntry(s.term, v).term = s.term
      BY <1>1, <2>1 DEF DataEntry, Plain, EntryOf
    <2>4. /\ entries \in Logs /\ Len(entries) \in Nat
          /\ \A i \in 1 .. Len(entries) : entries[i].term = s.term
      BY <2>2, <2>3 DEF Logs
    <2>5. Propose(s, cmds) = BroadcastAppend(c)
      BY <1>3 DEF Propose
    <2> HIDE DEF entries
    <2>6. /\ lg \in Logs /\ Len(lg) = Len(s.log) + Len(entries) /\ Len(lg) >= Len(s.log)
          /\ \A i \in 1 .. Len(s.log) : lg[i] = s.log[i]
          /\ \A i \in 1 .. Len(lg) : i > Len(s.log) => lg[i] = entries[i - Len(s.log)]
      BY <1>1, <2>4 DEF Logs
    <2>7. Lengthens(s.log, lg, s.term)
      <3>1. ASSUME NEW i \in 1 .. Len(lg), i > Len(s.log) PROVE lg[i].term = s.term
        <4>1. i - Len(s.log) \in 1 .. Len(entries)
          BY <3>1, <2>6, <2>4, <1>1
        <4>2. QED
          BY <4>1, <3>1, <2>4, <2>6
      <3>2. Agree(s.log, lg, Len(s.log))
        BY <1>1, <2>6 DEF Agree
      <3>3. QED
        BY <3>1, <3>2 DEF Lengthens
    <2> HIDE DEF lg
    <2>8. u \in Node(M, {Nobody})
      BY <1>1, <2>6 DEF Node, Logs, Plain
    <2>9. /\ u.id = s.id /\ u.boot = s.boot /\ u.term = s.term /\ u.votedFor = s.votedFor
          /\ u.role = s.role /\ u.votes = s.votes /\ u.snap = s.snap
          /\ u.incoming = s.incoming /\ u.building = s.building /\ u.log = lg
          /\ u.commit = s.commit /\ u.applied = s.applied /\ u.match = s.match
      BY <1>1 DEF Node
    <2> HIDE DEF u
    <2>10. Keeps(s, u)
      BY <2>6, <2>9 DEF Keeps
    <2>11. c \in Node(M, {Nobody}) /\ Keeps(u, c)
      BY <2>8, MaybeCommitFacts
    <2> HIDE DEF c
    <2>12. WellMade(c, M, {Nobody}) /\ c.role = "Leader"
      <3>1. Keeps(s, c)
        BY <1>1, <2>8, <2>10, <2>11, KeepsIsTransitive
      <3>2. QED
        BY <3>1, <2>11, <1>3, WhatIsKeptIsWellMade DEF Keeps
    <2>13. Reigns(s, u, G, V)
      <3>1. /\ s.log = G.log[s.term] /\ s.id \in G.led[s.term]
            /\ \A p \in Server : s.match[p] <= G.took[p][s.term]
        BY <1>3 DEF NodeOK, Leads
      <3>2. QED
        BY <3>1, <2>7, <2>9, <1>3 DEF Reigns
    <2>14. PICK H : /\ Extends(G, H, s.id) /\ HistoryOK(H, V) /\ NodeOK(u, H, V)
                    /\ H.done = G.done
                    /\ \A t \in Nat : \A x \in H.led[t] :
                          x \in G.led[t] \/ (x = s.id /\ t = s.term /\ ~Led(G, s.term))
      BY <1>1, <2>8, <2>13, ReigningKeeps
    <2>15. Passes(s, u, G, H, V)
      <3>1. Accounts(u, G, H)
        BY <2>9, <2>14, <1>3 DEF Accounts
      <3>2. QED
        BY <3>1, <2>9, <2>14 DEF Passes
    <2>16. PICK K : Passes(s, c, G, K, V)
      BY <2>8, <2>9, <2>14, <2>15, <1>3, CommitsAfter DEF c
    <2>17. Fares(s, BroadcastAppend(c), G, V)
      BY <1>1, <2>12, <2>16, BroadcastsAfter
    <2>18. QED
      BY <2>5, <2>17 DEF c, u, lg
  <1>4. QED
    BY <1>2, <1>3

(* A follower's answer counts what it has acknowledged.                    *)
LEMMA ReachedPasses ==
    ASSUME NEW V \in SUBSET Server, NEW s \in Node(Standing(V), {Nobody}), NEW G,
           HistoryOK(G, V), NodeOK(s, G, V), s.role = "Leader", NEW p \in Server, NEW i \in Nat,
           i <= G.took[p][s.term]
    PROVE  \E H : Passes(s, Reached(s, p, i), G, H, V)
  <1> DEFINE M == Standing(V)
             mt == [s.match EXCEPT ![p] = i]
             nx == [s.next EXCEPT ![p] = i + 1]
             r == [s EXCEPT !.match = mt, !.next = nx]
  <1>1. mt \in [Server -> Nat] /\ nx \in [Server -> Nat] /\ s.match \in [Server -> Nat]
    BY NodeTypes
  <1>2. r = [s EXCEPT !.match[p] = i, !.next[p] = i + 1]
    BY DEF Node
  <1>3. Reached(s, p, i) = MaybeCommit(r)
    BY <1>2 DEF Reached
  <1>4. \A q \in Server : mt[q] <= s.match[q] \/ mt[q] <= G.took[q][s.term]
    BY <1>1
  <1> HIDE DEF mt, nx
  <1>5. r \in Node(M, {Nobody})
    BY <1>1 DEF Node
  <1>6. /\ r.id = s.id /\ r.term = s.term /\ r.log = s.log /\ r.role = s.role
        /\ r.commit = s.commit /\ r.applied = s.applied /\ r.snap = s.snap
        /\ r.building = s.building /\ r.match = mt
    BY DEF Node
  <1> HIDE DEF r
  <1>7. Rests(s, r, G)
    <2>1. Built(r)
      BY <1>6 DEF Built, NodeOK
    <2>2. s.commit \in Nat /\ s.applied \in Nat /\ s.snap.index \in Nat
      BY PlainNodes
    <2>3. QED
      BY <2>1, <2>2, <1>4, <1>6 DEF Rests
  <1>8. Quietly(s, r, G, G, V)
    BY <1>5, <1>7, RestsQuietly
  <1>9. PICK H : Passes(s, MaybeCommit(r), G, H, V)
    BY <1>5, <1>6, <1>8, QuietPasses, CommitsAfter
  <1>10. QED
    BY <1>3, <1>9

LEMMA LeaderSends ==
    ASSUME NEW M, NEW s, NEW r, WellMade(r, M, {Nobody}), NEW V, NEW G, NEW H,
           Passes(s, r, G, H, V), r.role = "Leader", NEW p \in Server, NEW out,
           out = {} \/ out = {AppendMessageFor(r, p)}
    PROVE  Fares(s, Does(r, out), G, V)
  <1>1. r \in Node(M, {Nobody}) /\ Sized(r)
    BY DEF WellMade
  <1>2. MessageOK(AppendMessageFor(r, p), H, V)
    BY <1>1, AppendMessageForIsOK DEF Passes
  <1>3. Says(out, H, V)
    BY <1>2 DEF Says
  <1>4. QED
    BY <1>3, FaresOf

LEMMA IdlingPasses ==
    ASSUME NEW M, NEW s, WellMade(s, M, {Nobody}), NEW r \in Node(M, {Nobody}), NEW V, NEW G,
           HistoryOK(G, V), NodeOK(s, G, V), Idles(s, r)
    PROVE  /\ Passes(s, r, G, G, V) /\ Quietly(s, r, G, G, V) /\ NodeOK(r, G, V)
           /\ WellMade(r, M, {Nobody}) /\ r.role = s.role /\ r.term = s.term /\ r.id = s.id
  <1>1. s \in Node(M, {Nobody}) /\ Built(s)
    BY DEF WellMade, NodeOK
  <1>2. Quietly(s, r, G, G, V)
    BY <1>1, IdlingRests, RestsQuietly
  <1>3. WellMade(r, M, {Nobody})
    BY WhatIsKeptIsWellMade DEF Idles
  <1>4. QED
    BY <1>2, <1>3, QuietPasses DEF Quietly, Idles, Keeps

LEMMA HandleAppendReplyFares ==
    ASSUME NEW V \in SUBSET Server, NEW s, WellMade(s, Standing(V), {Nobody}), NEW G,
           HistoryOK(G, V), NodeOK(s, G, V), s.role = "Leader", NEW m \in AppendAnswer,
           m.term = s.term, MessageOK(m, G, V)
    PROVE  Fares(s, HandleAppendReply(s, m), G, V)
  <1> DEFINE M == Standing(V)
             r == Reached(s, m.from, m.match)
             nx == [s.next EXCEPT ![m.from] = Resume(s, m)]
             b == [s EXCEPT !.next = nx]
             more == IF m.match < LastIndex(r) THEN {AppendMessageFor(r, m.from)} ELSE {}
  <1>1. /\ s \in Node(M, {Nobody}) /\ m.from \in Server /\ m.match \in Nat
        /\ Resume(s, m) \in Nat /\ m.type = "AppendReply"
    BY ResumeFacts DEF WellMade, AppendAnswer
  <1>2. r \in Node(M, {Nobody}) /\ Keeps(s, r)
    BY <1>1, ReachedFacts
  <1>3. nx \in [Server -> Nat]
    BY <1>1, NodeTypes
  <1>4. b = [s EXCEPT !.next[m.from] = Resume(s, m)]
    BY <1>1 DEF Node
  <1>5. \/ HandleAppendReply(s, m) = Does(b, {AppendMessageFor(b, m.from)})
        \/ HandleAppendReply(s, m) = Only(s)
        \/ m.success /\ HandleAppendReply(s, m) = Does(r, more)
    BY <1>4 DEF HandleAppendReply
  <1> HIDE DEF nx
  <1>6. b \in Node(M, {Nobody})
    BY <1>1, <1>3 DEF Node
  <1>7. Books(s, b)
    BY <1>1 DEF Node, Books
  <1>8. Idles(s, b)
    BY <1>1, <1>7, BookKeepingIdles
  <1> HIDE DEF b
  <1>9. Passes(s, b, G, G, V) /\ WellMade(b, M, {Nobody}) /\ b.role = "Leader"
    BY <1>6, <1>8, IdlingPasses
  <1>10. Fares(s, Does(b, {AppendMessageFor(b, m.from)}), G, V)
    BY <1>1, <1>9, LeaderSends
  <1>11. ASSUME m.success PROVE Fares(s, Does(r, more), G, V)
    <2>1. m.match <= G.took[m.from][s.term]
      BY <1>1, <1>11 DEF MessageOK
    <2>2. PICK H : Passes(s, r, G, H, V)
      BY <2>1, <1>1, ReachedPasses
    <2>3. WellMade(r, M, {Nobody}) /\ r.role = "Leader"
      BY <1>2, WhatIsKeptIsWellMade DEF Keeps
    <2>4. more = {} \/ more = {AppendMessageFor(r, m.from)}
      OBVIOUS
    <2> HIDE DEF r, more
    <2>5. QED
      BY <2>2, <2>3, <2>4, <1>1, LeaderSends
  <1> HIDE DEF more
  <1>12. QED
    BY <1>1, <1>5, <1>10, <1>11, OnlyItself

LEMMA HandleSnapshotReplyFares ==
    ASSUME NEW V \in SUBSET Server, NEW s, WellMade(s, Standing(V), {Nobody}), NEW G,
           HistoryOK(G, V), NodeOK(s, G, V), s.role = "Leader", NEW m \in InstallAnswer, Exact(m),
           m.term = s.term, MessageOK(m, G, V)
    PROVE  Fares(s, HandleSnapshotReply(s, m), G, V)
  <1> DEFINE M == Standing(V)
             p == m.from
             pc == [s.progress EXCEPT ![p] = Sent(0, 0)]
             c == [s EXCEPT !.progress = pc]
             r == IF m.index > s.match[p] THEN Reached(c, p, m.index) ELSE c
             out == IF r.next[p] <= LastIndex(r) THEN {AppendMessageFor(r, p)} ELSE {}
             off == IF m.index = s.snap.index THEN m.offset ELSE 0
             pm == [s.progress EXCEPT ![p] = Sent(s.snap.index, off)]
             more == [s EXCEPT !.progress = pm]
  <1>1. /\ s \in Node(M, {Nobody}) /\ p \in Server /\ m.index \in Nat /\ m.offset \in 0 .. Pieces
        /\ Pieces \in Nat \ {0} /\ m.type = "SnapshotReply" /\ s.progress \in [Server -> Sending]
        /\ s.snap.index \in Nat
    BY NodeTypes, SizesAssumption DEF WellMade, InstallAnswer
  <1>2. c = [s EXCEPT !.progress[p] = Sent(0, 0)] /\ more = [s EXCEPT !.progress[p] = Sent(s.snap.index, off)]
    BY <1>1 DEF Node
  <1>3. \/ m.done /\ HandleSnapshotReply(s, m) = Does(r, out)
        \/ ~m.done /\ HandleSnapshotReply(s, m) = Does(more, {AppendMessageFor(more, p)})
    BY <1>2 DEF HandleSnapshotReply, InstallAnswer
  <1>4. pc \in [Server -> Sending]
    <2>1. Sent(0, 0) \in Sending
      BY <1>1 DEF Sent, Sending
    <2>2. QED
      BY <2>1, <1>1
  <1> HIDE DEF pc
  <1>5. c \in Node(M, {Nobody})
    BY <1>1, <1>4 DEF Node
  <1>6. Books(s, c)
    BY <1>1 DEF Node, Books
  <1>7. Idles(s, c)
    BY <1>1, <1>6, BookKeepingIdles
  <1> HIDE DEF c
  <1>8. /\ Passes(s, c, G, G, V) /\ NodeOK(c, G, V) /\ WellMade(c, M, {Nobody})
        /\ Quietly(s, c, G, G, V) /\ c.role = "Leader" /\ c.term = s.term /\ c.id = s.id
    BY <1>5, <1>7, IdlingPasses
  <1>9. ASSUME m.done PROVE Fares(s, Does(r, out), G, V)
    <2>1. m.index <= G.took[p][c.term]
      BY <1>1, <1>8, <1>9 DEF MessageOK
    <2>2. \E H : Passes(c, Reached(c, p, m.index), G, H, V)
      BY <2>1, <1>1, <1>5, <1>8, ReachedPasses
    <2>3. Passes(c, c, G, G, V)
      <3>1. Idles(c, c)
        BY <1>5, StandingStillIdles
      <3>2. QED
        BY <3>1, <1>5, <1>8, IdlingPasses
    <2>4. PICK H : Passes(c, r, G, H, V)
      BY <2>2, <2>3
    <2>5. Reached(c, p, m.index) \in Node(M, {Nobody}) /\ Keeps(c, Reached(c, p, m.index))
      BY <1>1, <1>5, ReachedFacts
    <2>6. WellMade(Reached(c, p, m.index), M, {Nobody}) /\ Reached(c, p, m.index).role = "Leader"
      BY <2>5, <1>8, WhatIsKeptIsWellMade DEF Keeps
    <2>7. WellMade(r, M, {Nobody}) /\ r.role = "Leader"
      BY <2>6, <1>8, Zenon
    <2>8. out = {} \/ out = {AppendMessageFor(r, p)}
      OBVIOUS
    <2> HIDE DEF r, out
    <2>9. Fares(c, Does(r, out), G, V)
      BY <2>4, <2>7, <2>8, <1>1, LeaderSends
    <2>10. QED
      BY <2>9, <1>8, QuietlyThenFares
  <1>10. ASSUME ~m.done PROVE Fares(s, Does(more, {AppendMessageFor(more, p)}), G, V)
    <2>1. m.offset < Pieces
      BY <1>1, <1>10 DEF Exact
    <2>2. Sent(s.snap.index, off) \in Sending
      BY <1>1, <2>1 DEF Sent, Sending
    <2>3. pm \in [Server -> Sending]
      BY <2>2, <1>1
    <2> HIDE DEF pm
    <2>4. more \in Node(M, {Nobody})
      BY <1>1, <2>3 DEF Node
    <2>5. Books(s, more)
      BY <1>1 DEF Node, Books
    <2>6. Idles(s, more)
      BY <1>1, <2>5, BookKeepingIdles
    <2> HIDE DEF more
    <2>7. Passes(s, more, G, G, V) /\ WellMade(more, M, {Nobody}) /\ more.role = "Leader"
      BY <2>4, <2>6, IdlingPasses
    <2>8. QED
      BY <2>7, <1>1, LeaderSends
  <1> HIDE DEF r, out, more
  <1>11. QED
    BY <1>3, <1>9, <1>10

LEMMA HeardRoundIdles ==
    ASSUME NEW M, NEW E, NEW s \in Node(M, E), NEW m, m.from \in Server, m.seq \in Nat
    PROVE  Idles(s, HeardRound(s, m).s)
  <1> DEFINE ak == [s.acked EXCEPT ![m.from] = Max({@, m.seq})]
             r == [s EXCEPT !.active = @ \cup {m.from}, !.acked = ak]
             done == {q \in r.remote : RoundConfirmed(r, q.seq)}
             q == [r EXCEPT !.remote = @ \ done]
             out == {ReadIndexReply(r, x.from, x.id, x.index) : x \in done}
  <1>1. r = [s EXCEPT !.active = @ \cup {m.from}, !.acked[m.from] = Max({@, m.seq})]
    BY DEF Node
  <1>2. HeardRound(s, m) = Does(r, {}) \/ HeardRound(s, m) = Does(q, out)
    BY <1>1, Zenon DEF HeardRound, Only
  <1>3. HeardRound(s, m).s = r \/ HeardRound(s, m).s = q
    BY <1>2 DEF Does
  <1> HIDE DEF ak, done
  <1>4. Books(s, r)
    BY DEF Node, Books
  <1>5. Books(s, q)
    BY DEF Node, Books
  <1> HIDE DEF r, q
  <1>6. QED
    BY <1>3, <1>4, <1>5, BookKeepingIdles

LEMMA OpenReadRoundFares ==
    ASSUME NEW M, Closed(M, {Nobody}), NEW s, WellMade(s, M, {Nobody}), NEW G, NEW V,
           HistoryOK(G, V), NodeOK(s, G, V), s.role = "Leader"
    PROVE  LET d == OpenReadRound(s) IN Idles(s, d.s) /\ Says(d.out, G, V)
  <1> DEFINE r == [s EXCEPT !.seq = @ + 1]
             to == {q \in Replicas(r) : NextFor(r, q) > r.snap.index}
             out == {AppendEntries(r, p, <<>>) : p \in to}
  <1>1. OpenReadRound(s) = [s |-> r, out |-> out]
    BY DEF OpenReadRound, Does
  <1>2. s \in Node(M, {Nobody}) /\ s.seq + 1 \in Nat
    BY NodeTypes DEF WellMade
  <1>3. r \in Node(M, {Nobody})
    BY <1>2 DEF Node
  <1>4. Books(s, r)
    BY <1>2 DEF Node, Books
  <1> HIDE DEF r
  <1>5. Idles(s, r)
    BY <1>2, <1>4, BookKeepingIdles
  <1>6. NodeOK(r, G, V) /\ r.role = "Leader"
    BY <1>3, <1>5, IdlingPasses
  <1>7. to \subseteq Server
    BY <1>3, ReplicasFacts
  <1>8. \A p \in Server : MessageOK(AppendEntries(r, p, <<>>), G, V)
    <2>1. Len(<<>>) = 0
      OBVIOUS
    <2>2. 1 .. Len(<<>>) = {}
      BY <2>1
    <2>3. QED
      BY <2>2, <1>3, <1>6, AppendEntriesIsOK
  <1>9. Says(out, G, V)
    BY <1>7, <1>8 DEF Says
  <1> HIDE DEF out
  <1>10. QED
    BY <1>1, <1>5, <1>9

LEMMA ReadIndexFares ==
    ASSUME NEW M, Closed(M, {Nobody}), NEW s, WellMade(s, M, {Nobody}), NEW G, NEW V,
           HistoryOK(G, V), NodeOK(s, G, V), NEW asked \in Nat
    PROVE  Fares(s, ReadIndex(s, asked), G, V)
  <1> DEFINE round == OpenReadRound(s)
             u == round.s
             a == LocalRead(u, ReadAt(s), asked)
             r == [u EXCEPT !.reads = @ \cup {a}]
             f == [s EXCEPT !.nextRead = @ + 1]
             b == ForwardedRead(f, asked)
             g == [f EXCEPT !.reads = @ \cup {b}]
             mm == ReadIndexMessage(f, s.leader, f.nextRead)
  <1>1. s \in Node(M, {Nobody}) /\ ReadAt(s) \in Nat /\ s.nextRead + 1 \in Nat
    BY NodeTypes, ReadAtFacts DEF WellMade
  <1>2. \/ s.role = "Leader" /\ ReadIndex(s, asked) = Does(r, round.out)
        \/ ReadIndex(s, asked) = Only(s)
        \/ ReadIndex(s, asked) = Does(g, {mm})
    BY DEF ReadIndex
  <1>3. CASE s.role = "Leader" /\ ReadIndex(s, asked) = Does(r, round.out)
    <2>1. u \in Node(M, {Nobody}) /\ Idles(s, u) /\ Says(round.out, G, V)
      BY <1>1, <1>3, OpenReadRoundFacts, OpenReadRoundFares
    <2> HIDE DEF u, round
    <2>2. a \in Asked /\ u.reads \in SUBSET Asked
      BY <1>1, <2>1, NodeTypes DEF LocalRead, Asked
    <2> HIDE DEF a
    <2>3. r \in Node(M, {Nobody})
      BY <2>1, <2>2 DEF Node
    <2>4. Books(u, r)
      BY <2>1 DEF Node, Books
    <2> HIDE DEF r
    <2>5. Idles(s, r)
      BY <1>1, <2>1, <2>3, <2>4, BookKeepingIdles, IdlingTwice
    <2>6. QED
      BY <1>1, <1>3, <2>1, <2>3, <2>5, IdlingSits, SittingFares
  <1>4. CASE ReadIndex(s, asked) = Does(g, {mm})
    <2>1. f \in Node(M, {Nobody})
      BY <1>1 DEF Node
    <2>2. Books(s, f)
      BY <1>1 DEF Node, Books
    <2>3. Says({mm}, G, V)
      BY OtherMessages DEF Says, ReadIndexMessage
    <2> HIDE DEF f, mm
    <2>4. f.nextRead \in Nat /\ f.leader \in Maybe /\ f.reads \in SUBSET Asked
      BY <2>1, NodeTypes
    <2>5. b \in Asked
      BY <2>4 DEF ForwardedRead, Asked, Waiting
    <2> HIDE DEF b
    <2>6. g \in Node(M, {Nobody})
      BY <2>1, <2>4, <2>5 DEF Node
    <2>7. Books(f, g)
      BY <2>1 DEF Node, Books
    <2> HIDE DEF g
    <2>8. Idles(s, g)
      BY <1>1, <2>1, <2>2, <2>6, <2>7, BookKeepingIdles, IdlingTwice
    <2>9. QED
      BY <1>1, <1>4, <2>3, <2>6, <2>8, IdlingSits, SittingFares
  <1>5. CASE ReadIndex(s, asked) = Only(s)
    BY <1>1, <1>5, OnlyItself
  <1>6. QED
    BY <1>2, <1>3, <1>4, <1>5

LEMMA ForgetReadFares ==
    ASSUME NEW M, NEW s, WellMade(s, M, {Nobody}), NEW G, NEW V, HistoryOK(G, V),
           NodeOK(s, G, V), NEW read
    PROVE  Fares(s, ForgetRead(s, read), G, V)
  <1> DEFINE r == [s EXCEPT !.reads = @ \ {read}]
  <1>1. s \in Node(M, {Nobody}) /\ s.reads \in SUBSET Asked
    BY NodeTypes DEF WellMade
  <1>2. r \in Node(M, {Nobody})
    BY <1>1 DEF Node
  <1>3. Books(s, r)
    BY <1>1 DEF Node, Books
  <1> HIDE DEF r
  <1>4. Idles(s, r)
    BY <1>1, <1>3, BookKeepingIdles
  <1>5. QED
    BY <1>1, <1>2, <1>4, IdlingSits, OnlySits DEF ForgetRead, r

LEMMA HandleReadIndexFares ==
    ASSUME NEW M, Closed(M, {Nobody}), NEW s, WellMade(s, M, {Nobody}), NEW G, NEW V,
           HistoryOK(G, V), NodeOK(s, G, V), NEW m \in ReadRequest
    PROVE  Fares(s, HandleReadIndex(s, m), G, V)
  <1> DEFINE round == OpenReadRound(s)
             u == round.s
             read == [from |-> m.from, id |-> m.id, seq |-> u.seq, index |-> ReadAt(s)]
             r == [u EXCEPT !.remote = @ \cup {read}]
             no == ReadIndexReply(s, m.from, m.id, Refused)
  <1>1. s \in Node(M, {Nobody}) /\ ReadAt(s) \in Nat /\ m.from \in Server /\ m.id \in Nat
    BY ReadAtFacts DEF WellMade, ReadRequest
  <1>2. \/ HandleReadIndex(s, m) = Does(s, {no})
        \/ s.role = "Leader" /\ HandleReadIndex(s, m) = Does(r, round.out)
    BY DEF HandleReadIndex
  <1>3. CASE HandleReadIndex(s, m) = Does(s, {no})
    <2>1. Says({no}, G, V)
      BY OtherMessages DEF Says, ReadIndexReply
    <2>2. QED
      BY <2>1, <1>1, <1>3, ItselfSits, SittingFares
  <1>4. CASE s.role = "Leader" /\ HandleReadIndex(s, m) = Does(r, round.out)
    <2>1. u \in Node(M, {Nobody}) /\ Idles(s, u) /\ Says(round.out, G, V)
      BY <1>1, <1>4, OpenReadRoundFacts, OpenReadRoundFares
    <2> HIDE DEF u, round
    <2>2. read \in Remote /\ u.remote \in SUBSET Remote
      BY <1>1, <2>1, NodeTypes DEF Remote
    <2> HIDE DEF read
    <2>3. r \in Node(M, {Nobody})
      BY <2>1, <2>2 DEF Node
    <2>4. Books(u, r)
      BY <2>1 DEF Node, Books
    <2> HIDE DEF r
    <2>5. Idles(s, r)
      BY <1>1, <2>1, <2>3, <2>4, BookKeepingIdles, IdlingTwice
    <2>6. QED
      BY <1>1, <1>4, <2>1, <2>3, <2>5, IdlingSits, SittingFares
  <1>5. QED
    BY <1>2, <1>3, <1>4

LEMMA HandleReadIndexReplyFares ==
    ASSUME NEW M, NEW s, WellMade(s, M, {Nobody}), NEW G, NEW V, HistoryOK(G, V),
           NodeOK(s, G, V), NEW m \in ReadAnswer
    PROVE  Fares(s, HandleReadIndexReply(s, m), G, V)
  <1> DEFINE mine == {r \in s.reads : r.kind = "Forwarded" /\ r.id = m.id /\ r.answer = Waiting}
             now == (s.reads \ mine) \cup {[r EXCEPT !.answer = m.index] : r \in mine}
             q == [s EXCEPT !.reads = now]
  <1>1. s \in Node(M, {Nobody}) /\ s.reads \in SUBSET Asked /\ m.index \in Int
    BY NodeTypes DEF WellMade, ReadAnswer
  <1>2. now \in SUBSET Asked
    <2>1. \A r \in Asked : r.kind = "Forwarded" => [r EXCEPT !.answer = m.index] \in Asked
      BY <1>1 DEF Asked
    <2>2. QED
      BY <2>1, <1>1
  <1>3. HandleReadIndexReply(s, m) = Only(q)
    BY DEF HandleReadIndexReply
  <1> HIDE DEF now
  <1>4. q \in Node(M, {Nobody})
    BY <1>1, <1>2 DEF Node
  <1>5. Books(s, q)
    BY <1>1 DEF Node, Books
  <1> HIDE DEF q
  <1>6. QED
    BY <1>1, <1>3, <1>4, <1>5, BookKeepingIdles, IdlingSits, OnlySits

-----------------------------------------------------------------------------
(* Followers.                                                              *)

(* A log that follows that of the leader, L, as far as k and as far as the *)
(* node's own did.                                                         *)
Joins(q, s, L, k) ==
    /\ q \in Logs /\ Agree(q, L, k) /\ (q = s.log \/ Agree(q, L, Len(q)))
    /\ \A i \in Nat : Agree(s.log, L, i) => Agree(q, L, i)

LEMMA JoiningIsSound ==
    ASSUME NEW s, NEW G \in History, Recorded(G), NEW t \in Nat, NEW q, NEW k,
           Joins(q, s, G.log[t], k), Sound(s.log, G), UpTo(s.log, t)
    PROVE  Sound(q, G) /\ UpTo(q, t)
  <1> DEFINE L == G.log[t]
  <1>1. L \in Logs /\ Len(L) \in Nat /\ Sound(L, G) /\ UpTo(L, t) /\ q \in Logs /\ Len(q) \in Nat
    BY HistoryTypes, LogTypes DEF Recorded, Joins
  <1>2. CASE q = s.log
    BY <1>2
  <1>3. CASE Agree(q, L, Len(q))
    <2> HIDE DEF L
    <2>1. \A i \in 1 .. Len(q) : i \in 1 .. Len(L) /\ q[i] = L[i]
      BY <1>1, <1>3 DEF Agree
    <2>2. UpTo(q, t)
      BY <1>1, <2>1 DEF UpTo
    <2>3. ASSUME NEW i \in 1 .. Len(q) PROVE Agree(q, G.log[q[i].term], i)
      <3>1. Agree(L, G.log[q[i].term], i)
        BY <2>1, <1>1 DEF Sound
      <3>2. QED
        BY <3>1, <2>1, <1>1 DEF Agree
    <2>4. QED
      BY <2>2, <2>3 DEF Sound
  <1>4. QED
    BY <1>2, <1>3 DEF Joins

(* What handle_append_entries keeps of a log and adds to it.               *)
LEMMA SplicingJoins ==
    ASSUME NEW M, NEW s \in Node(M, {Nobody}), NEW G \in History, NEW L \in Logs,
           Sound(L, G), Sound(s.log, G), NEW prev \in Nat, prev >= s.snap.index,
           Agree(s.log, L, prev), NEW es \in Logs,
           \A k \in 1 .. Len(es) : prev + k <= Len(L) /\ es[k] = L[prev + k]
    PROVE  /\ Joins(Cut(s, prev, es), s, L, 0)
           /\ Joins(Cut(s, prev, es) \o Fresh(s, prev, es), s, L, prev + Len(es))
  <1> DEFINE h == AlreadyHeld(s, prev, es)
             S == {k \in 0 .. Len(es) : \A i \in 1 .. k : TermAt(s, prev + i) = es[i].term}
             cut == Cut(s, prev, es)
             fresh == Fresh(s, prev, es)
             q == cut \o fresh
  <1>1. /\ Len(es) \in Nat /\ s.log \in Logs /\ Len(s.log) \in Nat /\ Len(L) \in Nat
        /\ s.snap.index \in Nat /\ prev <= Len(s.log) /\ prev <= Len(L) /\ es \in Seq(EntryOf({Nobody}))
    BY PlainNodes, LogTypes DEF Agree, Logs, Plain
  <1>2. /\ h \in 0 .. Len(es) /\ prev + h <= Len(s.log)
        /\ \A i \in 1 .. h : TermAt(s, prev + i) = es[i].term
    BY <1>1, AlreadyHeldFacts
  <1>3. \A x \in S : x <= h
    <2>1. S \in SUBSET Nat /\ 0 \in S /\ \A x \in S : x <= Len(es)
      BY <1>1
    <2>2. h = Max(S)
      BY DEF AlreadyHeld
    <2> HIDE DEF S, h
    <2>3. QED
      BY <1>1, <2>1, <2>2, MaxFacts
  <1>4. /\ cut = IF h = Len(es) THEN s.log ELSE SubSeq(s.log, 1, prev + h)
        /\ fresh = SubSeq(es, h + 1, Len(es))
    BY DEF Cut, Fresh
  <1> HIDE DEF h, cut, fresh
  <1>5. Agree(s.log, L, prev + h)
    <2>1. CASE h = 0
      BY <2>1
    <2>2. CASE h > 0
      <3>1. h \in 1 .. h /\ h \in 1 .. Len(es) /\ prev + h \in Nat /\ prev + h # 0
        BY <1>2, <2>2
      <3>2. TermAt(s, prev + h) = es[h].term
        BY <3>1, <1>2
      <3>3. TermAt(s, prev + h) = s.log[prev + h].term
        BY <3>1, <1>1, <1>2, TermAtIs
      <3>4. es[h] = L[prev + h] /\ prev + h <= Len(L)
        BY <3>1
      <3>5. Has(s.log, es[h].term, prev + h) /\ Has(L, es[h].term, prev + h)
        BY <3>1, <3>2, <3>3, <3>4, <1>1, <1>2 DEF Has
      <3>6. QED
        BY <3>5, <1>1, SoundLogsMeet
    <2>3. QED
      BY <2>1, <2>2, <1>2
  <1>6. ASSUME h < Len(es), NEW i \in Nat, Agree(s.log, L, i) PROVE i <= prev + h
    <2> SUFFICES ASSUME i > prev + h PROVE FALSE
      BY <1>1, <1>2
    <2>1. ASSUME NEW j \in 1 .. (h + 1) PROVE TermAt(s, prev + j) = es[j].term
      <3>1. j \in 1 .. Len(es) /\ prev + j \in 1 .. i /\ prev + j <= Len(s.log) /\ prev + j \in Nat
        BY <1>1, <1>2, <1>6 DEF Agree
      <3>2. s.log[prev + j] = L[prev + j] /\ es[j] = L[prev + j]
        BY <3>1, <1>6 DEF Agree
      <3>3. TermAt(s, prev + j) = s.log[prev + j].term
        BY <3>1, <1>1, TermAtIs
      <3>4. QED
        BY <3>2, <3>3
    <2>2. h + 1 \in S
      BY <2>1, <1>1, <1>2, <1>6
    <2> HIDE DEF S
    <2>3. h + 1 <= h
      BY <2>2, <1>3
    <2>4. QED
      BY <2>3, <1>2
  <1> HIDE DEF S
  <1>7. CASE h = Len(es)
    <2>1. cut = s.log /\ fresh = <<>>
      BY <1>4, <1>7, <1>1
    <2>2. q = s.log
      BY <2>1, <1>1 DEF Logs
    <2>3. Agree(s.log, L, 0) /\ Agree(s.log, L, prev + Len(es))
      BY <1>1, <1>5, <1>7 DEF Agree
    <2>4. QED
      BY <2>1, <2>2, <2>3, <1>1 DEF Joins, cut, fresh
  <1>8. CASE h < Len(es)
    <2>1. cut \in Logs /\ Len(cut) = prev + h /\ \A j \in 1 .. (prev + h) : cut[j] = s.log[j]
      BY <1>1, <1>2, <1>4, <1>8 DEF Logs
    <2>2. /\ fresh \in Logs /\ Len(fresh) = Len(es) - h
          /\ \A j \in 1 .. (Len(es) - h) : fresh[j] = es[j + h]
      BY <1>1, <1>2, <1>4, <1>8 DEF Logs
    <2>3. /\ q \in Logs /\ Len(q) = prev + Len(es)
          /\ \A j \in 1 .. (prev + h) : q[j] = cut[j]
          /\ \A j \in (prev + h + 1) .. (prev + Len(es)) : q[j] = fresh[j - (prev + h)]
      <3>1. cut \in Seq(Plain) /\ fresh \in Seq(Plain)
        BY <2>1, <2>2 DEF Logs
      <3>2. q \in Seq(Plain) /\ Len(q) = Len(cut) + Len(fresh)
        BY <3>1
      <3>3. \A j \in 1 .. Len(q) : q[j] = IF j <= Len(cut) THEN cut[j] ELSE fresh[j - Len(cut)]
        BY <3>1
      <3>4. Len(q) = prev + Len(es)
        BY <3>2, <2>1, <2>2, <1>1, <1>2
      <3> HIDE DEF q
      <3>5. \A j \in 1 .. (prev + h) : j \in 1 .. Len(q) /\ j <= Len(cut)
        BY <3>4, <2>1, <1>1, <1>2
      <3>6. \A j \in (prev + h + 1) .. (prev + Len(es)) : j \in 1 .. Len(q) /\ ~(j <= Len(cut))
        BY <3>4, <2>1, <1>1, <1>2
      <3>7. QED
        BY <3>2, <3>3, <3>4, <3>5, <3>6, <2>1 DEF Logs
    <2>4. prev + Len(es) <= Len(L)
      <3>1. Len(es) \in 1 .. Len(es)
        BY <1>1, <1>2, <1>8
      <3>2. QED
        BY <3>1
    <2>5. \A j \in 1 .. (prev + h) : cut[j] = L[j] /\ q[j] = L[j]
      BY <2>1, <2>3, <1>5 DEF Agree
    <2>6. ASSUME NEW j \in (prev + h + 1) .. (prev + Len(es)) PROVE q[j] = L[j]
      <3>1. /\ j - (prev + h) \in 1 .. (Len(es) - h) /\ j - prev \in 1 .. Len(es)
            /\ (j - (prev + h)) + h = j - prev /\ prev + (j - prev) = j
        BY <1>1, <1>2
      <3>2. q[j] = es[j - prev] /\ es[j - prev] = L[j]
        BY <3>1, <2>2, <2>3
      <3>3. QED
        BY <3>2
    <2> HIDE DEF q
    <2>7. Agree(cut, L, prev + h) /\ Agree(cut, L, Len(cut))
      <3>1. prev + h <= Len(L)
        BY <2>4, <1>1, <1>2
      <3>2. QED
        BY <3>1, <2>1, <2>5 DEF Agree
    <2>8. Agree(q, L, prev + Len(es)) /\ Agree(q, L, Len(q))
      <3>1. \A j \in 1 .. (prev + Len(es)) : j \in 1 .. (prev + h) \/ j \in (prev + h + 1) .. (prev + Len(es))
        BY <1>1, <1>2
      <3>2. \A j \in 1 .. (prev + Len(es)) : q[j] = L[j]
        BY <3>1, <2>5, <2>6
      <3>3. QED
        BY <3>2, <2>3, <2>4 DEF Agree
    <2>9. ASSUME NEW i \in Nat, Agree(s.log, L, i) PROVE Agree(cut, L, i) /\ Agree(q, L, i)
      <3>1. i <= prev + h
        BY <2>9, <1>6, <1>8
      <3>2. QED
        BY <3>1, <2>7, <2>8, <2>1, <2>3, <1>1, <1>2 DEF Agree
    <2>10. Agree(cut, L, 0)
      BY <2>7, <2>1, <1>1 DEF Agree
    <2>11. Joins(cut, s, L, 0) /\ Joins(q, s, L, prev + Len(es))
      BY <2>1, <2>3, <2>7, <2>8, <2>9, <2>10 DEF Joins
    <2>12. QED
      BY <2>11 DEF q, cut, fresh
  <1>9. QED
    BY <1>1, <1>2, <1>7, <1>8

LEMMA PastIsLed ==
    ASSUME NEW M, NEW s, WellMade(s, M, {Nobody}), NEW V \in SUBSET Server, NEW G,
           HistoryOK(G, V), NodeOK(s, G, V), NEW m \in AppendOf({Nobody}), m.term = s.term,
           AppendOK(m, G, V)
    PROVE  LET past == Past(s, m)
               L == G.log[s.term]
           IN  /\ past.entries \in Logs
               /\ \A k \in 1 .. Len(past.entries) :
                     past.prev + k <= Len(L) /\ past.entries[k] = L[past.prev + k]
               /\ Matches(s, past.prev, past.prevTerm) => Agree(s.log, L, past.prev)
  <1> DEFINE past == Past(s, m)
             L == G.log[s.term]
             skip == s.snap.index - m.prev
  <1>1. /\ s \in Node(M, {Nobody}) /\ s.log \in Logs /\ Len(s.log) \in Nat /\ s.term \in Nat
        /\ s.snap.index \in Nat /\ G \in History /\ Sound(s.log, G)
    BY PlainNodes DEF WellMade, HistoryOK, NodeOK, LogOf
  <1>2. L \in Logs /\ Len(L) \in Nat /\ Sound(L, G) /\ Led(G, s.term)
    BY <1>1, HistoryTypes DEF HistoryOK, Recorded, AppendOK, Led
  <1>3. /\ m.prev \in Nat /\ m.prevTerm \in Nat /\ m.entries \in Logs /\ Len(m.entries) \in Nat
    BY DEF AppendOf, Logs, Plain
  <1>4. /\ \A k \in 1 .. Len(m.entries) : m.prev + k <= Len(L) /\ m.entries[k] = L[m.prev + k]
        /\ m.prev = 0 \/ m.prevTerm = 0 \/ Has(L, m.prevTerm, m.prev)
    BY DEF AppendOK
  <1> HIDE DEF L
  <1>5. CASE skip <= 0
    <2>1. past = [prev |-> m.prev, prevTerm |-> m.prevTerm, entries |-> m.entries]
      BY <1>5 DEF Past
    <2>2. ASSUME Matches(s, m.prev, m.prevTerm) PROVE Agree(s.log, L, m.prev)
      <3>1. CASE m.prev = 0
        BY <3>1, <1>1, <1>2 DEF Agree
      <3>2. CASE m.prev # 0
        <4>1. m.prev <= Len(s.log) /\ m.prev >= s.snap.index
          BY <2>2, <1>1, <1>3, TermAtFacts DEF Matches
        <4>2. s.log[m.prev].term = m.prevTerm
          BY <4>1, <3>2, <2>2, <1>1, <1>3, TermAtIs DEF Matches
        <4>3. m.prev \in 1 .. Len(s.log)
          BY <4>1, <3>2, <1>1, <1>3
        <4>4. m.prevTerm # 0
          BY <4>2, <4>3, <1>1, LogTypes
        <4>5. Has(L, m.prevTerm, m.prev) /\ Has(s.log, m.prevTerm, m.prev)
          BY <4>2, <4>3, <4>4, <3>2, <1>4 DEF Has
        <4>6. QED
          BY <4>5, <1>1, <1>2, SoundLogsMeet
      <3>3. QED
        BY <3>1, <3>2
    <2>3. QED
      BY <2>1, <2>2, <1>3, <1>4 DEF L
  <1>6. CASE ~(skip <= 0)
    <2> DEFINE es == SubSeq(m.entries, skip + 1, Len(m.entries))
    <2>1. past = [prev |-> s.snap.index, prevTerm |-> TermAt(s, s.snap.index), entries |-> es]
      BY <1>6 DEF Past
    <2>2. skip \in Nat /\ m.prev + skip = s.snap.index
      BY <1>1, <1>3, <1>6
    <2> HIDE DEF skip
    <2>3. es \in Logs /\ Len(es) = (IF skip <= Len(m.entries) THEN Len(m.entries) - skip ELSE 0)
      BY <1>3, <2>2 DEF Logs
    <2>4. \A k \in 1 .. Len(es) : skip + k \in 1 .. Len(m.entries) /\ es[k] = m.entries[skip + k]
      BY <1>3, <2>2, <2>3 DEF Logs
    <2> HIDE DEF es
    <2>5. ASSUME NEW k \in 1 .. Len(es)
          PROVE  s.snap.index + k <= Len(L) /\ es[k] = L[s.snap.index + k]
      <3>1. m.prev + (skip + k) = s.snap.index + k
        BY <2>2, <2>3, <1>1, <1>3
      <3>2. QED
        BY <3>1, <2>4, <1>4
    <2>6. Agree(s.log, L, s.snap.index)
      BY <1>1, <1>2, SettledIsLed DEF NodeOK, Settles, L
    <2>7. QED
      BY <2>1, <2>3, <2>5, <2>6 DEF L
  <1>7. QED
    BY <1>5, <1>6

(* A follower answers for as much of the leader's log as it has.           *)
LEMMA FollowingFares ==
    ASSUME NEW M, NEW s \in Node(M, {Nobody}), NEW r \in Node(M, {Nobody}),
           NEW V \in SUBSET Server, NEW G,
           HistoryOK(G, V), NodeOK(s, G, V), Led(G, s.term), Follows(s, r, G, V),
           NEW k \in Nat, Agree(r.log, G.log[s.term], k), NEW a, a.from = s.id, a.term = s.term,
           (a.type = "AppendReply" /\ a.match = k) \/ (a.type = "SnapshotReply" /\ a.index = k)
    PROVE  Fares(s, Does(r, {a}), G, V)
  <1>1. PICK H : /\ Extends(G, H, s.id) /\ HistoryOK(H, V) /\ NodeOK(r, H, V)
                 /\ H.led = G.led /\ H.done = G.done /\ H.took[s.id][s.term] >= k
    BY FollowingKeeps
  <1>2. Quietly(s, r, G, H, V)
    BY <1>1 DEF Quietly, Follows
  <1>3. H.took[s.id][s.term] \in Nat
    BY <1>1, PlainNodes, HistoryTypes DEF Extends
  <1>4. Says({a}, H, V)
    BY <1>1, <1>3 DEF Says, MessageOK
  <1>5. QED
    BY <1>2, <1>4, QuietPasses, FaresOf

LEMMA ConcedeSits ==
    ASSUME NEW M, NEW s, WellMade(s, M, {Nobody}), NEW m, m.from \in Server
    PROVE  /\ Concede(s, m) \in Node(M, {Nobody}) /\ Sits(s, Concede(s, m))
           /\ Concede(s, m).role = "Follower"
  <1> DEFINE c == Concede(s, m)
  <1>1. s \in Node(M, {Nobody})
    BY DEF WellMade
  <1>2. c \in Node(M, {Nobody})
    BY ConcedeFacts DEF WellMade
  <1>3. /\ c.id = s.id /\ c.term = s.term /\ c.log = s.log /\ c.commit = s.commit
        /\ c.applied = s.applied /\ c.snap = s.snap /\ c.building = s.building /\ c.role = "Follower"
    BY <1>1 DEF Concede, Node
  <1> HIDE DEF c
  <1>4. QED
    BY <1>2, <1>3 DEF Sits, Office, c

(* A follower that lets its log be.                                        *)
LEMMA SittingFollows ==
    ASSUME NEW M, NEW s \in Node(M, {Nobody}), NEW r \in Node(M, {Nobody}), NEW V, NEW G,
           NodeOK(s, G, V), Sits(s, r), r.role = "Follower"
    PROVE  Follows(s, r, G, V)
  <1>1. s.commit \in Nat /\ s.applied \in Nat /\ s.snap.index \in Nat
    BY PlainNodes
  <1>2. Sound(r.log, G) /\ UpTo(r.log, r.term)
    BY DEF NodeOK, LogOf, Sits
  <1>3. r.building = s.building /\ r.applied >= s.applied
    BY <1>1 DEF Sits
  <1>4. \A x \in {r.commit, r.applied, r.snap.index} :
          x <= s.commit \/ x <= s.applied \/ x <= s.snap.index
    BY <1>1 DEF Sits
  <1>5. QED
    BY <1>2, <1>3, <1>4 DEF Follows, Sits

LEMMA FollowerCommitIs ==
    ASSUME NEW c \in Nat, NEW l \in Nat, NEW k \in Nat
    PROVE  LET f == FollowerCommit(c, l, k)
           IN  f \in Nat /\ (f = c \/ (f <= l /\ f <= k))
  <1>1. Min({l, k}) = IF l <= k THEN l ELSE k
    BY DEF Min
  <1>2. QED
    BY <1>1 DEF FollowerCommit

Takes(c, r, q) ==
    /\ r.id = c.id /\ r.term = c.term /\ r.role = "Follower" /\ r.log = q
    /\ r.commit = c.commit /\ r.applied = c.applied /\ r.snap = c.snap
    /\ r.building = c.building

LEMMA SplicedIs ==
    ASSUME NEW M, Closed(M, {Nobody}), NEW c \in Node(M, {Nobody}), c.role = "Follower",
           NEW prev, NEW es, Cut(c, prev, es) \o Fresh(c, prev, es) \in Logs
    PROVE  /\ Spliced(c, prev, es) \in Node(M, {Nobody})
           /\ Takes(c, Spliced(c, prev, es), Cut(c, prev, es) \o Fresh(c, prev, es))
  <1> DEFINE q == Cut(c, prev, es) \o Fresh(c, prev, es)
             x == [c EXCEPT !.log = q]
             r == Spliced(c, prev, es)
  <1>1. r = x \/ r = Reload(x)
    BY DEF Spliced
  <1>2. q \in Seq(EntryOf({Nobody}))
    BY DEF Logs, Plain
  <1> HIDE DEF q
  <1>3. x \in Node(M, {Nobody})
    BY <1>2 DEF Node
  <1>4. /\ x.id = c.id /\ x.term = c.term /\ x.role = "Follower" /\ x.log = q
        /\ x.commit = c.commit /\ x.applied = c.applied /\ x.snap = c.snap
        /\ x.building = c.building
    BY <1>2 DEF Node
  <1> HIDE DEF x
  <1>5. Reload(x) \in Node(M, {Nobody}) /\ Idles(x, Reload(x))
    BY <1>3, ReloadFacts, ReloadIdles
  <1>6. Idles(x, r) /\ r \in Node(M, {Nobody})
    BY <1>1, <1>3, <1>5, StandingStillIdles
  <1> HIDE DEF r
  <1>7. Takes(c, r, q)
    BY <1>4, <1>6 DEF Idles, Keeps, Takes
  <1>8. QED
    BY <1>6, <1>7 DEF r, q

LEMMA HandleAppendEntriesFares ==
    ASSUME NEW M, Closed(M, {Nobody}), NEW s, WellMade(s, M, {Nobody}), NEW V \in SUBSET Server,
           NEW G, HistoryOK(G, V), NodeOK(s, G, V), NEW m \in AppendOf({Nobody}), m.term = s.term,
           AppendOK(m, G, V)
    PROVE  Fares(s, HandleAppendEntries(s, m), G, V)
  <1> DEFINE c == Concede(s, m)
             past == Past(s, m)
             covered == past.prev + Len(past.entries)
             L == G.log[s.term]
             r == Spliced(c, past.prev, past.entries)
             f == [r EXCEPT !.commit = FollowerCommit(@, m.commit, covered)]
             a1 == AppendReply(s, m, TRUE, s.snap.index, NoConflict)
             a2 == AppendReply(s, m, FALSE, 0, Conflict(s, past.prev))
             a3 == AppendReply(s, m, TRUE, covered, NoConflict)
  <1>1. /\ s \in Node(M, {Nobody}) /\ s.log \in Logs /\ Len(s.log) \in Nat /\ s.term \in Nat
        /\ s.snap.index \in Nat /\ G \in History /\ Sound(s.log, G) /\ s.commit \in Nat
        /\ s.applied \in Nat /\ UpTo(s.log, s.term) /\ Recorded(G)
    BY PlainNodes DEF WellMade, HistoryOK, NodeOK, LogOf
  <1>2. L \in Logs /\ Len(L) \in Nat /\ Sound(L, G) /\ Led(G, s.term)
    BY <1>1, HistoryTypes DEF HistoryOK, Recorded, AppendOK, Led
  <1>3. m.from \in Server /\ m.commit \in Nat /\ Settled(L, m.commit, s.term, G, V)
    BY DEF AppendOf, AppendOK
  <1>4. c \in Node(M, {Nobody}) /\ Sits(s, c) /\ c.role = "Follower"
    BY <1>3, ConcedeSits
  <1>5. /\ past.prev \in Nat /\ past.entries \in Logs
        /\ \A k \in 1 .. Len(past.entries) :
              past.prev + k <= Len(L) /\ past.entries[k] = L[past.prev + k]
        /\ Matches(s, past.prev, past.prevTerm) =>
              past.prev >= s.snap.index /\ Agree(s.log, L, past.prev)
    <2>1. /\ past.prev \in Nat
          /\ Matches(s, past.prev, past.prevTerm) => past.prev >= s.snap.index
      BY PastFacts
    <2>2. /\ past.entries \in Logs
          /\ \A k \in 1 .. Len(past.entries) :
                past.prev + k <= Len(L) /\ past.entries[k] = L[past.prev + k]
          /\ Matches(s, past.prev, past.prevTerm) => Agree(s.log, L, past.prev)
      BY PastIsLed
    <2> HIDE DEF past, L
    <2>3. QED
      BY <2>1, <2>2
  <1>6. covered \in Nat
    BY <1>5, LogTypes
  <1>7. /\ a1.from = s.id /\ a1.term = s.term /\ a1.type = "AppendReply" /\ a1.match = s.snap.index
        /\ a3.from = s.id /\ a3.term = s.term /\ a3.type = "AppendReply" /\ a3.match = covered
        /\ a2.type = "AppendReply" /\ ~a2.success
    BY DEF AppendReply
  <1>8. \/ HandleAppendEntries(s, m) = Does(c, {a1})
        \/ HandleAppendEntries(s, m) = Does(c, {a2})
        \/ Matches(s, past.prev, past.prevTerm) /\ HandleAppendEntries(s, m) = Does(f, {a3})
    BY DEF HandleAppendEntries
  <1> HIDE DEF c, past, L, a1, a2, a3
  <1>9. CASE HandleAppendEntries(s, m) = Does(c, {a1})
    <2>1. Agree(s.log, L, s.snap.index)
      BY <1>1, <1>2, SettledIsLed DEF NodeOK, Settles, L
    <2>2. Agree(c.log, L, s.snap.index) /\ Follows(s, c, G, V)
      BY <2>1, <1>1, <1>4, SittingFollows DEF Sits
    <2>3. Fares(s, Does(c, {a1}), G, V)
      BY <2>2, <1>1, <1>2, <1>4, <1>7, FollowingFares DEF L
    <2>4. QED
      BY <2>3, <1>9
  <1>10. CASE HandleAppendEntries(s, m) = Does(c, {a2})
    <2>1. Says({a2}, G, V)
      BY <1>7, OtherMessages DEF Says
    <2>2. Fares(s, Does(c, {a2}), G, V)
      BY <2>1, <1>1, <1>4, SittingFares
    <2>3. QED
      BY <2>2, <1>10
  <1>11. CASE Matches(s, past.prev, past.prevTerm) /\ HandleAppendEntries(s, m) = Does(f, {a3})
    <2> DEFINE q == Cut(c, past.prev, past.entries) \o Fresh(c, past.prev, past.entries)
    <2>1. c.log = s.log /\ c.snap = s.snap /\ c.id = s.id /\ c.term = s.term /\ c.commit = s.commit
          /\ c.applied = s.applied /\ c.building = s.building
      BY <1>4 DEF Sits
    <2>2. Joins(q, c, L, covered)
      BY <2>1, <1>1, <1>2, <1>4, <1>5, <1>11, SplicingJoins
    <2>3. Joins(q, s, L, covered) /\ q \in Logs
      BY <2>1, <2>2 DEF Joins
    <2>4. /\ r \in Node(M, {Nobody}) /\ r.id = s.id /\ r.term = s.term /\ r.role = "Follower"
          /\ r.log = q /\ r.commit = s.commit /\ r.applied = s.applied /\ r.snap = s.snap
          /\ r.building = s.building
      <3>1. r \in Node(M, {Nobody}) /\ Takes(c, r, q)
        BY <2>3, <1>4, SplicedIs
      <3> HIDE DEF r, q
      <3>2. QED
        BY <3>1, <2>1 DEF Takes
    <2> HIDE DEF r, q
    <2> DEFINE fc == FollowerCommit(s.commit, m.commit, covered)
    <2>5. fc \in Nat /\ (fc = s.commit \/ (fc <= m.commit /\ fc <= covered))
      BY <1>1, <1>3, <1>6, FollowerCommitIs
    <2>6. f = [r EXCEPT !.commit = fc]
      BY <2>4
    <2> HIDE DEF fc, f
    <2>7. f \in Node(M, {Nobody})
      BY <2>4, <2>5, <2>6 DEF Node
    <2>8. /\ f.id = s.id /\ f.term = s.term /\ f.role = "Follower" /\ f.log = q /\ f.commit = fc
          /\ f.applied = s.applied /\ f.snap = s.snap /\ f.building = s.building
      BY <2>4, <2>6 DEF Node
    <2>9. Sound(q, G) /\ UpTo(q, s.term)
      BY <2>3, <1>1, JoiningIsSound DEF L
    <2>10. ASSUME fc <= m.commit, fc <= covered PROVE Settled(q, fc, s.term, G, V)
      <3>1. Agree(q, L, covered) /\ Len(q) \in Nat
        BY <2>3, LogTypes DEF Joins
      <3>2. Agree(L, q, fc)
        BY <3>1, <2>5, <2>10, <1>2, <1>6 DEF Agree
      <3>3. QED
        BY <3>2, <2>3, <2>5, <2>10, <1>1, <1>2, <1>3, SettledOnAgreement
    <2>11. \A x \in {f.commit, f.applied, f.snap.index} :
              \/ x <= s.commit \/ x <= s.applied \/ x <= s.snap.index
              \/ Settled(f.log, x, f.term, G, V)
      BY <2>5, <2>8, <2>10, <1>1
    <2>12. \A i \in Nat : Agree(s.log, L, i) => Agree(f.log, L, i)
      BY <2>3, <2>8 DEF Joins
    <2>13. Follows(s, f, G, V)
      BY <2>8, <2>9, <2>11, <2>12, <1>1 DEF Follows, L
    <2>14. Agree(f.log, L, covered)
      BY <2>3, <2>8 DEF Joins
    <2> HIDE DEF covered
    <2>15. QED
      BY <2>7, <2>13, <2>14, <1>1, <1>2, <1>6, <1>7, <1>11, FollowingFares DEF L
  <1>12. QED
    BY <1>8, <1>9, <1>10, <1>11

-----------------------------------------------------------------------------
(* Restarts and snapshots, with the logs.                                  *)

LEMMA StartedIs ==
    ASSUME NEW M, NEW E, Closed(M, E), NEW n \in Server, NEW boot \in M, NEW st,
           st.term \in Nat, st.votedFor \in Maybe, st.snap \in SnapshotOf(M),
           st.log \in Seq(EntryOf(E))
    PROVE  LET r == Started(n, boot, st) IN
           /\ r.log = st.log /\ r.commit = st.snap.index /\ r.applied = st.snap.index
           /\ r.building.index = 0
  <1> DEFINE zero == [p \in Server |-> 0]
             pg == [p \in Server |-> Sent(0, 0)]
             u == [id |-> n, boot |-> boot, term |-> st.term, votedFor |-> st.votedFor,
                   log |-> st.log, snap |-> st.snap,
                   role |-> "Follower", leader |-> Nil, votes |-> {}, active |-> {}, start |-> 0,
                   commit |-> st.snap.index, applied |-> st.snap.index,
                   next |-> zero, match |-> zero,
                   progress |-> pg, departing |-> {},
                   members |-> Nobody, membersAt |-> 0,
                   incoming |-> NoIncoming, building |-> NotBuilding,
                   seq |-> 0, acked |-> zero, remote |-> {},
                   reads |-> {}, nextRead |-> 0]
             r == Reload(u)
  <1>1. st.snap.index \in Nat
    BY DEF SnapshotOf
  <1>2. Started(n, boot, st) = r
    BY DEF Started
  <1>3. zero \in [Server -> Nat] /\ pg \in [Server -> Sending]
    BY SizesAssumption DEF Sent, Sending
  <1>4. NoIncoming \in IncomingOf(M) /\ NotBuilding \in BuildingOf(M, E) /\ Nobody \in M
        /\ NotBuilding.index = 0
    BY DEF NoIncoming, NotBuilding, IncomingOf, BuildingOf, Closed
  <1> HIDE DEF zero, pg
  <1>5. u \in Node(M, E)
    BY <1>1, <1>3, <1>4 DEF Node, Maybe, Role
  <1>6. /\ u.log = st.log /\ u.commit = st.snap.index /\ u.applied = st.snap.index
        /\ u.building = NotBuilding
    OBVIOUS
  <1> HIDE DEF u
  <1>7. Idles(u, r)
    BY <1>5, ReloadIdles
  <1> HIDE DEF r
  <1>8. QED
    BY <1>2, <1>4, <1>6, <1>7 DEF Idles, Keeps

(* A restart on storage st.                                                *)
Begins(s, r, lg) ==
    /\ r.id = s.id /\ r.term = s.term /\ r.role = "Follower" /\ r.log = lg
    /\ r.commit = s.snap.index /\ r.applied = s.snap.index /\ r.snap = s.snap
    /\ r.building.index = 0

LEMMA StartingBegins ==
    ASSUME NEW M, Closed(M, {Nobody}), NEW s, WellMade(s, M, {Nobody}), NEW st,
           st.term = s.term, st.votedFor = s.votedFor, st.snap = s.snap,
           st.log \in Logs, s.snap.index <= Len(st.log)
    PROVE  /\ Started(s.id, s.boot, st) \in Node(M, {Nobody})
           /\ Begins(s, Started(s.id, s.boot, st), st.log)
  <1> DEFINE r == Started(s.id, s.boot, st)
  <1>1. /\ s.id \in Server /\ s.boot \in M /\ s.term \in Nat /\ st.log \in Seq(EntryOf({Nobody}))
        /\ s.votedFor \in Maybe /\ s.snap \in SnapshotOf(M)
    BY NodeTypes DEF WellMade, Logs, Plain
  <1>2. /\ r \in Node(M, {Nobody}) /\ r.id = s.id /\ r.term = s.term /\ r.role = "Follower"
        /\ r.snap = s.snap
    BY <1>1, StartedFacts
  <1>3. /\ r.log = st.log /\ r.commit = s.snap.index /\ r.applied = s.snap.index
        /\ r.building.index = 0
    BY <1>1, StartedIs
  <1> HIDE DEF r
  <1>4. QED
    BY <1>2, <1>3 DEF Begins, r

LEMMA RestartQuietly ==
    ASSUME NEW M, Closed(M, {Nobody}), NEW s, WellMade(s, M, {Nobody}), NEW G, NEW V,
           HistoryOK(G, V), NodeOK(s, G, V)
    PROVE  \E H : Quietly(s, Started(s.id, s.boot, Storage(s)), G, H, V)
  <1> DEFINE r == Started(s.id, s.boot, Storage(s))
  <1>1. s \in Node(M, {Nobody}) /\ s.log \in Logs /\ s.snap.index <= Len(s.log) /\ s.snap.index \in Nat
    BY PlainNodes DEF WellMade, Sized
  <1>2. /\ Storage(s).term = s.term /\ Storage(s).votedFor = s.votedFor
        /\ Storage(s).snap = s.snap /\ Storage(s).log = s.log
    BY DEF Storage
  <1>3. r \in Node(M, {Nobody}) /\ Begins(s, r, s.log)
    BY <1>1, <1>2, StartingBegins
  <1> HIDE DEF r
  <1>4. Rests(s, r, G)
    <2>1. Built(r)
      BY <1>1, <1>3 DEF Built, Begins
    <2>2. QED
      BY <2>1, <1>1, <1>3 DEF Begins, Rests
  <1>5. QED
    BY <1>1, <1>3, <1>4, RestsQuietly DEF r

(* handle_append_entries dies once it has cut the log.                     *)
LEMMA CrashAfterCutQuietly ==
    ASSUME NEW M, Closed(M, {Nobody}), NEW s, WellMade(s, M, {Nobody}), NEW V \in SUBSET Server,
           NEW G, HistoryOK(G, V), NodeOK(s, G, V), NEW m \in AppendOf({Nobody}), m.term = s.term,
           AppendOK(m, G, V), Matches(s, Past(s, m).prev, Past(s, m).prevTerm)
    PROVE  \E H : Quietly(s, Started(s.id, s.boot,
                     [Storage(s) EXCEPT !.log = Cut(s, Past(s, m).prev, Past(s, m).entries)]),
                     G, H, V)
  <1> DEFINE past == Past(s, m)
             cut == Cut(s, past.prev, past.entries)
             st == [Storage(s) EXCEPT !.log = cut]
             r == Started(s.id, s.boot, st)
             L == G.log[s.term]
  <1>1. /\ s \in Node(M, {Nobody}) /\ s.log \in Logs /\ Len(s.log) \in Nat /\ s.term \in Nat
        /\ s.snap.index \in Nat /\ G \in History /\ Sound(s.log, G) /\ UpTo(s.log, s.term)
        /\ Recorded(G)
    BY PlainNodes DEF WellMade, HistoryOK, NodeOK, LogOf
  <1>2. L \in Logs /\ Len(L) \in Nat /\ Sound(L, G) /\ Led(G, s.term)
    BY <1>1, HistoryTypes DEF HistoryOK, Recorded, AppendOK, Led
  <1>3. past.prev \in Nat /\ past.prev >= s.snap.index /\ past.prev <= Len(s.log)
    BY PastFacts
  <1>4. /\ past.entries \in Logs /\ Agree(s.log, L, past.prev)
        /\ \A k \in 1 .. Len(past.entries) :
              past.prev + k <= Len(L) /\ past.entries[k] = L[past.prev + k]
    <2>1. /\ past.entries \in Logs
          /\ \A k \in 1 .. Len(past.entries) :
                past.prev + k <= Len(L) /\ past.entries[k] = L[past.prev + k]
          /\ Matches(s, past.prev, past.prevTerm) => Agree(s.log, L, past.prev)
      BY PastIsLed
    <2> HIDE DEF L
    <2>2. Matches(s, past.prev, past.prevTerm)
      OBVIOUS
    <2> HIDE DEF past
    <2>3. QED
      BY <2>1, <2>2
  <1> HIDE DEF past, L
  <1>5. Joins(cut, s, L, 0)
    BY <1>1, <1>2, <1>3, <1>4, SplicingJoins
  <1>6. Len(cut) >= past.prev
    BY <1>1, <1>3, <1>4, SpliceFacts DEF Logs, Plain
  <1> HIDE DEF cut
  <1>7. cut \in Logs /\ s.snap.index <= Len(cut)
    BY <1>1, <1>3, <1>5, <1>6, LogTypes DEF Joins
  <1>8. st.term = s.term /\ st.votedFor = s.votedFor /\ st.snap = s.snap /\ st.log = cut
    BY DEF Storage
  <1> HIDE DEF st
  <1>9. r \in Node(M, {Nobody}) /\ Begins(s, r, cut)
    BY <1>7, <1>8, StartingBegins
  <1> HIDE DEF r
  <1>10. Sound(cut, G) /\ UpTo(cut, s.term)
    BY <1>1, <1>5, JoiningIsSound DEF L
  <1>11. \A i \in Nat : Agree(s.log, L, i) => Agree(cut, L, i)
    BY <1>5 DEF Joins
  <1>12. Follows(s, r, G, V)
    BY <1>1, <1>9, <1>10, <1>11 DEF Begins, Follows, L
  <1>13. Agree(r.log, L, 0)
    BY <1>5, <1>9 DEF Joins, Begins
  <1>14. PICK H : /\ Extends(G, H, s.id) /\ HistoryOK(H, V) /\ NodeOK(r, H, V)
                  /\ H.led = G.led /\ H.done = G.done /\ H.took[s.id][s.term] >= 0
    BY <1>1, <1>2, <1>9, <1>12, <1>13, FollowingKeeps DEF L
  <1>15. Quietly(s, r, G, H, V)
    BY <1>9, <1>14 DEF Quietly, Begins
  <1>16. QED
    BY <1>15 DEF r, st, cut, past

LEMMA BeginCompactionFares ==
    ASSUME NEW M, NEW s, WellMade(s, M, {Nobody}), Closed(M, {Nobody}), NEW G, NEW V,
           HistoryOK(G, V), NodeOK(s, G, V)
    PROVE  Fares(s, BeginCompaction(s), G, V)
  <1> DEFINE st == SubSeq(s.log, 1, s.applied)
             b == [index |-> s.applied, term |-> TermAt(s, s.applied),
                   members |-> MembersAt(s, s.applied), state |-> st]
             r == [s EXCEPT !.building = b]
  <1>1. /\ s \in Node(M, {Nobody}) /\ s.applied \in Nat /\ s.log \in Logs /\ Len(s.log) \in Nat
        /\ s.snap.index \in Nat /\ s.commit \in Nat /\ s.applied <= Len(s.log)
        /\ s.log \in Seq(EntryOf({Nobody}))
    BY PlainNodes, NodeTypes DEF WellMade, NodeOK, Settles, Settled
  <1>2. \/ BeginCompaction(s) = Only(s)
        \/ ~(s.applied <= s.snap.index) /\ TermAt(s, s.applied) # -1 /\ BeginCompaction(s) = Only(r)
    BY DEF BeginCompaction
  <1>3. ASSUME ~(s.applied <= s.snap.index), TermAt(s, s.applied) # -1
        PROVE  r \in Node(M, {Nobody}) /\ Rests(s, r, G)
    <2>1. s.applied > 0 /\ s.applied >= s.snap.index /\ TermAt(s, s.applied) \in Nat
      BY <1>1, <1>3, TermAtFacts
    <2>2. TermAt(s, s.applied) = s.log[s.applied].term
      BY <1>1, <2>1, TermAtIs
    <2>3. st \in Seq(EntryOf({Nobody})) /\ MembersAt(s, s.applied) \in M
      BY <1>1, MembersAtFacts
    <2> HIDE DEF st
    <2>4. b \in BuildingOf(M, {Nobody}) /\ b.index = s.applied /\ b.term = s.log[s.applied].term
      BY <1>1, <2>1, <2>2, <2>3 DEF BuildingOf
    <2> HIDE DEF b
    <2>5. r \in Node(M, {Nobody})
      BY <1>1, <2>4 DEF Node
    <2>6. /\ r.building = b /\ r.id = s.id /\ r.term = s.term /\ r.log = s.log /\ r.role = s.role
          /\ r.votes = s.votes /\ r.match = s.match /\ r.commit = s.commit
          /\ r.applied = s.applied /\ r.snap = s.snap
      BY <1>1 DEF Node
    <2> HIDE DEF r
    <2>7. Built(r)
      BY <2>4, <2>6, <1>1 DEF Built
    <2>8. \A p \in Server : s.match[p] \in Nat
      BY <1>1, NodeTypes
    <2>9. QED
      BY <2>5, <2>6, <2>7, <2>8, <1>1 DEF Rests
  <1> HIDE DEF r
  <1>4. CASE BeginCompaction(s) = Only(s)
    BY <1>4, <1>1, OnlyItself
  <1>5. CASE /\ ~(s.applied <= s.snap.index) /\ TermAt(s, s.applied) # -1
             /\ BeginCompaction(s) = Only(r)
    <2>1. Fares(s, Only(r), G, V)
      BY <1>1, <1>3, <1>5, RestingFares, SaysNothing DEF Only
    <2>2. QED
      BY <2>1, <1>5
  <1>6. QED
    BY <1>2, <1>4, <1>5

LEMMA FinishCompactionFares ==
    ASSUME NEW M, NEW s, WellMade(s, M, {Nobody}), Closed(M, {Nobody}), NEW G, NEW V,
           HistoryOK(G, V), NodeOK(s, G, V)
    PROVE  Fares(s, FinishCompaction(s), G, V)
  <1> DEFINE b == s.building
             u == [s EXCEPT !.building = NotBuilding]
             f == File(s.id, b.index)
             sn == [index |-> b.index, file |-> f, members |-> b.members]
             r == Installed(u, b, f, b.state)
             lg == IF TermAt(u, b.index) = b.term THEN u.log ELSE b.state
             w == [u EXCEPT !.log = lg, !.snap = sn]
  <1>1. /\ s \in Node(M, {Nobody}) /\ s.applied \in Nat /\ s.log \in Logs /\ Len(s.log) \in Nat
        /\ s.snap.index \in Nat /\ s.commit \in Nat /\ s.applied <= Len(s.log) /\ s.id \in Server
        /\ b \in BuildingOf(M, {Nobody})
    BY PlainNodes, NodeTypes DEF WellMade, NodeOK, Settles, Settled
  <1>2. /\ b.index \in Nat /\ b.members \in M /\ b.index <= s.applied
        /\ b.index > 0 => b.term = s.log[b.index].term
    BY <1>1 DEF BuildingOf, NodeOK, Built
  <1>3. f \in Seq(Piece) /\ NotBuilding \in BuildingOf(M, {Nobody}) /\ NotBuilding.index = 0
    BY <1>1, <1>2, FileFacts DEF NotBuilding, BuildingOf, Closed
  <1>4. FinishCompaction(s) = Only(r) /\ r = IF b.index <= u.snap.index THEN u ELSE w
    BY DEF FinishCompaction, Installed
  <1>5. u \in Node(M, {Nobody})
    BY <1>1, <1>3 DEF Node
  <1>6. /\ u.id = s.id /\ u.term = s.term /\ u.log = s.log /\ u.role = s.role
        /\ u.votes = s.votes /\ u.match = s.match /\ u.commit = s.commit
        /\ u.applied = s.applied /\ u.snap = s.snap /\ u.building = NotBuilding
    BY <1>1 DEF Node
  <1> HIDE DEF u, b, r, f
  <1>7. \A p \in Server : s.match[p] \in Nat
    BY <1>1, NodeTypes
  <1>8. Rests(s, u, G)
    <2>1. Built(u)
      BY <1>1, <1>3, <1>6 DEF Built
    <2>2. QED
      BY <2>1, <1>1, <1>6, <1>7 DEF Rests
  <1>9. ASSUME ~(b.index <= u.snap.index) PROVE w \in Node(M, {Nobody}) /\ Rests(s, w, G)
    <2>1. b.index > 0 /\ b.index >= u.snap.index /\ b.index <= Len(u.log)
      BY <1>1, <1>2, <1>6, <1>9
    <2>2. TermAt(u, b.index) = b.term
      BY <2>1, <1>2, <1>5, <1>6, TermAtIs
    <2>3. w = [u EXCEPT !.log = s.log, !.snap = sn] /\ sn \in SnapshotOf(M) /\ sn.index = b.index
      BY <2>2, <1>2, <1>3, <1>6 DEF SnapshotOf
    <2> HIDE DEF w, sn
    <2>4. w \in Node(M, {Nobody})
      BY <2>3, <1>1, <1>5 DEF Node
    <2>5. /\ w.id = s.id /\ w.term = s.term /\ w.log = s.log /\ w.role = s.role
          /\ w.votes = s.votes /\ w.match = s.match /\ w.commit = s.commit
          /\ w.applied = s.applied /\ w.snap = sn /\ w.building = NotBuilding
      BY <2>3, <1>5, <1>6 DEF Node
    <2>6. Built(w)
      BY <1>1, <1>3, <2>5 DEF Built
    <2>7. QED
      BY <2>3, <2>4, <2>5, <2>6, <1>1, <1>2, <1>7 DEF Rests
  <1> HIDE DEF w
  <1>10. r \in Node(M, {Nobody}) /\ Rests(s, r, G)
    BY <1>4, <1>5, <1>8, <1>9
  <1>11. Fares(s, Only(r), G, V)
    BY <1>1, <1>10, RestingFares, SaysNothing DEF Only
  <1>12. QED
    BY <1>4, <1>11

(* What handle_install_snapshot does, case by case.                        *)
LEMMA InstallCases ==
    ASSUME NEW s, NEW m
    PROVE  LET c == Concede(s, m)
               h == HeldOf(s, m)
               g == Grown(s, m)
               a == [c EXCEPT !.incoming = NoIncoming]
               done == Reload(Installed(a, g, g.pieces, m.state))
               r == [done EXCEPT !.commit = Max({@, m.index}), !.applied = Max({@, m.index})]
           IN  \/ /\ Unwanted(s, m)
                  /\ HandleInstallSnapshot(s, m) = Does(a, {SnapshotReply(s, m, 0, TRUE)})
               \/ HandleInstallSnapshot(s, m) = Does(c, {SnapshotReply(s, m, 0, FALSE)})
               \/ HandleInstallSnapshot(s, m) = Does(c, {SnapshotReply(s, m, h, FALSE)})
               \/ /\ m.offset = h /\ ~m.done
                  /\ HandleInstallSnapshot(s, m) =
                        Does([c EXCEPT !.incoming = g], {SnapshotReply(s, m, h + 1, FALSE)})
               \/ /\ m.offset = h /\ m.done
                  /\ HandleInstallSnapshot(s, m) = Does(r, {SnapshotReply(s, m, h + 1, TRUE)})
  <1> DEFINE c == Concede(s, m)
             h == HeldOf(s, m)
             g == Grown(s, m)
             a == [c EXCEPT !.incoming = NoIncoming]
             b == [c EXCEPT !.incoming = g]
             done == Reload(Installed(a, g, g.pieces, m.state))
             r == [done EXCEPT !.commit = Max({@, m.index}), !.applied = Max({@, m.index})]
             begun == IF Continuing(s, m) THEN s.incoming
                      ELSE [from |-> m.from, index |-> m.index, term |-> m.lastTerm,
                            members |-> m.members, pieces |-> <<>>]
  <1>1. Len(begun.pieces) = h
    <2>1. CASE Continuing(s, m)
      BY <2>1 DEF HeldOf
    <2>2. CASE ~Continuing(s, m)
      BY <2>2 DEF HeldOf
    <2>3. QED
      BY <2>1, <2>2
  <1>2. [begun EXCEPT !.pieces = Append(@, m.data)] = g
    BY DEF Grown
  <1>3. HandleInstallSnapshot(s, m) =
          IF Unwanted(s, m) THEN Does(a, {SnapshotReply(s, m, 0, TRUE)})
          ELSE IF ~Continuing(s, m) /\ m.offset # 0 THEN Does(c, {SnapshotReply(s, m, 0, FALSE)})
          ELSE IF m.offset # h THEN Does(c, {SnapshotReply(s, m, h, FALSE)})
          ELSE IF ~m.done THEN Does(b, {SnapshotReply(s, m, h + 1, FALSE)})
          ELSE Does(r, {SnapshotReply(s, m, h + 1, TRUE)})
    <2> DEFINE held == Len(begun.pieces)
               grown == [begun EXCEPT !.pieces = Append(@, m.data)]
               full == Reload(Installed([c EXCEPT !.incoming = NoIncoming],
                                        grown, grown.pieces, m.state))
    <2>1. HandleInstallSnapshot(s, m) =
            IF Unwanted(s, m) THEN Does(a, {SnapshotReply(s, m, 0, TRUE)})
            ELSE IF ~Continuing(s, m) /\ m.offset # 0
            THEN Does(c, {SnapshotReply(s, m, 0, FALSE)})
            ELSE IF m.offset # held THEN Does(c, {SnapshotReply(s, m, held, FALSE)})
            ELSE IF ~m.done
            THEN Does([c EXCEPT !.incoming = grown], {SnapshotReply(s, m, held + 1, FALSE)})
            ELSE Does([full EXCEPT !.commit = Max({@, m.index}), !.applied = Max({@, m.index})],
                      {SnapshotReply(s, m, held + 1, TRUE)})
      BY Zenon DEF HandleInstallSnapshot
    <2>2. held = h /\ grown = g
      BY <1>1, <1>2
    <2> HIDE DEF held, grown, h, g
    <2>3. QED
      BY <2>1, <2>2, Zenon
  <1> HIDE DEF h, a, b, c, r
  <1>4. \/ /\ Unwanted(s, m)
           /\ HandleInstallSnapshot(s, m) = Does(a, {SnapshotReply(s, m, 0, TRUE)})
        \/ HandleInstallSnapshot(s, m) = Does(c, {SnapshotReply(s, m, 0, FALSE)})
        \/ HandleInstallSnapshot(s, m) = Does(c, {SnapshotReply(s, m, h, FALSE)})
        \/ /\ m.offset = h /\ ~m.done
           /\ HandleInstallSnapshot(s, m) = Does(b, {SnapshotReply(s, m, h + 1, FALSE)})
        \/ /\ m.offset = h /\ m.done
           /\ HandleInstallSnapshot(s, m) = Does(r, {SnapshotReply(s, m, h + 1, TRUE)})
    BY <1>3, Zenon
  <1>5. QED
    BY <1>4, Zenon DEF h, a, b, c, r

LEMMA GrownTerm ==
    ASSUME NEW M, NEW E, NEW s, WellMade(s, M, E), NEW m
    PROVE  Grown(s, m).term = m.lastTerm
  <1>1. s.incoming \in IncomingOf(M)
    BY DEF WellMade, Node
  <1>2. CASE Continuing(s, m)
    <2>1. Grown(s, m) = [s.incoming EXCEPT !.pieces = Append(@, m.data)]
      BY <1>2 DEF Grown
    <2>2. QED
      BY <2>1, <1>1, <1>2 DEF Continuing, IncomingOf
  <1>3. CASE ~Continuing(s, m)
    <2> DEFINE x == [from |-> m.from, index |-> m.index, term |-> m.lastTerm,
                     members |-> m.members, pieces |-> <<>>]
    <2>1. Grown(s, m) = [x EXCEPT !.pieces = Append(@, m.data)]
      BY <1>3 DEF Grown
    <2>2. QED
      BY <2>1
  <1>4. QED
    BY <1>2, <1>3

(* The log under a snapshot that is installed.                             *)
InstalledLog(s, m) ==
    IF m.index <= s.snap.index \/ TermAt(s, m.index) = m.lastTerm THEN s.log ELSE m.state

LEMMA InstallingJoins ==
    ASSUME NEW M, NEW s, WellMade(s, M, {Nobody}), NEW V \in SUBSET Server, NEW G,
           HistoryOK(G, V), NodeOK(s, G, V), NEW m \in InstallOf(M, {Nobody}), Len(m.state) = m.index,
           m.term = s.term, InstallOK(m, G, V)
    PROVE  Joins(InstalledLog(s, m), s, G.log[s.term], m.index)
  <1> DEFINE L == G.log[s.term]
             q == InstalledLog(s, m)
  <1>1. /\ s \in Node(M, {Nobody}) /\ s.log \in Logs /\ Len(s.log) \in Nat /\ s.term \in Nat
        /\ s.snap.index \in Nat /\ G \in History /\ Sound(s.log, G)
    BY PlainNodes DEF WellMade, HistoryOK, NodeOK, LogOf
  <1>2. L \in Logs /\ Len(L) \in Nat /\ Sound(L, G) /\ Led(G, s.term)
    BY <1>1, HistoryTypes DEF HistoryOK, Recorded, InstallOK, Led
  <1>3. /\ m.index \in Nat /\ m.index > 0 /\ m.state \in Logs /\ Agree(m.state, L, m.index)
        /\ Has(L, m.lastTerm, m.index) /\ m.lastTerm \in Nat
    BY DEF InstallOf, InstallOK, Logs, Plain
  <1>4. CASE m.index <= s.snap.index
    <2>1. Agree(s.log, L, s.snap.index)
      BY <1>1, <1>2, SettledIsLed DEF NodeOK, Settles
    <2> HIDE DEF L
    <2>2. Agree(s.log, L, m.index)
      BY <2>1, <1>1, <1>2, <1>3, <1>4 DEF Agree
    <2>3. QED
      BY <2>2, <1>1, <1>4 DEF Joins, InstalledLog, L
  <1> HIDE DEF L
  <1>5. CASE ~(m.index <= s.snap.index) /\ TermAt(s, m.index) = m.lastTerm
    <2>1. m.index <= Len(s.log)
      BY <1>1, <1>3, <1>5, TermAtFacts
    <2>2. s.log[m.index].term = m.lastTerm
      BY <2>1, <1>1, <1>3, <1>5, TermAtIs
    <2>3. Has(s.log, m.lastTerm, m.index)
      BY <2>1, <2>2, <1>1, <1>3 DEF Has
    <2>4. Agree(s.log, L, m.index)
      BY <2>3, <1>1, <1>2, <1>3, SoundLogsMeet
    <2>5. QED
      BY <2>4, <1>1, <1>5 DEF Joins, InstalledLog, L
  <1>6. CASE ~(m.index <= s.snap.index) /\ TermAt(s, m.index) # m.lastTerm
    <2>1. q = m.state
      BY <1>6 DEF InstalledLog
    <2>2. ASSUME NEW i \in Nat, Agree(s.log, L, i) PROVE Agree(m.state, L, i)
      <3>1. CASE i <= m.index
        BY <3>1, <2>2, <1>2, <1>3, LogTypes DEF Agree
      <3>2. CASE i > m.index
        <4>1. m.index \in 1 .. i /\ m.index <= Len(s.log)
          BY <3>2, <2>2, <1>1, <1>3 DEF Agree
        <4>2. s.log[m.index].term = m.lastTerm
          BY <4>1, <2>2, <1>3 DEF Agree, Has
        <4>3. TermAt(s, m.index) = m.lastTerm
          BY <4>1, <4>2, <1>1, <1>3, <1>6, TermAtIs
        <4>4. QED
          BY <4>3, <1>6
      <3>3. QED
        BY <3>1, <3>2, <1>3
    <2>3. QED
      BY <2>1, <2>2, <1>3 DEF Joins, L
  <1>7. QED
    BY <1>4, <1>5, <1>6

(* A node that has installed the snapshot of m.                            *)
Takeover(s, r, m) ==
    /\ r.id = s.id /\ r.term = s.term /\ r.role = "Follower" /\ r.log = InstalledLog(s, m)
    /\ r.commit \in {s.commit, m.index} /\ r.applied \in {s.applied, m.index}
    /\ r.snap.index \in {s.snap.index, m.index} /\ r.applied >= s.applied
    /\ r.building = s.building

LEMMA InstallingTakesOver ==
    ASSUME NEW M, Closed(M, {Nobody}), NEW s, WellMade(s, M, {Nobody}),
           NEW m \in InstallOf(M, {Nobody}), Exact(m), Fits(s, m), NEW a \in Node(M, {Nobody}),
           Sits(s, a), a.role = "Follower", NEW r,
           LET g == Grown(s, m)
               done == Reload(Installed(a, g, g.pieces, m.state))
           IN  r = [done EXCEPT !.commit = Max({@, m.index}), !.applied = Max({@, m.index})]
    PROVE  r \in Node(M, {Nobody}) /\ Takeover(s, r, m)
  <1> DEFINE g == Grown(s, m)
             i == Installed(a, g, g.pieces, m.state)
             d == Reload(i)
             lg == IF TermAt(a, g.index) = g.term THEN a.log ELSE m.state
             sn == [index |-> g.index, file |-> g.pieces, members |-> g.members]
             w == [a EXCEPT !.log = lg, !.snap = sn]
  <1>1. /\ m.index \in Nat /\ m.lastTerm \in Nat /\ m.type = "InstallSnapshot"
        /\ m.state \in Seq(EntryOf({Nobody})) /\ Len(m.state) = m.index
    BY DEF InstallOf, Exact
  <1>2. /\ g \in IncomingOf(M) /\ g.index = m.index /\ g.term = m.lastTerm
    BY GrownFacts, GrownTerm
  <1>3. g.members \in M /\ g.pieces \in Seq(Piece)
    BY <1>2 DEF IncomingOf
  <1>4. r = [d EXCEPT !.commit = Max({@, m.index}), !.applied = Max({@, m.index})]
    OBVIOUS
  <1>5. i = IF g.index <= a.snap.index THEN a ELSE w
    BY DEF Installed
  <1>6. /\ a.id = s.id /\ a.term = s.term /\ a.log = s.log /\ a.commit = s.commit
        /\ a.applied = s.applied /\ a.snap = s.snap /\ a.building = s.building
    BY DEF Sits
  <1>7. TermAt(a, m.index) = TermAt(s, m.index)
    BY <1>6 DEF TermAt, LastIndex
  <1>8. i \in Node(M, {Nobody})
    <2>1. Sized(a)
      BY <1>6 DEF Sized, WellMade
    <2> HIDE DEF g
    <2>2. QED
      BY <2>1, <1>1, <1>2, <1>3, InstalledFacts
  <1>9. lg = IF TermAt(s, m.index) = m.lastTerm THEN s.log ELSE m.state
    BY <1>2, <1>6, <1>7
  <1> HIDE DEF g, i, d, lg
  <1>10. /\ w.id = a.id /\ w.term = a.term /\ w.log = lg /\ w.commit = a.commit
         /\ w.applied = a.applied /\ w.snap = sn /\ w.building = a.building /\ w.role = a.role
    BY DEF Node
  <1> HIDE DEF w
  <1>11. sn.index = m.index
    BY <1>2
  <1> HIDE DEF sn
  <1>12. /\ i.id = s.id /\ i.term = s.term /\ i.role = "Follower" /\ i.log = InstalledLog(s, m)
         /\ i.commit = s.commit /\ i.applied = s.applied
         /\ i.snap.index \in {s.snap.index, m.index} /\ i.building = s.building
    <2>1. CASE m.index <= s.snap.index
      <3>1. i = a
        BY <2>1, <1>2, <1>5, <1>6
      <3>2. QED
        BY <3>1, <2>1, <1>6 DEF InstalledLog
    <2>2. CASE ~(m.index <= s.snap.index)
      <3>1. i = w
        BY <2>2, <1>2, <1>5, <1>6
      <3>2. InstalledLog(s, m) = lg
        BY <2>2, <1>9 DEF InstalledLog
      <3>3. QED
        BY <3>1, <3>2, <1>6, <1>10, <1>11
    <2>3. QED
      BY <2>1, <2>2
  <1>13. d \in Node(M, {Nobody}) /\ Idles(i, d)
    BY <1>8, ReloadFacts, ReloadIdles DEF d
  <1>14. /\ d.id = s.id /\ d.term = s.term /\ d.role = "Follower" /\ d.log = InstalledLog(s, m)
         /\ d.commit = s.commit /\ d.applied = s.applied
         /\ d.snap.index \in {s.snap.index, m.index} /\ d.building = s.building
    BY <1>12, <1>13 DEF Idles, Keeps
  <1> DEFINE mc == Max({d.commit, m.index})
             ma == Max({d.applied, m.index})
  <1>15. r = [d EXCEPT !.commit = mc, !.applied = ma]
    BY <1>4
  <1>16. d.commit \in Nat /\ d.applied \in Nat
    BY <1>13, NodeTypes
  <1>17. \A x, y \in Nat : Max({x, y}) = IF x >= y THEN x ELSE y
    BY DEF Max
  <1>18. /\ mc \in Nat /\ ma \in Nat /\ mc \in {s.commit, m.index} /\ ma \in {s.applied, m.index}
         /\ ma >= s.applied
    <2>1. mc = IF d.commit >= m.index THEN d.commit ELSE m.index
      BY <1>1, <1>16, <1>17
    <2>2. ma = IF d.applied >= m.index THEN d.applied ELSE m.index
      BY <1>1, <1>16, <1>17
    <2> HIDE DEF mc, ma
    <2>3. QED
      BY <2>1, <2>2, <1>1, <1>14, <1>16
  <1> HIDE DEF mc, ma
  <1> DEFINE e == [d EXCEPT !.commit = mc, !.applied = ma]
  <1>19. e \in Node(M, {Nobody})
    BY <1>13, <1>18 DEF Node
  <1>20. /\ e.id = d.id /\ e.term = d.term /\ e.role = d.role /\ e.log = d.log /\ e.snap = d.snap
         /\ e.building = d.building /\ e.commit = mc /\ e.applied = ma
    BY <1>13 DEF Node
  <1> HIDE DEF e
  <1>21. Takeover(s, e, m)
    BY <1>14, <1>18, <1>20 DEF Takeover
  <1>22. QED
    BY <1>15, <1>19, <1>21 DEF e

LEMMA TakingOverFollows ==
    ASSUME NEW M, NEW s, WellMade(s, M, {Nobody}), NEW V \in SUBSET Server, NEW G,
           HistoryOK(G, V), NodeOK(s, G, V), NEW m \in InstallOf(M, {Nobody}), Len(m.state) = m.index,
           m.term = s.term, InstallOK(m, G, V), NEW r \in Node(M, {Nobody}), Takeover(s, r, m)
    PROVE  Follows(s, r, G, V) /\ Agree(r.log, G.log[s.term], m.index)
  <1> DEFINE L == G.log[s.term]
             q == InstalledLog(s, m)
  <1>1. /\ s \in Node(M, {Nobody}) /\ s.term \in Nat /\ G \in History /\ Recorded(G)
        /\ s.commit \in Nat /\ s.applied \in Nat /\ s.snap.index \in Nat
        /\ Sound(s.log, G) /\ UpTo(s.log, s.term)
    BY PlainNodes DEF WellMade, HistoryOK, NodeOK, LogOf
  <1>2. L \in Logs /\ Len(L) \in Nat /\ m.index \in Nat /\ Settled(L, m.index, s.term, G, V)
    BY <1>1, HistoryTypes DEF InstallOK, InstallOf
  <1>3. Joins(q, s, L, m.index)
    BY InstallingJoins
  <1>4. Sound(q, G) /\ UpTo(q, s.term)
    BY <1>1, <1>3, JoiningIsSound
  <1> HIDE DEF L, q
  <1>5. Settled(q, m.index, s.term, G, V)
    <2>1. q \in Logs /\ Agree(L, q, m.index)
      BY <1>3 DEF Joins, Agree
    <2>2. m.index <= m.index
      BY <1>2
    <2>3. QED
      BY <2>1, <2>2, <1>1, <1>2, SettledOnAgreement
  <1>6. r.log = q /\ r.term = s.term
    BY DEF Takeover, q
  <1>7. \A x \in {r.commit, r.applied, r.snap.index} :
           \/ x <= s.commit \/ x <= s.applied \/ x <= s.snap.index
           \/ Settled(r.log, x, r.term, G, V)
    BY <1>1, <1>5, <1>6 DEF Takeover
  <1>8. /\ Agree(r.log, L, m.index)
        /\ \A i \in Nat : Agree(s.log, L, i) => Agree(r.log, L, i)
    BY <1>3, <1>6 DEF Joins
  <1>9. Follows(s, r, G, V)
    BY <1>4, <1>6, <1>7, <1>8 DEF Follows, Takeover, L
  <1>10. QED
    BY <1>8, <1>9 DEF L

LEMMA IncomingSits ==
    ASSUME NEW M, NEW s \in Node(M, {Nobody}), NEW c \in Node(M, {Nobody}), Sits(s, c),
           c.role = "Follower", NEW x \in IncomingOf(M)
    PROVE  /\ [c EXCEPT !.incoming = x] \in Node(M, {Nobody}) /\ Sits(s, [c EXCEPT !.incoming = x])
           /\ [c EXCEPT !.incoming = x].role = "Follower"
  <1> DEFINE a == [c EXCEPT !.incoming = x]
  <1>1. a \in Node(M, {Nobody})
    BY DEF Node
  <1>2. /\ a.id = c.id /\ a.term = c.term /\ a.log = c.log /\ a.commit = c.commit
        /\ a.applied = c.applied /\ a.snap = c.snap /\ a.building = c.building /\ a.role = c.role
    BY DEF Node
  <1> HIDE DEF a
  <1>3. Sits(s, a)
    BY <1>2 DEF Sits, Office
  <1>4. QED
    BY <1>1, <1>2, <1>3 DEF a

LEMMA HandleInstallSnapshotFares ==
    ASSUME NEW M, Closed(M, {Nobody}), NEW s, WellMade(s, M, {Nobody}), NEW V \in SUBSET Server,
           NEW G, HistoryOK(G, V), NodeOK(s, G, V), NEW m \in InstallOf(M, {Nobody}), Exact(m),
           Fits(s, m), m.term = s.term, InstallOK(m, G, V)
    PROVE  Fares(s, HandleInstallSnapshot(s, m), G, V)
  <1> DEFINE c == Concede(s, m)
             h == HeldOf(s, m)
             g == Grown(s, m)
             a == [c EXCEPT !.incoming = NoIncoming]
             b == [c EXCEPT !.incoming = g]
             done == Reload(Installed(a, g, g.pieces, m.state))
             r == [done EXCEPT !.commit = Max({@, m.index}), !.applied = Max({@, m.index})]
             a1 == SnapshotReply(s, m, 0, TRUE)
             a2 == SnapshotReply(s, m, 0, FALSE)
             a3 == SnapshotReply(s, m, h, FALSE)
             a4 == SnapshotReply(s, m, h + 1, FALSE)
             a5 == SnapshotReply(s, m, h + 1, TRUE)
  <1>1. /\ s \in Node(M, {Nobody}) /\ s.term \in Nat /\ G \in History /\ s.commit \in Nat
        /\ s.log \in Logs /\ Led(G, s.term) /\ m.from \in Server /\ m.index \in Nat
    BY PlainNodes DEF WellMade, HistoryOK, InstallOf, InstallOK, Led
  <1>2. Len(m.state) = m.index /\ g \in IncomingOf(M)
    BY GrownFacts DEF Exact, InstallOf
  <1>3. NoIncoming \in IncomingOf(M)
    BY DEF NoIncoming, IncomingOf, Closed
  <1>4. \/ Unwanted(s, m) /\ HandleInstallSnapshot(s, m) = Does(a, {a1})
        \/ HandleInstallSnapshot(s, m) = Does(c, {a2})
        \/ HandleInstallSnapshot(s, m) = Does(c, {a3})
        \/ HandleInstallSnapshot(s, m) = Does(b, {a4})
        \/ HandleInstallSnapshot(s, m) = Does(r, {a5})
    BY InstallCases, Zenon
  <1>5. /\ a1.from = s.id /\ a1.term = s.term /\ a1.type = "SnapshotReply" /\ a1.index = m.index
        /\ a5.from = s.id /\ a5.term = s.term /\ a5.type = "SnapshotReply" /\ a5.index = m.index
        /\ \A x \in {a2, a3, a4} : x.type = "SnapshotReply" /\ ~x.done
    BY DEF SnapshotReply
  <1>6. c \in Node(M, {Nobody}) /\ Sits(s, c) /\ c.role = "Follower"
    BY <1>1, ConcedeSits
  <1> HIDE DEF c, g, a1, a2, a3, a4, a5
  <1>7. /\ a \in Node(M, {Nobody}) /\ Sits(s, a) /\ a.role = "Follower"
        /\ b \in Node(M, {Nobody}) /\ Sits(s, b) /\ b.role = "Follower"
    <2>1. a \in Node(M, {Nobody}) /\ Sits(s, a) /\ a.role = "Follower"
      BY <1>1, <1>3, <1>6, IncomingSits
    <2>2. b \in Node(M, {Nobody}) /\ Sits(s, b) /\ b.role = "Follower"
      BY <1>1, <1>2, <1>6, IncomingSits
    <2>3. QED
      BY <2>1, <2>2
  <1>8. Says({a2}, G, V) /\ Says({a3}, G, V) /\ Says({a4}, G, V)
    BY <1>5, OtherMessages DEF Says
  <1> HIDE DEF b
  <1>9. Fares(s, Does(c, {a2}), G, V) /\ Fares(s, Does(c, {a3}), G, V)
    BY <1>1, <1>6, <1>8, SittingFares
  <1>10. Fares(s, Does(b, {a4}), G, V)
    BY <1>1, <1>7, <1>8, SittingFares
  <1>11. r \in Node(M, {Nobody}) /\ Takeover(s, r, m)
    <2> HIDE DEF a
    <2>1. QED
      BY <1>7, InstallingTakesOver DEF g
  <1> HIDE DEF a, r
  <1>12. Fares(s, Does(r, {a5}), G, V)
    <2>1. Follows(s, r, G, V) /\ Agree(r.log, G.log[s.term], m.index)
      BY <1>2, <1>11, TakingOverFollows
    <2>2. QED
      BY <2>1, <1>1, <1>5, <1>11, FollowingFares
  <1>13. ASSUME Unwanted(s, m) PROVE Fares(s, Does(a, {a1}), G, V)
    <2>1. m.index <= s.commit
      BY <1>13 DEF Unwanted
    <2>2. Settled(s.log, m.index, s.term, G, V)
      BY <2>1, <1>1, SettledBelow DEF NodeOK, Settles
    <2>3. Agree(s.log, G.log[s.term], m.index)
      BY <2>2, <1>1, SettledIsLed
    <2>4. Follows(s, a, G, V) /\ Agree(a.log, G.log[s.term], m.index)
      BY <2>3, <1>1, <1>7, SittingFollows DEF Sits
    <2>5. QED
      BY <2>4, <1>1, <1>5, <1>7, FollowingFares
  <1>14. QED
    BY <1>4, <1>9, <1>10, <1>12, <1>13

-----------------------------------------------------------------------------
(* tick and step, with the logs.                                           *)

LEMMA SittingTwice ==
    ASSUME NEW M, NEW E, NEW s \in Node(M, E), NEW u \in Node(M, E), NEW r \in Node(M, E),
           Sits(s, u), Sits(u, r)
    PROVE  Sits(s, r)
  <1>1. \A p \in Server : s.match[p] \in Nat /\ u.match[p] \in Nat /\ r.match[p] \in Nat
    BY NodeTypes
  <1>2. QED
    BY <1>1 DEF Sits

LEMMA StayingFollowerSits ==
    ASSUME NEW M, NEW s \in Node(M, {Nobody})
    PROVE  BecomeFollower(s, s.term) \in Node(M, {Nobody}) /\ Sits(s, BecomeFollower(s, s.term))
  <1> DEFINE r == BecomeFollower(s, s.term)
  <1>1. s.term \in Nat
    BY NodeTypes
  <1>2. r \in Node(M, {Nobody})
    BY <1>1 DEF BecomeFollower, Node, Role, Maybe
  <1>3. /\ r.id = s.id /\ r.term = s.term /\ r.log = s.log /\ r.commit = s.commit
        /\ r.applied = s.applied /\ r.snap = s.snap /\ r.building = s.building
        /\ r.role = "Follower"
    BY <1>1 DEF BecomeFollower, Node
  <1> HIDE DEF r
  <1>4. QED
    BY <1>2, <1>3 DEF Sits, Office, r

LEMMA CheckQuorumSits ==
    ASSUME NEW M, NEW s \in Node(M, {Nobody})
    PROVE  CheckQuorum(s) \in Node(M, {Nobody}) /\ Sits(s, CheckQuorum(s))
  <1> DEFINE r == [s EXCEPT !.active = {}]
  <1>1. r \in Node(M, {Nobody})
    BY DEF Node
  <1>2. /\ r.id = s.id /\ r.term = s.term /\ r.log = s.log /\ r.commit = s.commit
        /\ r.applied = s.applied /\ r.snap = s.snap /\ r.building = s.building
        /\ r.role = s.role /\ r.votes = s.votes /\ r.match = s.match
    BY DEF Node
  <1> HIDE DEF r
  <1>3. Sits(s, r)
    <2>1. \A p \in Server : s.match[p] \in Nat
      BY NodeTypes
    <2>2. QED
      BY <2>1, <1>2 DEF Sits
  <1>4. CheckQuorum(s) = r \/ CheckQuorum(s) = BecomeFollower(s, s.term)
    BY DEF CheckQuorum, r
  <1>5. QED
    BY <1>1, <1>3, <1>4, StayingFollowerSits

LEMMA NobodyIsPromoted ==
    ASSUME NEW V, NEW s \in Node(Standing(V), {Nobody})
    PROVE  MaybePromote(s) = {Only(s)}
  <1>1. s.members \in Standing(V)
    BY DEF Node
  <1>2. CaughtUp(s) = {}
    BY <1>1 DEF Standing, Nobody, CaughtUp
  <1>3. QED
    BY <1>2 DEF MaybePromote

LEMMA TickFares ==
    ASSUME NEW V \in SUBSET Server, NEW s, WellMade(s, Standing(V), {Nobody}), NEW G,
           HistoryOK(G, V), NodeOK(s, G, V), NEW due, NEW d \in Tick(s, due), Alone(d, G)
    PROVE  Fares(s, d, G, V)
  <1> DEFINE M == Standing(V)
             beat == IF due = "heartbeat" THEN BroadcastAppend(s) ELSE Only(s)
             last(p) == IF due = "election" THEN CheckQuorum(p.s) ELSE p.s
             f == [s EXCEPT !.role = "Follower"]
  <1>1. s \in Node(M, {Nobody}) /\ Closed(M, {Nobody})
    BY StandingIsClosed DEF WellMade
  <1>2. \/ d = Only(BecomeFollower(s, s.term))
        \/ /\ s.role = "Leader"
           /\ \E p \in MaybePromote(beat.s) : d = Does(last(p), beat.out \cup p.out)
        \/ d = Only(s)
        \/ d = BecomePreCandidate(s)
        \/ d = Only(f)
    BY DEF Tick
  <1>3. CASE d = Only(BecomeFollower(s, s.term))
    BY <1>1, <1>3, StayingFollowerSits, OnlySits
  <1>4. ASSUME s.role = "Leader", NEW p \in MaybePromote(beat.s),
               d = Does(last(p), beat.out \cup p.out)
        PROVE  Fares(s, d, G, V)
    <2>1. beat.s \in Node(M, {Nobody}) /\ Idles(s, beat.s) /\ Says(beat.out, G, V)
      <3>1. Only(s).s = s /\ Only(s).out = {}
        BY DEF Only, Does
      <3>2. Only(s).s \in Node(M, {Nobody}) /\ Idles(s, Only(s).s) /\ Says(Only(s).out, G, V)
        BY <3>1, <1>1, StandingStillIdles, SaysNothing
      <3>3. BroadcastAppend(s).s \in Node(M, {Nobody})
        BY <1>1, BroadcastAppendFacts
      <3>4. Idles(s, BroadcastAppend(s).s) /\ Says(BroadcastAppend(s).out, G, V)
        BY <1>1, <1>4, BroadcastAppendFares
      <3>5. QED
        BY <3>2, <3>3, <3>4
    <2> HIDE DEF beat
    <2>2. p = Only(beat.s)
      BY <2>1, <1>4, NobodyIsPromoted
    <2>3. p.s = beat.s /\ p.out = {}
      BY <2>2 DEF Only, Does
    <2>4. last(p) \in Node(M, {Nobody}) /\ Sits(beat.s, last(p))
      BY <2>1, <2>3, CheckQuorumSits, ItselfSits
    <2> DEFINE l == last(p)
    <2>5. d = Does(l, beat.out)
      BY <2>3, <1>4
    <2> HIDE DEF l, last
    <2>6. l \in Node(M, {Nobody}) /\ Sits(s, l)
      BY <2>1, <2>4, <1>1, IdlingSits, SittingTwice DEF l
    <2>7. Fares(s, Does(l, beat.out), G, V)
      BY <2>1, <2>6, <1>1, SittingFares
    <2>8. QED
      BY <2>5, <2>7
  <1>5. CASE d = Only(s)
    BY <1>1, <1>5, OnlyItself
  <1>6. CASE d = BecomePreCandidate(s)
    BY <1>6, BecomePreCandidateFares
  <1>7. CASE d = Only(f)
    <2>1. f \in Node(M, {Nobody})
      BY <1>1 DEF Node, Role
    <2>2. /\ f.id = s.id /\ f.term = s.term /\ f.log = s.log /\ f.commit = s.commit
          /\ f.applied = s.applied /\ f.snap = s.snap /\ f.building = s.building
          /\ f.role = "Follower"
      BY <1>1 DEF Node
    <2> HIDE DEF f
    <2>3. Sits(s, f)
      BY <2>2 DEF Sits, Office
    <2>4. QED
      BY <2>1, <2>3, <1>1, <1>7, OnlySits
  <1>8. QED
    BY <1>2, <1>3, <1>4, <1>5, <1>6, <1>7

LEMMA ReplyStaleIsOK ==
    ASSUME NEW s, NEW m, NEW G, NEW V,
           m.type \in {"RequestVote", "AppendEntries", "InstallSnapshot", "ReadIndex"}
    PROVE  Says({ReplyStale(s, m)}, G, V)
  <1> DEFINE a == ReplyStale(s, m)
  <1>1. CASE m.type = "RequestVote"
    <2>1. a = VoteReply("RequestVoteReply", s, m, s.term, FALSE)
      BY <1>1 DEF ReplyStale
    <2>2. a.type = "RequestVoteReply" /\ ~a.granted
      BY <2>1 DEF VoteReply
    <2>3. QED
      BY <2>2, OtherMessages DEF Says
  <1>2. CASE m.type = "AppendEntries"
    <2>1. a = [AppendReply(s, m, FALSE, 0, NoConflict) EXCEPT !.seq = 0]
      BY <1>2 DEF ReplyStale
    <2>2. a.type = "AppendReply" /\ ~a.success
      BY <2>1 DEF AppendReply
    <2>3. QED
      BY <2>2, OtherMessages DEF Says
  <1>3. CASE m.type = "InstallSnapshot"
    <2>1. a = [SnapshotReply(s, m, 0, FALSE) EXCEPT !.seq = 0]
      BY <1>3 DEF ReplyStale
    <2>2. a.type = "SnapshotReply" /\ ~a.done
      BY <2>1 DEF SnapshotReply
    <2>3. QED
      BY <2>2, OtherMessages DEF Says
  <1>4. CASE m.type = "ReadIndex"
    <2>1. a = ReadIndexReply(s, m.from, m.id, Refused)
      BY <1>4 DEF ReplyStale
    <2>2. a.type = "ReadIndexReply"
      BY <2>1 DEF ReadIndexReply
    <2>3. QED
      BY <2>2, OtherMessages DEF Says
  <1>5. QED
    BY <1>1, <1>2, <1>3, <1>4

LEMMA TermTaken ==
    ASSUME NEW M, NEW s, WellMade(s, M, {Nobody}), NEW m, m.term \in Nat, m.term >= s.term
    PROVE  Uptodate(s, m).term = m.term
  <1>1. s \in Node(M, {Nobody}) /\ s.term \in Nat
    BY NodeTypes DEF WellMade
  <1>2. CASE m.term > s.term
    BY <1>2, <1>1 DEF Uptodate, BecomeFollower, Node
  <1>3. CASE ~(m.term > s.term)
    BY <1>3, <1>1 DEF Uptodate
  <1>4. QED
    BY <1>2, <1>3

LEMMA RequestedFares ==
    ASSUME NEW M, NEW s, WellMade(s, M, {Nobody}), NEW G, NEW V, HistoryOK(G, V),
           NodeOK(s, G, V), NEW m, m.term \in Nat,
           m.type \in {"RequestVote", "AppendEntries", "InstallSnapshot", "ReadIndex"},
           NEW handled, NEW H, Quietly(s, Uptodate(s, m), G, H, V),
           m.term = Uptodate(s, m).term => Fares(Uptodate(s, m), handled, H, V)
    PROVE  Fares(s, Requested(s, m, handled), G, V)
  <1>1. s \in Node(M, {Nobody}) /\ s.term \in Nat
    BY NodeTypes DEF WellMade
  <1>2. CASE TurnedAway(s, m)
    <2>1. Sits(s, s) /\ Says({ReplyStale(s, m)}, G, V)
      BY <1>1, ItselfSits, ReplyStaleIsOK
    <2>2. Fares(s, Does(s, {ReplyStale(s, m)}), G, V)
      BY <1>1, <2>1, SittingFares
    <2>3. QED
      BY <2>2, <1>2 DEF Requested
  <1>3. CASE ~TurnedAway(s, m)
    <2>1. m.term >= s.term
      BY <1>1, <1>3 DEF TurnedAway
    <2>2. Fares(Uptodate(s, m), handled, H, V)
      BY <2>1, TermTaken
    <2>3. Fares(s, handled, G, V)
      BY <2>2, QuietlyThenFares
    <2>4. QED
      BY <2>3, <1>3 DEF Requested
  <1>4. QED
    BY <1>2, <1>3

LEMMA AnsweredFares ==
    ASSUME NEW s, NEW u, NEW G, NEW V, NEW H, Quietly(s, u, G, H, V), NEW m,
           NEW heard, heard.out \subseteq ReadAnswer, NEW handled,
           Counts(u, m) => Fares(u, handled, H, V)
    PROVE  Fares(s, Answered(u, m, heard, handled), G, V)
  <1>1. CASE Counts(u, m)
    <2>1. Fares(s, handled, G, V)
      BY <1>1, QuietlyThenFares
    <2>2. PICK K : Passes(s, handled.s, G, K, V) /\ Says(handled.out, K, V)
      BY <2>1 DEF Fares
    <2>3. Says(heard.out \cup handled.out, K, V)
      BY <2>2, ReadAnswersAreOK DEF Says
    <2>4. Fares(s, Does(handled.s, heard.out \cup handled.out), G, V)
      BY <2>2, <2>3, FaresOf
    <2>5. QED
      BY <2>4, <1>1 DEF Answered
  <1>2. CASE ~Counts(u, m)
    <2>1. Fares(s, Only(u), G, V)
      BY QuietPasses, FaresAlone
    <2>2. QED
      BY <2>1, <1>2 DEF Answered
  <1>3. QED
    BY <1>1, <1>2

(* Replicated applies what is committed before it returns.                 *)
LEMMA AppliedRests ==
    ASSUME NEW M, NEW u \in Node(M, {Nobody}), NEW H, Built(u)
    PROVE  /\ Applied(u) \in Node(M, {Nobody}) /\ Rests(u, Applied(u), H)
           /\ Applied(u).role = u.role /\ Applied(u).commit = u.commit
  <1> DEFINE x == Max({u.applied, u.commit})
             r == [u EXCEPT !.applied = x]
  <1>1. u.applied \in Nat /\ u.commit \in Nat /\ u.snap.index \in Nat /\ u.building.index \in Nat
    BY PlainNodes, NodeTypes DEF BuildingOf
  <1>2. x = IF u.applied >= u.commit THEN u.applied ELSE u.commit
    BY <1>1 DEF Max
  <1>3. x \in Nat /\ x >= u.applied /\ (x = u.applied \/ x = u.commit)
    BY <1>1, <1>2
  <1>4. Applied(u) = r
    BY DEF Applied
  <1> HIDE DEF x
  <1>5. r \in Node(M, {Nobody})
    BY <1>3 DEF Node
  <1>6. /\ r.id = u.id /\ r.term = u.term /\ r.log = u.log /\ r.role = u.role /\ r.votes = u.votes
        /\ r.match = u.match /\ r.commit = u.commit /\ r.snap = u.snap
        /\ r.building = u.building /\ r.applied = x
    BY DEF Node
  <1> HIDE DEF r
  <1>7. Built(r)
    BY <1>1, <1>3, <1>6 DEF Built
  <1>8. \A p \in Server : u.match[p] \in Nat
    BY NodeTypes
  <1>9. Rests(u, r, H)
    BY <1>1, <1>3, <1>6, <1>7, <1>8 DEF Rests
  <1>10. QED
    BY <1>4, <1>5, <1>6, <1>9

LEMMA AppliedFares ==
    ASSUME NEW M, NEW s, NEW d, d.s \in Node(M, {Nobody}), NEW G, NEW V, Fares(s, d, G, V)
    PROVE  \E H : Passes(s, Applied(d.s), G, H, V) /\ Says(d.out, H, V)
  <1>1. PICK H : Passes(s, d.s, G, H, V) /\ Says(d.out, H, V)
    BY DEF Fares
  <1>2. Built(d.s)
    BY <1>1 DEF Passes, NodeOK
  <1>3. /\ Applied(d.s) \in Node(M, {Nobody}) /\ Rests(d.s, Applied(d.s), H)
        /\ Applied(d.s).role = d.s.role /\ Applied(d.s).commit = d.s.commit
    BY <1>2, AppliedRests
  <1>4. Passes(s, Applied(d.s), G, H, V)
    BY <1>1, <1>3, PassesOn
  <1>5. QED
    BY <1>1, <1>4

-----------------------------------------------------------------------------
(* The cluster and a history of it.                                        *)

(* A committed entry was chosen, in no later term than it is counted in.   *)
Founded(c, G, V) ==
    /\ c.at \in Nat \ {0} /\ c.by \in Nat
    /\ \E T, N \in Nat : /\ T <= c.by /\ N >= c.at
                         /\ Chosen(G, T, N, V) /\ G.log[T][c.at] = c.entry
Kept(G, V) ==
    /\ HistoryOK(G, V)
    /\ \A n \in Server : NodeOK(node[n], G, V)
    /\ \A m \in msgs : MessageOK(m, G, V)
    /\ \A t \in Nat : \A x \in G.led[t] : \E e \in elected : e.term = t /\ e.leader = x
    /\ \A j \in Nat : \A e \in G.done[j] : \E c \in committed : c.at = j /\ c.entry = e
    /\ \A c \in committed : Founded(c, G, V)

(* A call that leaves node n at r is on record with both histories.        *)
Counted(n, r) ==
    /\ elected \subseteq elected' /\ committed \subseteq committed'
    /\ r.role = "Leader" =>
          /\ \E e \in elected' : e.term = r.term /\ e.leader = n
          /\ \A j \in 1 .. r.commit : \E c \in committed' : c.at = j /\ c.entry = r.log[j]
    /\ \A c \in committed' :
          \/ c \in committed
          \/ c.at \in 1 .. r.commit /\ c.entry = r.log[c.at] /\ c.by = r.term

LEMMA FoundationsGrow ==
    ASSUME NEW G, NEW H, NEW n, Extends(G, H, n), NEW V, NEW c, Founded(c, G, V)
    PROVE  Founded(c, H, V)
  <1>1. PICK T \in Nat, N \in Nat :
            T <= c.by /\ N >= c.at /\ Chosen(G, T, N, V) /\ G.log[T][c.at] = c.entry
    BY DEF Founded
  <1>2. Chosen(H, T, N, V)
    BY <1>1, ChosenGrows
  <1>3. G \in History /\ Len(G.log[T]) \in Nat /\ c.at \in Nat \ {0}
    BY HistoryTypes DEF Extends, Founded
  <1>4. c.at \in 1 .. Len(G.log[T])
    BY <1>1, <1>3 DEF Chosen, Has
  <1>5. Agree(G.log[T], H.log[T], Len(G.log[T]))
    BY DEF Extends, LogsGrow
  <1>6. H.log[T][c.at] = c.entry
    BY <1>1, <1>4, <1>5 DEF Agree
  <1>7. QED
    BY <1>1, <1>2, <1>6 DEF Founded

LEMMA SettledIsFounded ==
    ASSUME NEW G, NEW V, NEW q \in Logs, NEW i \in Nat, NEW t \in Nat, Settled(q, i, t, G, V),
           G \in History,
           NEW c, c.at \in 1 .. i, c.entry = q[c.at], c.by = t
    PROVE  Founded(c, G, V)
  <1>1. c.at \in Nat \ {0} /\ i > 0 /\ c.at <= i
    OBVIOUS
  <1>2. PICK T \in Nat, N \in Nat :
            T <= t /\ N >= i /\ Chosen(G, T, N, V) /\ Agree(q, G.log[T], i)
    BY <1>1 DEF Settled
  <1>3. G.log[T][c.at] = c.entry
    BY <1>2 DEF Agree
  <1>4. T <= c.by /\ N >= c.at
    BY <1>1, <1>2
  <1>5. QED
    BY <1>1, <1>2, <1>3, <1>4 DEF Founded

LEMMA MovesKeepLogs ==
    ASSUME NEW V, NEW M, Inv(M, {Nobody}), NEW G, NEW H, Kept(G, V), NEW n \in Server,
           NEW r, NEW out, Moves(n, r, out), Counted(n, r), r \in Node(M, {Nobody}),
           Passes(node[n], r, G, H, V), Says(out, H, V)
    PROVE  Kept(H, V)'
  <1>1. /\ HistoryOK(G, V) /\ HistoryOK(H, V) /\ Recorded(G) /\ Recorded(H)
        /\ G \in History /\ H \in History
    BY DEF Kept, Passes, HistoryOK
  <1>2. /\ node[n].id = n /\ r.id = n /\ Extends(G, H, n) /\ NodeOK(r, H, V)
        /\ Accounts(r, G, H)
    BY DEF Passes, Inv, NodesAreWellMade
  <1>3. node' = [node EXCEPT ![n] = r] /\ \A m \in msgs' : m \in msgs \/ m \in out
    BY DEF Moves
  <1>4. \A k \in Server : NodeOK(node'[k], H, V)
    <2> SUFFICES ASSUME NEW k \in Server
                 PROVE  NodeOK(node'[k], H, V)
      OBVIOUS
    <2>1. node = [x \in Server |-> node[x]] /\ node[k] \in Node(M, {Nobody}) /\ node[k].id = k
      BY DEF Inv, NodesAreWellMade, WellMade
    <2>2. CASE k = n
      BY <2>1, <2>2, <1>2, <1>3
    <2>3. CASE k # n
      <3>1. node'[k] = node[k]
        BY <2>1, <2>3, <1>3
      <3>2. NodeOK(node[k], G, V)
        BY DEF Kept
      <3>3. NodeOK(node[k], H, V)
        BY <3>2, <2>1, <2>3, <1>1, <1>2, OthersStay
      <3>4. QED
        BY <3>1, <3>3
    <2>4. QED
      BY <2>2, <2>3
  <1>5. \A m \in msgs' : MessageOK(m, H, V)
    <2>1. ASSUME NEW m \in msgs
          PROVE  MessageOK(m, H, V)
      <3>1. m \in MessageOf(M, {Nobody}) /\ MessageOK(m, G, V)
        BY DEF Inv, MessagesAreWellMade, Kept
      <3>2. QED
        BY <3>1, <1>1, <1>2, MessagesStay
    <2>2. QED
      BY <2>1, <1>3 DEF Says
  <1>6. ASSUME NEW t \in Nat, NEW x \in H.led[t]
        PROVE  \E e \in elected' : e.term = t /\ e.leader = x
    <2>1. CASE x \in G.led[t]
      BY <2>1 DEF Kept, Counted
    <2>2. CASE x = n /\ t = r.term /\ r.role = "Leader"
      BY <2>2 DEF Counted
    <2>3. QED
      BY <2>1, <2>2, <1>2 DEF Accounts
  <1>7. ASSUME NEW j \in Nat, NEW e \in H.done[j]
        PROVE  \E c \in committed' : c.at = j /\ c.entry = e
    <2>1. CASE e \in G.done[j]
      BY <2>1 DEF Kept, Counted
    <2>2. CASE r.role = "Leader" /\ j \in 1 .. r.commit /\ e = r.log[j]
      BY <2>2 DEF Counted
    <2>3. QED
      BY <2>1, <2>2, <1>2 DEF Accounts
  <1>8. ASSUME NEW c \in committed'
        PROVE  Founded(c, H, V)
    <2>1. CASE c \in committed
      <3>1. Founded(c, G, V)
        BY <2>1 DEF Kept
      <3>2. QED
        BY <3>1, <1>2, FoundationsGrow
    <2>2. CASE c.at \in 1 .. r.commit /\ c.entry = r.log[c.at] /\ c.by = r.term
      <3>1. r.log \in Logs /\ r.commit \in Nat /\ r.term \in Nat
        BY PlainNodes
      <3>2. Settled(r.log, r.commit, r.term, H, V)
        BY <1>2 DEF NodeOK, Settles
      <3>3. QED
        BY <3>1, <3>2, <2>2, <1>1, SettledIsFounded
    <2>3. QED
      BY <2>1, <2>2, <1>8 DEF Counted
  <1>9. QED
    BY <1>1, <1>4, <1>5, <1>6, <1>7, <1>8 DEF Kept

(* Whoever leads was elected; so nobody else has led its term.             *)
LEMMA CallIsCounted ==
    ASSUME NEW V, NEW M, Inv(M, {Nobody}), NEW G, Kept(G, V), NEW n \in Server,
           NEW r, NEW out, Call(n, r, out)
    PROVE  Counted(n, r)
  <1>1. elected \subseteq elected' /\ committed \subseteq committed'
    BY DEF Call
  <1>2. ASSUME r.role = "Leader"
        PROVE  \E e \in elected' : e.term = r.term /\ e.leader = n
    <2>1. CASE <<r.role, r.term>> # <<node[n].role, node[n].term>>
      <3> DEFINE e == [term |-> r.term, leader |-> n, voters |-> r.votes]
      <3>1. e \in elected' /\ e.term = r.term /\ e.leader = n
        BY <2>1, <1>2 DEF Call
      <3>2. QED
        BY <3>1
    <2>2. CASE <<r.role, r.term>> = <<node[n].role, node[n].term>>
      <3>1. node[n].role = "Leader" /\ node[n].term = r.term /\ node[n].id = n
        BY <2>2, <1>2 DEF Inv, NodesAreWellMade
      <3>2. node[n].term \in Nat
        BY NodeTypes DEF Inv, NodesAreWellMade, WellMade
      <3>3. n \in G.led[r.term]
        BY <3>1 DEF Kept, NodeOK, Leads
      <3>4. QED
        BY <3>1, <3>2, <3>3, <1>1 DEF Kept
    <2>3. QED
      BY <2>1, <2>2
  <1>3. ASSUME r.role = "Leader", NEW j \in 1 .. r.commit
        PROVE  \E c \in committed' : c.at = j /\ c.entry = r.log[j]
    <2> DEFINE c == [at |-> j, entry |-> r.log[j], by |-> r.term]
    <2>1. c.at = j /\ c.entry = r.log[j]
      OBVIOUS
    <2>2. committed' = committed \cup NewlyCommitted(r)
      BY <1>3 DEF Call
    <2>3. CASE \E d \in committed : d.at = c.at /\ d.entry = c.entry
      BY <2>1, <2>3, <1>1
    <2>4. CASE ~\E d \in committed : d.at = c.at /\ d.entry = c.entry
      <3>1. c \in NewlyCommitted(r)
        BY <2>4 DEF NewlyCommitted
      <3>2. QED
        BY <3>1, <2>1, <2>2
    <2>5. QED
      BY <2>3, <2>4
  <1>4. ASSUME NEW c \in committed', c \notin committed
        PROVE  c.at \in 1 .. r.commit /\ c.entry = r.log[c.at] /\ c.by = r.term
    <2>1. c \in NewlyCommitted(r)
      BY <1>4 DEF Call
    <2>2. QED
      BY <2>1 DEF NewlyCommitted
  <1>5. QED
    BY <1>1, <1>2, <1>3, <1>4 DEF Counted

LEMMA CallerIsAlone ==
    ASSUME NEW V, NEW G, Kept(G, V), NEW n, NEW r, Counted(n, r), r.term \in Nat,
           ElectionSafety', r.role = "Leader", NEW x \in G.led[r.term]
    PROVE  x = n
  <1>1. PICK e \in elected : e.term = r.term /\ e.leader = x
    BY DEF Kept
  <1>2. PICK f \in elected' : f.term = r.term /\ f.leader = n
    BY DEF Counted
  <1>3. e \in elected'
    BY DEF Counted
  <1>4. QED
    BY <1>1, <1>2, <1>3 DEF ElectionSafety

(* A call that fares well, once it is known that the caller leads alone.   *)
LEMMA CallKeepsLogs ==
    ASSUME NEW V, NEW M, Inv(M, {Nobody}), ElectionSafety', NEW G, Kept(G, V),
           NEW n \in Server, NEW d, d.s \in Node(M, {Nobody}), d.s.id = n,
           NEW r \in {d.s, Applied(d.s)}, NEW out \in {d.out, {}}, Call(n, r, out),
           Alone(d, G) => Fares(node[n], d, G, V)
    PROVE  \E H : Kept(H, V)'
  <1>1. Counted(n, r) /\ Moves(n, r, out)
    BY CallIsCounted, CallMoves
  <1>2. d.s.term \in Nat /\ d.s.applied \in Nat /\ d.s.commit \in Nat
    BY PlainNodes
  <1>3. /\ r \in Node(M, {Nobody}) /\ r.role = d.s.role /\ r.term = d.s.term
    <2> DEFINE x == Max({d.s.applied, d.s.commit})
    <2>1. x \in Nat
      BY <1>2, MaxOfTwo
    <2>2. Applied(d.s) = [d.s EXCEPT !.applied = x]
      BY DEF Applied, Node
    <2> DEFINE u == d.s
               a == [u EXCEPT !.applied = x]
    <2>3. u \in Node(M, {Nobody}) /\ (r = u \/ r = a)
      BY <2>2
    <2> HIDE DEF x, u
    <2>4. a \in Node(M, {Nobody}) /\ a.role = u.role /\ a.term = u.term
      BY <2>1, <2>3 DEF Node
    <2> HIDE DEF a
    <2>5. QED
      BY <2>3, <2>4 DEF u
  <1>4. Alone(d, G)
    BY <1>1, <1>2, <1>3, CallerIsAlone DEF Alone
  <1>5. Fares(node[n], d, G, V)
    BY <1>4
  <1>6. PICK H : Passes(node[n], r, G, H, V) /\ Says(d.out, H, V)
    <2>1. CASE r = d.s
      BY <2>1, <1>5 DEF Fares
    <2>2. CASE r = Applied(d.s)
      BY <2>2, <1>5, AppliedFares
    <2>3. QED
      BY <2>1, <2>2
  <1>7. Says(out, H, V)
    BY <1>6 DEF Says
  <1>8. Kept(H, V)'
    BY <1>1, <1>3, <1>6, <1>7, MovesKeepLogs
  <1>9. QED
    BY <1>8

LEMMA DeliverKeepsLogs ==
    ASSUME NEW V, NEW M, Inv(M, {Nobody}), ElectionSafety', NEW G, Kept(G, V),
           NEW m \in msgs, NEW type, NEW d, NEW more, NEW got,
           Acts(At(m), d, more, got, M, {Nobody}), Deliver(m, type, d),
           Alone(d, G) => Fares(At(m), d, G, V)
    PROVE  \E H : Kept(H, V)'
  <1>1. m.to \in Server /\ At(m).id = m.to /\ At(m) = node[m.to]
    BY Receives DEF At
  <1>2. d.s \in Node(M, {Nobody}) /\ d.s.id = m.to
    BY <1>1 DEF Acts, Step, WellMade
  <1>3. Call(m.to, Applied(d.s), d.out)
    BY DEF Deliver
  <1>4. QED
    BY <1>1, <1>2, <1>3, CallKeepsLogs

(* A node takes the term of a message, and the message is still good.      *)
LEMMA ReadyQuietly ==
    ASSUME NEW V, NEW M, Inv(M, {Nobody}), NEW G, Kept(G, V), NEW m \in msgs
    PROVE  /\ HistoryOK(G, V) /\ NodeOK(At(m), G, V) /\ MessageOK(m, G, V)
           /\ \E H : /\ Quietly(At(m), Ready(m), G, H, V) /\ HistoryOK(H, V)
                     /\ NodeOK(Ready(m), H, V) /\ MessageOK(m, H, V) /\ H.led = G.led
  <1>1. /\ m \in MessageOf(M, {Nobody}) /\ m.to \in Server /\ m.term \in Nat
        /\ WellMade(At(m), M, {Nobody}) /\ Ready(m) = Uptodate(At(m), m)
    BY Receives
  <1>2. HistoryOK(G, V) /\ NodeOK(At(m), G, V) /\ MessageOK(m, G, V)
    BY <1>1 DEF Kept, At
  <1>3. PICK H : Quietly(At(m), Uptodate(At(m), m), G, H, V)
    BY <1>1, <1>2, UptodateQuietly
  <1>4. /\ HistoryOK(H, V) /\ NodeOK(Ready(m), H, V) /\ H.led = G.led
        /\ Extends(G, H, At(m).id) /\ Quietly(At(m), Ready(m), G, H, V)
    BY <1>1, <1>3 DEF Quietly
  <1>5. MessageOK(m, H, V)
    BY <1>1, <1>2, <1>4, MessagesStay DEF HistoryOK
  <1>6. QED
    BY <1>2, <1>4, <1>5

LEMMA ElectionMessagesKeepLogs ==
    ASSUME NEW V \in SUBSET Server, Inv(Standing(V), {Nobody}), ElectionSafety',
           NEW G, Kept(G, V), NEW m \in msgs,
           \/ DeliverPreVote(m) \/ DeliverPreVoteReply(m)
           \/ DeliverRequestVote(m) \/ DeliverVoteReply(m)
    PROVE  \E H : Kept(H, V)'
  <1> DEFINE M == Standing(V)
             E == {Nobody}
             s == At(m)
             u == Ready(m)
  <1>c. Closed(M, E)
    BY StandingIsClosed
  <1>1. /\ m \in MessageOf(M, E) /\ m.to \in Server /\ m.from \in Server /\ m.term \in Nat
        /\ WellMade(s, M, E) /\ s.id = m.to /\ u = Uptodate(s, m)
        /\ WellMade(u, M, E) /\ Step(s, u, {}, {}, M, E) /\ u.id = m.to
    BY Receives DEF Step
  <1>2. HistoryOK(G, V) /\ NodeOK(s, G, V) /\ MessageOK(m, G, V)
    BY ReadyQuietly
  <1>3. PICK K : /\ Quietly(s, u, G, K, V) /\ HistoryOK(K, V)
                 /\ NodeOK(u, K, V) /\ MessageOK(m, K, V) /\ K.led = G.led
    BY ReadyQuietly
  <1>4. CASE DeliverPreVote(m)
    <2> DEFINE d == HandlePreVote(s, m)
    <2>1. m \in VoteRequest /\ Deliver(m, "PreVote", d)
      BY <1>1, <1>4, KindsOfMessages DEF DeliverPreVote, Deliver
    <2>2. Acts(s, d, {}, {}, M, E)
      BY <2>1, <1>1, <1>c, HandlePreVoteActs
    <2>3. Fares(s, d, G, V)
      BY <1>1, <1>2, HandlePreVoteFares
    <2> HIDE DEF d
    <2>4. QED
      BY <2>1, <2>2, <2>3, DeliverKeepsLogs
  <1>5. CASE DeliverPreVoteReply(m)
    <2> DEFINE d == HandlePreVoteReply(s, m)
    <2>1. m \in VoteAnswer /\ Deliver(m, "PreVoteReply", d)
      BY <1>1, <1>5, KindsOfMessages DEF DeliverPreVoteReply, Deliver
    <2>2. Acts(s, d, {}, {}, M, E)
      BY <2>1, <1>1, <1>c, HandlePreVoteReplyActs
    <2>3. Alone(d, G) => Fares(s, d, G, V)
      BY <2>1, <1>1, <1>2, HandlePreVoteReplyFares
    <2> HIDE DEF d
    <2>4. QED
      BY <2>1, <2>2, <2>3, DeliverKeepsLogs
  <1>6. CASE DeliverRequestVote(m)
    <2> DEFINE h == HandleRequestVote(u, m)
               d == Requested(s, m, h)
    <2>1. m \in VoteRequest /\ m.type = "RequestVote" /\ Deliver(m, "RequestVote", d)
      BY <1>1, <1>6, KindsOfMessages DEF DeliverRequestVote, Deliver
    <2>2. Acts(s, d, {}, {}, M, E)
      <3>1. Acts(u, h, {}, {}, M, E)
        BY <2>1, <1>1, <1>c, HandleRequestVoteActs
      <3>2. QED
        BY <3>1, <2>1, <1>1, <1>c, RequestedActs
    <2>3. m.term = u.term => Fares(u, h, K, V)
      BY <2>1, <1>1, <1>3, HandleRequestVoteFares
    <2> HIDE DEF h
    <2>4. Fares(s, d, G, V)
      BY <2>1, <2>3, <1>1, <1>2, <1>3, RequestedFares
    <2> HIDE DEF d
    <2>5. QED
      BY <2>1, <2>2, <2>4, DeliverKeepsLogs
  <1>7. CASE DeliverVoteReply(m)
    <2> DEFINE more == IF m.granted THEN {<<m.from, m.term>>} ELSE {}
               d == HandleVoteReply(u, m)
    <2>1. m \in VoteAnswer /\ m.type = "RequestVoteReply" /\ Deliver(m, "RequestVoteReply", d)
      BY <1>1, <1>7, KindsOfMessages DEF DeliverVoteReply, Deliver
    <2>2. Acts(s, d, more, {}, M, E)
      <3>1. Acts(u, d, more, {}, M, E)
        BY <2>1, <1>1, <1>c, HandleVoteReplyActs
      <3>2. QED
        BY <3>1, <1>1, ActsAfterStep
    <2>3. Alone(d, K) => Fares(u, d, K, V)
      BY <2>1, <1>1, <1>3, HandleVoteReplyFares
    <2> HIDE DEF d
    <2>4. Alone(d, G) => Fares(s, d, G, V)
      <3>1. Alone(d, G) => Alone(d, K)
        BY <1>3 DEF Alone
      <3>2. QED
        BY <3>1, <2>3, <1>3, QuietlyThenFares
    <2> HIDE DEF more
    <2>5. QED
      BY <2>1, <2>2, <2>4, DeliverKeepsLogs
  <1>8. QED
    BY <1>4, <1>5, <1>6, <1>7

LEMMA AppendMessagesKeepLogs ==
    ASSUME NEW V \in SUBSET Server, Inv(Standing(V), {Nobody}), ElectionSafety',
           NEW G, Kept(G, V), NEW m \in msgs,
           DeliverAppendEntries(m) \/ DeliverAppendReply(m)
    PROVE  \E H : Kept(H, V)'
  <1> DEFINE M == Standing(V)
             E == {Nobody}
             s == At(m)
             u == Ready(m)
  <1>c. Closed(M, E)
    BY StandingIsClosed
  <1>1. /\ m \in MessageOf(M, E) /\ m.to \in Server /\ m.from \in Server /\ m.term \in Nat
        /\ WellMade(s, M, E) /\ s.id = m.to /\ u = Uptodate(s, m)
        /\ WellMade(u, M, E) /\ Step(s, u, {}, {}, M, E) /\ u.id = m.to
    BY Receives DEF Step
  <1>2. HistoryOK(G, V) /\ NodeOK(s, G, V) /\ MessageOK(m, G, V)
    BY ReadyQuietly
  <1>3. PICK K : /\ Quietly(s, u, G, K, V) /\ HistoryOK(K, V)
                 /\ NodeOK(u, K, V) /\ MessageOK(m, K, V) /\ K.led = G.led
    BY ReadyQuietly
  <1>4. CASE DeliverAppendEntries(m)
    <2> DEFINE h == HandleAppendEntries(u, m)
               d == Requested(s, m, h)
    <2>1. m \in AppendOf(E) /\ m.type = "AppendEntries" /\ Deliver(m, "AppendEntries", d)
      BY <1>1, <1>4, KindsOfMessages DEF DeliverAppendEntries, Deliver
    <2>2. Acts(s, d, {}, {}, M, E)
      <3>1. Acts(u, h, {}, {}, M, E)
        BY <2>1, <1>1, <1>c, HandleAppendEntriesActs
      <3>2. QED
        BY <3>1, <2>1, <1>1, <1>c, RequestedActs
    <2>3. m.term = u.term => Fares(u, h, K, V)
      <3>1. AppendOK(m, K, V)
        BY <2>1, <1>3 DEF MessageOK
      <3>2. QED
        BY <3>1, <2>1, <1>1, <1>3, <1>c, HandleAppendEntriesFares
    <2> HIDE DEF h
    <2>4. Fares(s, d, G, V)
      BY <2>1, <2>3, <1>1, <1>2, <1>3, RequestedFares
    <2> HIDE DEF d
    <2>5. QED
      BY <2>1, <2>2, <2>4, DeliverKeepsLogs
  <1>5. CASE DeliverAppendReply(m)
    <2> DEFINE heard == HeardRound(u, m)
               h == HandleAppendReply(heard.s, m)
               d == Answered(u, m, heard, h)
    <2>1. m \in AppendAnswer /\ m.seq \in Nat
      BY <1>1, <1>5, KindsOfMessages DEF DeliverAppendReply, Deliver, AppendAnswer
    <2>2. heard.s \in Node(M, E) /\ Keeps(u, heard.s) /\ heard.out \subseteq ReadAnswer
      BY <2>1, <1>1, HeardRoundFacts DEF WellMade
    <2>3. Deliver(m, "AppendReply", d)
      BY <1>5 DEF DeliverAppendReply
    <2>4. Idles(u, heard.s)
      BY <2>1, <1>1, HeardRoundIdles DEF WellMade
    <2> HIDE DEF heard
    <2>5. Step(u, heard.s, {}, {}, M, E) /\ WellMade(heard.s, M, E)
      BY <2>2, <1>1, KeepingIsAStep, WhatIsKeptIsWellMade
    <2>6. Acts(s, d, {}, {}, M, E)
      <3>1. Acts(heard.s, h, {}, {}, M, E)
        BY <2>1, <2>5, <1>c, HandleAppendReplyActs
      <3>2. Acts(u, h, {}, {}, M, E)
        BY <2>5, <3>1, <1>1, ActsAfterStep
      <3> HIDE DEF h
      <3>3. QED
        BY <2>2, <3>2, <1>1, AnsweredActs
    <2>7. Quietly(u, heard.s, K, K, V)
      BY <2>2, <2>4, <1>1, <1>3, IdlingPasses
    <2>8. Counts(u, m) => Fares(u, h, K, V)
      <3> SUFFICES ASSUME Counts(u, m)
                   PROVE  Fares(u, h, K, V)
        OBVIOUS
      <3>1. heard.s.role = "Leader" /\ m.term = heard.s.term
        BY <2>2 DEF Counts, Keeps
      <3>2. NodeOK(heard.s, K, V)
        BY <2>7 DEF Quietly
      <3>3. Fares(heard.s, h, K, V)
        BY <3>1, <3>2, <2>1, <2>5, <1>3, HandleAppendReplyFares
      <3> HIDE DEF h
      <3>4. QED
        BY <3>3, <2>7, QuietlyThenFares
    <2> HIDE DEF h
    <2>9. Fares(s, d, G, V)
      BY <2>2, <2>8, <1>3, AnsweredFares
    <2> HIDE DEF d
    <2>10. QED
      BY <2>3, <2>6, <2>9, DeliverKeepsLogs
  <1>6. QED
    BY <1>4, <1>5

LEMMA SnapshotMessagesKeepLogs ==
    ASSUME NEW V \in SUBSET Server, Inv(Standing(V), {Nobody}), ElectionSafety',
           NEW G, Kept(G, V), NEW m \in msgs,
           DeliverInstallSnapshot(m) \/ DeliverSnapshotReply(m)
    PROVE  \E H : Kept(H, V)'
  <1> DEFINE M == Standing(V)
             E == {Nobody}
             s == At(m)
             u == Ready(m)
  <1>c. Closed(M, E)
    BY StandingIsClosed
  <1>1. /\ m \in MessageOf(M, E) /\ m.to \in Server /\ m.from \in Server /\ m.term \in Nat
        /\ WellMade(s, M, E) /\ s.id = m.to /\ u = Uptodate(s, m)
        /\ WellMade(u, M, E) /\ Step(s, u, {}, {}, M, E) /\ u.id = m.to
    BY Receives DEF Step
  <1>2. HistoryOK(G, V) /\ NodeOK(s, G, V) /\ MessageOK(m, G, V)
    BY ReadyQuietly
  <1>3. PICK K : /\ Quietly(s, u, G, K, V) /\ HistoryOK(K, V)
                 /\ NodeOK(u, K, V) /\ MessageOK(m, K, V) /\ K.led = G.led
    BY ReadyQuietly
  <1>4. CASE DeliverInstallSnapshot(m)
    <2> DEFINE got == {<<m.from, m.index, m.data.by>>}
               h == HandleInstallSnapshot(u, m)
               d == Requested(s, m, h)
    <2>1. /\ m \in InstallOf(M, E) /\ m.type = "InstallSnapshot" /\ Exact(m)
          /\ Deliver(m, "InstallSnapshot", d)
      BY <1>1, <1>4, KindsOfMessages DEF DeliverInstallSnapshot, Deliver
    <2>2. Fits(u, m)
      BY <2>1, PiecesFit
    <2>3. Acts(s, d, {}, got, M, E)
      <3>1. Acts(u, h, {}, got, M, E)
        BY <2>1, <2>2, <1>1, <1>c, HandleInstallSnapshotActs
      <3>2. QED
        BY <3>1, <2>1, <1>1, <1>c, RequestedActs
    <2>4. m.term = u.term => Fares(u, h, K, V)
      <3>1. InstallOK(m, K, V)
        BY <2>1, <1>3 DEF MessageOK
      <3>2. QED
        BY <3>1, <2>1, <2>2, <1>1, <1>3, <1>c, HandleInstallSnapshotFares
    <2> HIDE DEF h
    <2>5. Fares(s, d, G, V)
      BY <2>1, <2>4, <1>1, <1>2, <1>3, RequestedFares
    <2> HIDE DEF d, got
    <2>6. QED
      BY <2>1, <2>3, <2>5, DeliverKeepsLogs
  <1>5. CASE DeliverSnapshotReply(m)
    <2> DEFINE heard == HeardRound(u, m)
               h == HandleSnapshotReply(heard.s, m)
               d == Answered(u, m, heard, h)
    <2>1. m \in InstallAnswer /\ Exact(m) /\ m.seq \in Nat
      BY <1>1, <1>5, KindsOfMessages DEF DeliverSnapshotReply, Deliver, InstallAnswer
    <2>2. heard.s \in Node(M, E) /\ Keeps(u, heard.s) /\ heard.out \subseteq ReadAnswer
      BY <2>1, <1>1, HeardRoundFacts DEF WellMade
    <2>3. Deliver(m, "SnapshotReply", d)
      BY <1>5 DEF DeliverSnapshotReply
    <2>4. Idles(u, heard.s)
      BY <2>1, <1>1, HeardRoundIdles DEF WellMade
    <2> HIDE DEF heard
    <2>5. Step(u, heard.s, {}, {}, M, E) /\ WellMade(heard.s, M, E)
      BY <2>2, <1>1, KeepingIsAStep, WhatIsKeptIsWellMade
    <2>6. Acts(s, d, {}, {}, M, E)
      <3>1. Acts(heard.s, h, {}, {}, M, E)
        BY <2>1, <2>5, <1>c, HandleSnapshotReplyActs
      <3>2. Acts(u, h, {}, {}, M, E)
        BY <2>5, <3>1, <1>1, ActsAfterStep
      <3> HIDE DEF h
      <3>3. QED
        BY <2>2, <3>2, <1>1, AnsweredActs
    <2>7. Quietly(u, heard.s, K, K, V)
      BY <2>2, <2>4, <1>1, <1>3, IdlingPasses
    <2>8. Counts(u, m) => Fares(u, h, K, V)
      <3> SUFFICES ASSUME Counts(u, m)
                   PROVE  Fares(u, h, K, V)
        OBVIOUS
      <3>1. heard.s.role = "Leader" /\ m.term = heard.s.term
        BY <2>2 DEF Counts, Keeps
      <3>2. NodeOK(heard.s, K, V)
        BY <2>7 DEF Quietly
      <3>3. Fares(heard.s, h, K, V)
        BY <3>1, <3>2, <2>1, <2>5, <1>3, HandleSnapshotReplyFares
      <3> HIDE DEF h
      <3>4. QED
        BY <3>3, <2>7, QuietlyThenFares
    <2> HIDE DEF h
    <2>9. Fares(s, d, G, V)
      BY <2>2, <2>8, <1>3, AnsweredFares
    <2> HIDE DEF d
    <2>10. QED
      BY <2>3, <2>6, <2>9, DeliverKeepsLogs
  <1>6. QED
    BY <1>4, <1>5

LEMMA ReadMessagesKeepLogs ==
    ASSUME NEW V \in SUBSET Server, Inv(Standing(V), {Nobody}), ElectionSafety',
           NEW G, Kept(G, V), NEW m \in msgs,
           DeliverReadIndex(m) \/ DeliverReadIndexReply(m)
    PROVE  \E H : Kept(H, V)'
  <1> DEFINE M == Standing(V)
             E == {Nobody}
             s == At(m)
             u == Ready(m)
  <1>c. Closed(M, E)
    BY StandingIsClosed
  <1>1. /\ m \in MessageOf(M, E) /\ m.to \in Server /\ m.from \in Server /\ m.term \in Nat
        /\ WellMade(s, M, E) /\ s.id = m.to /\ u = Uptodate(s, m)
        /\ WellMade(u, M, E) /\ Step(s, u, {}, {}, M, E) /\ u.id = m.to
    BY Receives DEF Step
  <1>2. HistoryOK(G, V) /\ NodeOK(s, G, V) /\ MessageOK(m, G, V)
    BY ReadyQuietly
  <1>3. PICK K : /\ Quietly(s, u, G, K, V) /\ HistoryOK(K, V)
                 /\ NodeOK(u, K, V) /\ MessageOK(m, K, V) /\ K.led = G.led
    BY ReadyQuietly
  <1>4. CASE DeliverReadIndex(m)
    <2> DEFINE h == HandleReadIndex(u, m)
               d == Requested(s, m, h)
    <2>1. m \in ReadRequest /\ m.type = "ReadIndex" /\ Deliver(m, "ReadIndex", d)
      BY <1>1, <1>4, KindsOfMessages DEF DeliverReadIndex, Deliver
    <2>2. Acts(s, d, {}, {}, M, E)
      <3>1. Acts(u, h, {}, {}, M, E)
        BY <2>1, <1>1, <1>c, HandleReadIndexActs
      <3>2. QED
        BY <3>1, <2>1, <1>1, <1>c, RequestedActs
    <2>3. Fares(u, h, K, V)
      BY <2>1, <1>1, <1>3, <1>c, HandleReadIndexFares
    <2> HIDE DEF h
    <2>4. Fares(s, d, G, V)
      BY <2>1, <2>3, <1>1, <1>2, <1>3, RequestedFares
    <2> HIDE DEF d
    <2>5. QED
      BY <2>1, <2>2, <2>4, DeliverKeepsLogs
  <1>5. CASE DeliverReadIndexReply(m)
    <2> DEFINE d == HandleReadIndexReply(u, m)
    <2>1. m \in ReadAnswer /\ Deliver(m, "ReadIndexReply", d)
      BY <1>1, <1>5, KindsOfMessages DEF DeliverReadIndexReply, Deliver
    <2>2. Acts(s, d, {}, {}, M, E)
      <3>1. Acts(u, d, {}, {}, M, E)
        BY <2>1, <1>1, <1>c, HandleReadIndexReplyActs
      <3>2. QED
        BY <3>1, <1>1, ActsAfterStep
    <2>3. Fares(u, d, K, V)
      BY <2>1, <1>1, <1>3, HandleReadIndexReplyFares
    <2> HIDE DEF d
    <2>4. Fares(s, d, G, V)
      BY <2>3, <1>3, QuietlyThenFares
    <2>5. QED
      BY <2>1, <2>2, <2>4, DeliverKeepsLogs
  <1>6. QED
    BY <1>4, <1>5

LEMMA CallsKeepLogs ==
    ASSUME NEW V \in SUBSET Server, Inv(Standing(V), {Nobody}), ElectionSafety',
           NEW G, Kept(G, V), NEW n \in Server,
           \/ ElectionTimer(n) \/ Heartbeat(n) \/ Stand(n)
           \/ \E cmds \in Proposals : ClientProposes(n, cmds)
           \/ SnapshotBegins(n) \/ SnapshotEnds(n) \/ ClientReads(n) \/ ClientForgets(n)
    PROVE  \E H : Kept(H, V)'
  <1> DEFINE M == Standing(V)
             E == {Nobody}
             s == node[n]
  <1>c. Closed(M, E)
    BY StandingIsClosed
  <1>1. WellMade(s, M, E) /\ s.id = n
    BY DEF Inv, NodesAreWellMade
  <1>2. HistoryOK(G, V) /\ NodeOK(s, G, V)
    BY DEF Kept
  <1>3. ASSUME NEW d, Acts(s, d, {}, {}, M, E), Alone(d, G) => Fares(s, d, G, V),
               NEW r \in {d.s, Applied(d.s)}, NEW out \in {d.out, {}}, Call(n, r, out)
        PROVE  \E H : Kept(H, V)'
    <2>1. d.s \in Node(M, E) /\ d.s.id = n
      BY <1>1, <1>3 DEF Acts, Step, WellMade
    <2>2. QED
      BY <2>1, <1>3, CallKeepsLogs
  <1> HIDE DEF M, E, s
  <1>4. CASE ElectionTimer(n) \/ Heartbeat(n)
    <2>1. PICK due : \E d \in Tick(s, due) : Call(n, Applied(d.s), d.out)
      BY <1>4 DEF ElectionTimer, Heartbeat, TimerRunsOut, s
    <2>2. PICK d \in Tick(s, due) : Call(n, Applied(d.s), d.out)
      BY <2>1
    <2>3. Acts(s, d, {}, {}, M, E)
      BY <2>2, <1>1, <1>c, TickActs
    <2>4. Alone(d, G) => Fares(s, d, G, V)
      BY <2>2, <1>1, <1>2, TickFares DEF M, E
    <2>5. QED
      BY <2>2, <2>3, <2>4, <1>3
  <1>5. CASE Stand(n)
    <2> DEFINE d == Campaign(s)
    <2>1. Call(n, Applied(d.s), d.out)
      BY <1>5 DEF Stand, s
    <2>2. Acts(s, d, {}, {}, M, E)
      BY <1>1, <1>c, CampaignActs
    <2>3. Alone(d, G) => Fares(s, d, G, V)
      BY <1>1, <1>2, CampaignFares DEF M, E
    <2> HIDE DEF d
    <2>4. QED
      BY <2>1, <2>2, <2>3, <1>3
  <1>6. CASE \E cmds \in Proposals : ClientProposes(n, cmds)
    <2>1. PICK cmds \in Proposals : Call(n, Propose(s, cmds).s, Propose(s, cmds).out)
      BY <1>6 DEF ClientProposes, s
    <2>2. cmds \in Seq(Values)
      BY ProposalsAreSequences
    <2> DEFINE d == Propose(s, cmds)
    <2>3. Acts(s, d, {}, {}, M, E)
      BY <2>2, <1>1, <1>c, ProposeActs
    <2>4. Fares(s, d, G, V)
      BY <2>2, <1>1, <1>2, ProposeFares DEF M, E
    <2>5. Call(n, d.s, d.out)
      BY <2>1
    <2> HIDE DEF d
    <2>6. QED
      BY <2>3, <2>4, <2>5, <1>3
  <1>7. CASE SnapshotBegins(n)
    <2> DEFINE d == BeginCompaction(s)
    <2>1. Call(n, d.s, {})
      BY <1>7 DEF SnapshotBegins, s
    <2>2. Acts(s, d, {}, {}, M, E)
      BY <1>1, <1>c, BeginCompactionActs
    <2>3. Fares(s, d, G, V)
      BY <1>1, <1>2, <1>c, BeginCompactionFares DEF E
    <2> HIDE DEF d
    <2>4. QED
      BY <2>1, <2>2, <2>3, <1>3
  <1>8. CASE SnapshotEnds(n)
    <2> DEFINE d == FinishCompaction(s)
    <2>1. Call(n, d.s, {})
      BY <1>8 DEF SnapshotEnds, s
    <2>2. Acts(s, d, {}, {}, M, E)
      BY <1>1, <1>c, FinishCompactionActs
    <2>3. Fares(s, d, G, V)
      BY <1>1, <1>2, <1>c, FinishCompactionFares DEF E
    <2> HIDE DEF d
    <2>4. QED
      BY <2>1, <2>2, <2>3, <1>3
  <1>9. CASE ClientReads(n)
    <2> DEFINE asked == Max({c.at : c \in committed} \cup {0})
               d == ReadIndex(s, asked)
    <2>1. Call(n, d.s, d.out)
      BY <1>9 DEF ClientReads, s
    <2>2. asked \in Nat
      BY LatestIsANumber DEF Inv
    <2> HIDE DEF asked
    <2>3. Acts(s, d, {}, {}, M, E)
      BY <2>2, <1>1, <1>c, ReadIndexActs
    <2>4. Fares(s, d, G, V)
      BY <2>2, <1>1, <1>2, <1>c, ReadIndexFares DEF E
    <2> HIDE DEF d
    <2>5. QED
      BY <2>1, <2>3, <2>4, <1>3
  <1>10. CASE ClientForgets(n)
    <2>1. PICK read : Call(n, ForgetRead(s, read).s, {})
      BY <1>10 DEF ClientForgets, s
    <2> DEFINE d == ForgetRead(s, read)
    <2>2. Acts(s, d, {}, {}, M, E)
      BY <1>1, <1>c, ForgetReadActs
    <2>3. Fares(s, d, G, V)
      BY <1>1, <1>2, <1>c, ForgetReadFares DEF E
    <2>4. Call(n, d.s, {})
      BY <2>1
    <2> HIDE DEF d
    <2>5. QED
      BY <2>2, <2>3, <2>4, <1>3
  <1>11. QED
    BY <1>4, <1>5, <1>6, <1>7, <1>8, <1>9, <1>10

LEMMA RestartsKeepLogs ==
    ASSUME NEW V \in SUBSET Server, Inv(Standing(V), {Nobody}), Inv(Standing(V), {Nobody})',
           NEW G, Kept(G, V),
           (\E n \in Server : Restart(n)) \/ (\E m \in msgs : CrashAfterCut(m))
    PROVE  \E H : Kept(H, V)'
  <1> DEFINE M == Standing(V)
             E == {Nobody}
  <1>c. Closed(M, E)
    BY StandingIsClosed
  <1>1. ASSUME NEW n \in Server, NEW st, Restarted(n, st), NEW r,
               r = Started(n, node[n].boot, st), NEW H, Quietly(node[n], r, G, H, V)
        PROVE  Kept(H, V)'
    <2>1. Moves(n, r, {})
      BY <1>1, RestartMoves
    <2>2. r \in Node(M, E)
      <3>1. node = [x \in Server |-> node[x]] /\ node'[n] \in Node(M, E)
        BY DEF Inv, NodesAreWellMade, WellMade
      <3>2. QED
        BY <3>1, <2>1 DEF Moves
    <2>3. r.id = n /\ r.term \in Nat /\ r.commit \in Nat
      BY <2>2, <1>1, PlainNodes DEF Inv, NodesAreWellMade, Quietly
    <2>4. elected' = elected /\ committed' = committed
      BY <1>1 DEF Restarted
    <2>5. Counted(n, r)
      <3>1. r.role = "Leader" => n \in G.led[r.term]
        BY <2>3, <1>1 DEF Quietly, NodeOK, Leads
      <3>2. \A j \in 1 .. r.commit : r.log[j] \in G.done[j]
        BY <1>1 DEF Quietly, NodeOK, Settles, Settled
      <3>3. QED
        BY <3>1, <3>2, <2>3, <2>4 DEF Counted, Kept
    <2>6. Passes(node[n], r, G, H, V) /\ Says({}, H, V)
      BY <1>1, QuietPasses, SaysNothing
    <2>7. QED
      BY <2>1, <2>2, <2>5, <2>6, MovesKeepLogs
  <1>2. ASSUME NEW n \in Server, Restart(n)
        PROVE  \E H : Kept(H, V)'
    <2> DEFINE s == node[n]
               st == Storage(s)
               r == Started(n, s.boot, st)
    <2>1. WellMade(s, M, E) /\ s.id = n
      BY DEF Inv, NodesAreWellMade
    <2>2. HistoryOK(G, V) /\ NodeOK(s, G, V)
      BY DEF Kept
    <2>3. PICK H : Quietly(s, r, G, H, V)
      BY <2>1, <2>2, <1>c, RestartQuietly
    <2>4. Restarted(n, st)
      BY <1>2 DEF Restart
    <2> HIDE DEF st
    <2>5. Kept(H, V)'
      BY <2>3, <2>4, <1>1
    <2>6. QED
      BY <2>5
  <1>3. ASSUME NEW m \in msgs, CrashAfterCut(m)
        PROVE  \E H : Kept(H, V)'
    <2> DEFINE s == At(m)
               u == Ready(m)
               past == Past(u, m)
               st == [Storage(u) EXCEPT !.log = Cut(u, past.prev, past.entries)]
               r == Started(m.to, s.boot, st)
    <2>1. /\ m \in MessageOf(M, E) /\ m.to \in Server /\ m.term \in Nat
          /\ WellMade(s, M, E) /\ s.id = m.to /\ u = Uptodate(s, m) /\ s = node[m.to]
          /\ WellMade(u, M, E) /\ u.id = s.id /\ u.boot = s.boot /\ u.term >= s.term
      BY Receives DEF Step, At
    <2>2. PICK K : /\ Quietly(s, u, G, K, V) /\ HistoryOK(K, V)
                   /\ NodeOK(u, K, V) /\ MessageOK(m, K, V) /\ K.led = G.led
      BY ReadyQuietly
    <2>3. /\ m.type = "AppendEntries" /\ m.term >= u.term
          /\ Matches(u, past.prev, past.prevTerm) /\ Restarted(m.to, st)
      BY <1>3 DEF CrashAfterCut, Ready
    <2>4. m \in AppendOf(E) /\ AppendOK(m, K, V)
      BY <2>1, <2>2, <2>3, KindsOfMessages DEF MessageOK
    <2>5. m.term = u.term
      <3>1. s.term \in Nat /\ u.term \in Nat
        BY <2>1, NodeTypes DEF WellMade
      <3>2. m.term >= s.term
        BY <3>1, <2>1, <2>3
      <3>3. QED
        BY <3>2, <2>1, TermTaken
    <2>6. PICK H : Quietly(u, Started(u.id, u.boot, st), K, H, V)
      BY <2>1, <2>2, <2>3, <2>4, <2>5, <1>c, CrashAfterCutQuietly
    <2> HIDE DEF st, past, u
    <2>7. Quietly(u, r, K, H, V)
      BY <2>1, <2>6
    <2> HIDE DEF r
    <2>8. Quietly(s, r, G, H, V)
      BY <2>2, <2>7, QuietlyTwice
    <2>9. Kept(H, V)'
      BY <2>1, <2>3, <2>8, <1>1 DEF r
    <2>10. QED
      BY <2>9
  <1>4. QED
    BY <1>2, <1>3

(* Nothing has happened at first.                                          *)
NoHistory ==
    [log |-> [t \in Nat |-> <<>>], took |-> [v \in Server |-> [t \in Nat |-> 0]],
     term |-> [v \in Server |-> 0], led |-> [t \in Nat |-> {}],
     stood |-> [v \in Server |-> {}], stand |-> [v \in Server |-> [t \in Nat |-> <<>>]],
     done |-> [t \in Nat |-> {}]]

LEMMA NoHistoryFacts ==
    ASSUME NEW V
    PROVE  HistoryOK(NoHistory, V)
  <1> DEFINE G == NoHistory
  <1>1. <<>> \in Logs /\ Len(<<>>) = 0
    BY DEF Logs
  <1>2. G \in History
    <2>1. /\ [t \in Nat |-> <<>>] \in [Nat -> Logs]
          /\ [v \in Server |-> [t \in Nat |-> 0]] \in [Server -> [Nat -> Nat]]
          /\ [v \in Server |-> 0] \in [Server -> Nat]
          /\ [t \in Nat |-> {}] \in [Nat -> SUBSET Server]
          /\ [v \in Server |-> {}] \in [Server -> SUBSET Nat]
          /\ [v \in Server |-> [t \in Nat |-> <<>>]] \in [Server -> [Nat -> Logs]]
          /\ [t \in Nat |-> {}] \in [Nat -> SUBSET Plain]
      BY <1>1
    <2>2. QED
      BY <2>1 DEF NoHistory, History
  <1>3. /\ \A t \in Nat : G.log[t] = <<>> /\ G.led[t] = {}
        /\ \A v \in Server, t \in Nat : G.took[v][t] = 0
    BY DEF NoHistory
  <1> HIDE DEF G
  <1>4. Recorded(G)
    <2> SUFFICES ASSUME NEW t \in Nat
                 PROVE  /\ Sound(G.log[t], G) /\ UpTo(G.log[t], t) /\ Sorted(G.log[t])
                        /\ ~Led(G, t) => G.log[t] = <<>>
                        /\ \A v \in Server : G.took[v][t] <= Len(G.log[t])
                        /\ \A x, y \in G.led[t] : x = y
      BY DEF Recorded
    <2>1. \A i \in 1 .. Len(G.log[t]) : FALSE
      BY <1>1, <1>3
    <2>2. Sound(G.log[t], G) /\ UpTo(G.log[t], t) /\ Sorted(G.log[t])
      BY <2>1 DEF Sound, UpTo, Sorted
    <2>3. QED
      BY <2>2, <1>1, <1>3
  <1>5. Safe(G, V)
    BY <1>3 DEF Safe, Led
  <1>6. QED
    BY <1>2, <1>4, <1>5 DEF HistoryOK, G

LEMMA InitIsKept ==
    ASSUME NEW V, NEW M, Closed(M, {Nobody}), Init, \A n \in Server : Boot(n, left) \in M
    PROVE  Kept(NoHistory, V)
  <1> DEFINE G == NoHistory
             st == EmptyStorage
  <1>1. /\ st.term = 0 /\ st.votedFor = Nil /\ st.log = <<>> /\ st.snap = NoSnapshot
        /\ <<>> \in Seq(EntryOf({Nobody})) /\ <<>> \in Logs /\ Len(<<>>) = 0
        /\ Nil \in Maybe /\ NoSnapshot \in SnapshotOf(M) /\ NoSnapshot.index = 0
    BY DEF EmptyStorage, NoSnapshot, SnapshotOf, Closed, Maybe, Logs
  <1>2. /\ \A t \in Nat : G.log[t] = <<>> /\ G.led[t] = {} /\ G.done[t] = {}
        /\ \A v \in Server : G.term[v] = 0 /\ G.stood[v] = {}
        /\ \A v \in Server, t \in Nat : G.took[v][t] = 0
    BY DEF NoHistory
  <1>3. /\ node = [n \in Server |-> Started(n, Boot(n, left), st)]
        /\ msgs = {} /\ elected = {} /\ committed = {}
    BY DEF Init
  <1>4. HistoryOK(G, V)
    BY NoHistoryFacts
  <1> HIDE DEF G, st
  <1>5. ASSUME NEW n \in Server
        PROVE  NodeOK(node[n], G, V)
    <2> DEFINE boot == Boot(n, left)
               r == Started(n, boot, st)
    <2>1. /\ st.term \in Nat /\ st.votedFor \in Maybe /\ st.snap \in SnapshotOf(M)
          /\ st.log \in Seq(EntryOf({Nobody})) /\ st.snap.index <= Len(st.log) /\ boot \in M
      BY <1>1
    <2>2. node[n] = r
      BY <1>3
    <2> HIDE DEF boot
    <2>a. LET q == Started(n, boot, st) IN
          /\ q \in Node(M, {Nobody}) /\ Sized(q) /\ Termed(q) /\ Begun(q)
          /\ q.id = n /\ q.boot = boot /\ q.term = st.term /\ q.votedFor = st.votedFor
          /\ q.role = "Follower" /\ q.snap = st.snap /\ q.incoming.pieces = <<>>
      BY <2>1, StartedFacts
    <2>b. LET q == Started(n, boot, st) IN
          /\ q.log = st.log /\ q.commit = st.snap.index /\ q.applied = st.snap.index
          /\ q.building.index = 0
      BY <2>1, StartedIs
    <2>3. /\ r.id = n /\ r.term = 0 /\ r.role = "Follower" /\ r.snap.index = 0
      BY <2>a, <1>1
    <2>4. r.log = <<>> /\ r.commit = 0 /\ r.applied = 0 /\ r.building.index = 0
      BY <2>b, <1>1
    <2> HIDE DEF r
    <2>5. \A i \in 1 .. Len(r.log) : FALSE
      BY <2>4, <1>1
    <2>6. LogOf(r, G)
      <3>1. Sound(r.log, G) /\ UpTo(r.log, r.term)
        BY <2>5 DEF Sound, UpTo
      <3>2. Agree(r.log, G.log[r.term], G.took[r.id][r.term])
        BY <2>3, <2>4, <1>1, <1>2 DEF Agree
      <3>3. \A T \in Nat : \A N : ~Has(G.log[T], T, N)
        BY <1>1, <1>2 DEF Has
      <3>4. Persists(r, G)
        BY <3>3 DEF Persists
      <3>5. QED
        BY <3>1, <3>2, <3>4 DEF LogOf
    <2>7. Settles(r, G, V)
      BY <2>3, <2>4, <1>1 DEF Settles, Settled
    <2>8. TermOf(r, G)
      BY <2>3, <1>2 DEF TermOf
    <2>9. Built(r) /\ Stands(r, G) /\ Leads(r, G)
      BY <2>3, <2>4 DEF Built, Stands, Leads
    <2>10. QED
      BY <2>2, <2>6, <2>7, <2>8, <2>9 DEF NodeOK
  <1>6. QED
    BY <1>2, <1>3, <1>4, <1>5 DEF Kept, G

(* The membership the cluster started with, and a history of it.           *)
Logged ==
    \E V \in SUBSET Server :
        /\ left.voters = V /\ left.changes = {} /\ Inv(Standing(V), {Nobody})
        /\ \E G : Kept(G, V)

LEMMA InitIsLogged ==
    ASSUME \A sc \in Scenarios : sc.changes = {}, Init
    PROVE  Logged
  <1> DEFINE V == left.voters
  <1>1. left \in Scenarios
    BY DEF Init
  <1>2. /\ left \in ScenarioOf(Membership) /\ V \in SUBSET Server
        /\ \A n \in Server : Boot(n, left) \in Standing(V)
    BY <1>1, ScenariosAreOfMembership DEF Standing
  <1>3. left.changes = {}
    BY <1>1
  <1>4. left \in ScenarioOf({Nobody})
    BY <1>2, <1>3 DEF ScenarioOf
  <1>5. Inv(Standing(V), {Nobody})
    BY <1>2, <1>4, StandingIsClosed, InitIsInv
  <1>6. Kept(NoHistory, V)
    BY <1>2, StandingIsClosed, InitIsKept
  <1>7. QED
    BY <1>2, <1>3, <1>5, <1>6 DEF Logged

(* Nobody adds to what is asked for.                                       *)
LEMMA NoChangesAreAdded ==
    ASSUME NEW E, left \in ScenarioOf(E), left.changes = {}, [Next]_vars
    PROVE  left'.changes = {}
  <1>1. ASSUME NEW what, Spend(what), what # "changes"
        PROVE  left'.changes = {}
    BY <1>1 DEF Spend, ScenarioOf
  <1>2. CASE UNCHANGED left
    BY <1>2
  <1>3. CASE UNCHANGED vars
    BY <1>3 DEF vars
  <1>4. ASSUME NEW n \in Server,
               \/ ElectionTimer(n) \/ Heartbeat(n) \/ Stand(n)
               \/ \E cmds \in Proposals : ClientProposes(n, cmds)
               \/ \E ms \in left.changes : ClientChanges(n, ms)
               \/ SnapshotBegins(n) \/ SnapshotEnds(n) \/ ClientReads(n) \/ ClientForgets(n)
        PROVE  left'.changes = {}
    <2>1. \/ Spend("ticks") \/ Spend("campaigns") \/ Spend("proposals") \/ Spend("compactions")
          \/ Spend("reads") \/ UNCHANGED left
      BY <1>4 DEF ElectionTimer, Heartbeat, TimerRunsOut, Stand, ClientProposes,
                  SnapshotBegins, SnapshotEnds, ClientReads, ClientForgets
    <2>2. QED
      BY <2>1, <1>1, <1>2
  <1>5. ASSUME NEW m \in msgs,
               \/ DeliverPreVote(m) \/ DeliverPreVoteReply(m)
               \/ DeliverRequestVote(m) \/ DeliverVoteReply(m)
               \/ DeliverAppendEntries(m) \/ DeliverAppendReply(m)
               \/ DeliverInstallSnapshot(m) \/ DeliverSnapshotReply(m)
               \/ DeliverReadIndex(m) \/ DeliverReadIndexReply(m)
        PROVE  left'.changes = {}
    <2>1. UNCHANGED left
      BY <1>5, Zenon
         DEF DeliverPreVote, DeliverPreVoteReply, DeliverRequestVote, DeliverVoteReply,
             DeliverAppendEntries, DeliverAppendReply, DeliverInstallSnapshot,
             DeliverSnapshotReply, DeliverReadIndex, DeliverReadIndexReply, Deliver
    <2>2. QED
      BY <2>1, <1>2
  <1>6. CASE Crash
    <2>1. Spend("restarts")
      BY <1>6, Zenon DEF Crash, Restart, CrashAfterCut, Restarted
    <2>2. QED
      BY <2>1, <1>1
  <1>7. QED
    BY <1>3, <1>4, <1>5, <1>6 DEF Next, Elect, Replicate, Snapshot, Read

LEMMA SteadyElectsNext == Steady' => ElectionSafety'
  <1>1. Steady => ElectionSafety
    BY SteadyElects
  <1>2. QED
    BY <1>1, PTL

LEMMA NextKeepsLogged ==
    ASSUME Logged, [Next]_vars
    PROVE  Logged'
  <1>1. PICK V \in SUBSET Server :
            /\ left.voters = V /\ left.changes = {} /\ Inv(Standing(V), {Nobody})
            /\ \E G : Kept(G, V)
    BY DEF Logged
  <1>2. PICK G : Kept(G, V)
    BY <1>1
  <1>3. Inv(Standing(V), {Nobody})' /\ left'.voters = V
    BY <1>1, StandingIsClosed, NextKeepsInv
  <1>4. left'.changes = {}
    BY <1>1, NoChangesAreAdded DEF Inv
  <1>5. ElectionSafety'
    <2>1. Steady'
      BY <1>3 DEF Steady
    <2>2. QED
      BY <2>1, SteadyElectsNext
  <1>6. \E H : Kept(H, V)'
    <2>1. CASE UNCHANGED vars
      <3>1. Kept(G, V)'
        BY <1>2, <2>1 DEF vars, Kept
      <3>2. QED
        BY <3>1
    <2>2. CASE Crash
      BY <2>2, <1>1, <1>2, <1>3, RestartsKeepLogs DEF Crash
    <2>3. ASSUME NEW n \in Server,
                 \/ ElectionTimer(n) \/ Heartbeat(n) \/ Stand(n)
                 \/ \E cmds \in Proposals : ClientProposes(n, cmds)
                 \/ SnapshotBegins(n) \/ SnapshotEnds(n) \/ ClientReads(n) \/ ClientForgets(n)
          PROVE  \E H : Kept(H, V)'
      BY <2>3, <1>1, <1>2, <1>5, CallsKeepLogs
    <2>4. ASSUME NEW m \in msgs,
                 \/ DeliverPreVote(m) \/ DeliverPreVoteReply(m)
                 \/ DeliverRequestVote(m) \/ DeliverVoteReply(m)
                 \/ DeliverAppendEntries(m) \/ DeliverAppendReply(m)
                 \/ DeliverInstallSnapshot(m) \/ DeliverSnapshotReply(m)
                 \/ DeliverReadIndex(m) \/ DeliverReadIndexReply(m)
          PROVE  \E H : Kept(H, V)'
      BY <2>4, <1>1, <1>2, <1>5, ElectionMessagesKeepLogs, AppendMessagesKeepLogs,
         SnapshotMessagesKeepLogs, ReadMessagesKeepLogs
    <2>5. QED
      BY <2>1, <2>2, <2>3, <2>4, <1>1 DEF Next, Elect, Replicate, Snapshot, Read
  <1>7. QED
    BY <1>3, <1>4, <1>6 DEF Logged

(* What the invariant says of the cluster.                                 *)

(* Where two chosen entries are of one index, they are one.                *)
LEMMA ChosenAgree ==
    ASSUME NEW V \in SUBSET Server, NEW G, HistoryOK(G, V), NEW T \in Nat, NEW N \in Nat,
           Chosen(G, T, N, V), NEW U \in Nat, T <= U, Led(G, U)
    PROVE  Agree(G.log[U], G.log[T], N)
  <1>1. /\ G \in History /\ G.log[U] \in Logs /\ G.log[T] \in Logs
        /\ Sound(G.log[U], G) /\ Sound(G.log[T], G)
    BY HistoryTypes DEF HistoryOK, Recorded
  <1>2. Has(G.log[U], T, N) /\ Has(G.log[T], T, N)
    BY ChosenIsKept DEF Chosen
  <1>3. QED
    BY <1>1, <1>2, SoundLogsMeet

LEMMA ChosenIsLed ==
    ASSUME NEW V, NEW G, HistoryOK(G, V), NEW T \in Nat, NEW N, Chosen(G, T, N, V)
    PROVE  Led(G, T)
  <1>1. Len(<<>>) = 0
    OBVIOUS
  <1>2. G.log[T] # <<>>
    BY <1>1 DEF Chosen, Has
  <1>3. QED
    BY <1>2 DEF HistoryOK, Recorded

LEMMA FoundedAgree ==
    ASSUME NEW V \in SUBSET Server, NEW G, HistoryOK(G, V), NEW c, Founded(c, G, V),
           NEW d, Founded(d, G, V), c.at = d.at
    PROVE  c.entry = d.entry
  <1>1. PICK T \in Nat, N \in Nat : N >= c.at /\ Chosen(G, T, N, V) /\ G.log[T][c.at] = c.entry
    BY DEF Founded
  <1>2. PICK U \in Nat, K \in Nat : K >= d.at /\ Chosen(G, U, K, V) /\ G.log[U][d.at] = d.entry
    BY DEF Founded
  <1>3. Led(G, T) /\ Led(G, U)
    BY <1>1, <1>2, ChosenIsLed
  <1>4. c.at \in 1 .. N /\ d.at \in 1 .. K
    BY <1>1, <1>2 DEF Founded
  <1> DEFINE i == c.at
  <1>a. i \in 1 .. N /\ i \in 1 .. K /\ G.log[T][i] = c.entry /\ G.log[U][i] = d.entry
    BY <1>1, <1>2, <1>4
  <1> HIDE DEF i
  <1>5. CASE T <= U
    <2>1. Agree(G.log[U], G.log[T], N)
      BY <1>1, <1>3, <1>5, ChosenAgree
    <2>2. QED
      BY <2>1, <1>a DEF Agree
  <1>6. CASE U <= T
    <2>1. Agree(G.log[T], G.log[U], K)
      BY <1>2, <1>3, <1>6, ChosenAgree
    <2>2. QED
      BY <2>1, <1>a DEF Agree
  <1>7. QED
    BY <1>5, <1>6

(* What of a node and its history the properties speak of.                 *)
LEMMA LoggedNodes ==
    ASSUME NEW V, NEW G, Inv(Standing(V), {Nobody}), Kept(G, V), NEW n \in Server
    PROVE  /\ NodeOK(node[n], G, V) /\ node[n].id = n /\ node[n].log \in Logs
           /\ Sound(node[n].log, G) /\ Len(node[n].log) \in Nat
           /\ DOMAIN node[n].log = 1 .. Len(node[n].log) /\ node[n].term \in Nat
           /\ node[n] \in Node(Standing(V), {Nobody})
  <1>1. node[n] \in Node(Standing(V), {Nobody}) /\ node[n].id = n
    BY DEF Inv, NodesAreWellMade, WellMade
  <1>2. node[n].log \in Logs /\ Len(node[n].log) \in Nat /\ node[n].term \in Nat
    BY <1>1, PlainNodes
  <1>3. DOMAIN node[n].log = 1 .. Len(node[n].log)
    BY <1>2 DEF Logs
  <1>4. NodeOK(node[n], G, V)
    BY DEF Kept
  <1>5. QED
    BY <1>1, <1>2, <1>3, <1>4 DEF NodeOK, LogOf

LEMMA LoggedStateMachines ==
    ASSUME Logged
    PROVE  StateMachineSafety
  <1>1. PICK V \in SUBSET Server : Inv(Standing(V), {Nobody}) /\ \E G : Kept(G, V)
    BY DEF Logged
  <1>2. PICK G : Kept(G, V)
    BY <1>1
  <1>3. ASSUME NEW c \in committed, NEW d \in committed, c.at = d.at
        PROVE  c.entry = d.entry
    BY <1>2, <1>3, FoundedAgree DEF Kept
  <1>4. ASSUME NEW n \in Server,
               NEW i \in 1 .. Max({node[n].commit, node[n].applied, node[n].snap.index})
        PROVE  \E c \in committed : c.at = i /\ Holds(n, c)
    <2> DEFINE s == node[n]
    <2>1. /\ NodeOK(s, G, V) /\ Len(s.log) \in Nat /\ DOMAIN s.log = 1 .. Len(s.log)
          /\ s \in Node(Standing(V), {Nobody})
      BY <1>1, <1>2, LoggedNodes
    <2> HIDE DEF s
    <2>2. s.commit \in Nat /\ s.applied \in Nat /\ s.snap.index \in Nat
      BY <2>1, PlainNodes
    <2>3. PICK b \in {s.commit, s.applied, s.snap.index} : i \in 1 .. b
      <3> DEFINE S == {s.commit, s.applied, s.snap.index}
      <3>1. S \in SUBSET Nat /\ S # {} /\ \E k \in Nat : \A x \in S : x <= k
        <4>1. S \in SUBSET Nat /\ S # {}
          BY <2>2
        <4>2. \A x \in S : x <= s.commit + s.applied + s.snap.index
          BY <2>2
        <4>3. QED
          BY <4>1, <4>2, <2>2
      <3> HIDE DEF S
      <3>2. Max(S) \in S
        BY <3>1, MaxFacts
      <3>3. i \in 1 .. Max(S)
        BY <1>4 DEF S, s
      <3>4. QED
        BY <3>2, <3>3 DEF S
    <2>4. Settled(s.log, b, s.term, G, V)
      BY <2>1, <2>3 DEF NodeOK, Settles
    <2>5. i \in Nat /\ i \in 1 .. Len(s.log) /\ s.log[i] \in G.done[i]
      BY <2>1, <2>2, <2>3, <2>4 DEF Settled
    <2>6. PICK c \in committed : c.at = i /\ c.entry = s.log[i]
      BY <2>5, <1>2 DEF Kept
    <2>7. Holds(n, c)
      BY <2>1, <2>5, <2>6 DEF Holds, s
    <2>8. QED
      BY <2>6, <2>7
  <1>5. QED
    BY <1>3, <1>4 DEF StateMachineSafety

LEMMA LoggedLeaders ==
    ASSUME Logged
    PROVE  LeaderCompleteness
  <1> SUFFICES ASSUME NEW n \in Server, NEW c \in committed,
                      node[n].role = "Leader", node[n].term >= c.by
               PROVE  Holds(n, c)
    BY DEF LeaderCompleteness
  <1>1. PICK V \in SUBSET Server : Inv(Standing(V), {Nobody}) /\ \E G : Kept(G, V)
    BY DEF Logged
  <1>2. PICK G : Kept(G, V)
    BY <1>1
  <1> DEFINE s == node[n]
  <1>3. NodeOK(s, G, V) /\ DOMAIN s.log = 1 .. Len(s.log) /\ s.term \in Nat
    BY <1>1, <1>2, LoggedNodes
  <1>4. s.log = G.log[s.term] /\ Led(G, s.term)
    BY <1>3 DEF NodeOK, Leads, Led
  <1>5. HistoryOK(G, V) /\ Founded(c, G, V)
    BY <1>2 DEF Kept
  <1>6. PICK T \in Nat, N \in Nat :
            T <= c.by /\ N >= c.at /\ Chosen(G, T, N, V) /\ G.log[T][c.at] = c.entry
    BY <1>5 DEF Founded
  <1>7. T <= s.term /\ c.at \in 1 .. N
    BY <1>3, <1>5, <1>6 DEF Founded
  <1> DEFINE i == c.at
             U == s.term
  <1>a. U \in Nat /\ T <= U /\ i \in 1 .. N /\ Led(G, U)
    BY <1>3, <1>4, <1>7
  <1> HIDE DEF i, U
  <1>b. i \in 1 .. Len(G.log[U]) /\ G.log[U][i] = G.log[T][i]
    <2>1. Agree(G.log[U], G.log[T], N) /\ Len(G.log[U]) \in Nat
      BY <1>a, <1>5, <1>6, ChosenAgree, HistoryTypes DEF HistoryOK
    <2>2. QED
      BY <2>1, <1>a DEF Agree
  <1>8. c.at \in 1 .. Len(G.log[s.term]) /\ G.log[s.term][c.at] = c.entry
    BY <1>b, <1>6 DEF i, U
  <1>9. QED
    BY <1>3, <1>4, <1>8 DEF Holds

LEMMA LoggedMatch ==
    ASSUME Logged
    PROVE  LogMatching
  <1> SUFFICES ASSUME NEW a \in Server, NEW b \in Server,
                      NEW i \in DOMAIN node[a].log \cap DOMAIN node[b].log,
                      node[a].log[i].term = node[b].log[i].term
               PROVE  SubSeq(node[a].log, 1, i) = SubSeq(node[b].log, 1, i)
    BY DEF LogMatching
  <1>1. PICK V \in SUBSET Server : Inv(Standing(V), {Nobody}) /\ \E G : Kept(G, V)
    BY DEF Logged
  <1>2. PICK G : Kept(G, V)
    BY <1>1
  <1> DEFINE q == node[a].log
             p == node[b].log
             T == q[i].term
  <1>3. /\ q \in Logs /\ Sound(q, G) /\ DOMAIN q = 1 .. Len(q) /\ Len(q) \in Nat
        /\ p \in Logs /\ Sound(p, G) /\ DOMAIN p = 1 .. Len(p) /\ Len(p) \in Nat
    BY <1>1, <1>2, LoggedNodes
  <1>4. Has(q, T, i) /\ Has(p, T, i)
    BY <1>3 DEF Has
  <1>5. i \in Nat /\ i \in 1 .. Len(q) /\ i \in 1 .. Len(p)
    BY <1>3
  <1>6. G \in History
    BY <1>2 DEF Kept, HistoryOK
  <1> HIDE DEF q, p, T
  <1>7. Agree(q, p, i)
    BY <1>3, <1>4, <1>6, SoundLogsMeet
  <1>8. SubSeq(q, 1, i) = SubSeq(p, 1, i)
    BY <1>3, <1>5, <1>7 DEF Agree, Logs
  <1>9. QED
    BY <1>8 DEF q, p

(* Whoever acknowledged a chosen entry still has it.                       *)
LEMMA AcknowledgedIsHeld ==
    ASSUME NEW V \in SUBSET Server, NEW G, Inv(Standing(V), {Nobody}), Kept(G, V),
           NEW c \in committed, NEW T \in Nat, NEW N \in Nat, N >= c.at, Chosen(G, T, N, V),
           G.log[T][c.at] = c.entry, NEW v \in Server, G.took[v][T] >= N
    PROVE  Holds(v, c)
  <1> DEFINE s == node[v]
  <1>1. /\ NodeOK(s, G, V) /\ s.id = v /\ s.log \in Logs /\ Sound(s.log, G) /\ Len(s.log) \in Nat
        /\ DOMAIN s.log = 1 .. Len(s.log) /\ s.term \in Nat
    BY LoggedNodes
  <1>2. /\ HistoryOK(G, V) /\ G \in History /\ c.at \in Nat \ {0} /\ G.took[v][T] \in Nat
        /\ G.log[T] \in Logs /\ Sound(G.log[T], G)
    BY HistoryTypes DEF Kept, HistoryOK, Founded, Recorded
  <1> HIDE DEF s
  <1>3. T <= s.term
    <2>1. G.took[v][T] # 0
      BY <1>2
    <2>2. ~(T > s.term)
      BY <2>1, <1>1 DEF NodeOK, TermOf
    <2>3. QED
      BY <2>2, <1>1
  <1>4. Has(G.log[T], T, N)
    BY DEF Chosen
  <1>5. ~Overruled(G, s.term, T, N)
    <2> SUFFICES ASSUME NEW U \in Nat, T < U, Led(G, U), ~Has(G.log[U], T, N)
                 PROVE  FALSE
      BY DEF Overruled
    <2>1. QED
      BY <1>2, ChosenIsKept
  <1>6. Has(s.log, T, N)
    BY <1>1, <1>3, <1>4, <1>5 DEF NodeOK, LogOf, Persists
  <1>7. Agree(s.log, G.log[T], N)
    BY <1>1, <1>2, <1>4, <1>6, SoundLogsMeet
  <1>8. c.at \in 1 .. Len(s.log) /\ s.log[c.at] = c.entry
    BY <1>1, <1>2, <1>7 DEF Agree
  <1>9. QED
    BY <1>1, <1>8 DEF Holds, s

LEMMA LoggedMajority ==
    ASSUME Logged
    PROVE  MajorityHoldsCommitted
  <1> SUFFICES ASSUME NEW c \in committed
               PROVE  Cardinality({n \in left.voters : Holds(n, c)}) >= Quorum(left.voters)
    BY DEF MajorityHoldsCommitted
  <1>1. PICK V \in SUBSET Server :
            left.voters = V /\ Inv(Standing(V), {Nobody}) /\ \E G : Kept(G, V)
    BY DEF Logged
  <1>2. PICK G : Kept(G, V)
    BY <1>1
  <1>3. PICK T \in Nat, N \in Nat :
            N >= c.at /\ Chosen(G, T, N, V) /\ G.log[T][c.at] = c.entry
    BY <1>2 DEF Kept, Founded
  <1>4. PICK Q \in SUBSET Server : Majority(V, Q) /\ \A v \in Q : G.took[v][T] >= N
    BY <1>3 DEF Chosen
  <1> DEFINE P == Q \cap V
             S == {n \in V : Holds(n, c)}
  <1>5. \A v \in Q : Holds(v, c)
    BY <1>1, <1>2, <1>3, <1>4, AcknowledgedIsHeld
  <1>6. P \subseteq S /\ S \subseteq V
    BY <1>5
  <1>7. IsFiniteSet(V) /\ IsFiniteSet(S)
    BY <1>6, ServerAssumption, FS_Subset
  <1>8. Cardinality(P) >= Quorum(V)
    BY <1>4 DEF Majority
  <1> HIDE DEF P, S
  <1>9. Cardinality(P) <= Cardinality(S) /\ IsFiniteSet(P)
    BY <1>6, <1>7, FS_Subset
  <1>10. Cardinality(P) \in Nat /\ Cardinality(S) \in Nat /\ Cardinality(V) \in Nat
    BY <1>7, <1>9, FS_CardinalityType
  <1>11. Quorum(V) \in Int
    BY <1>10 DEF Quorum
  <1>12. Cardinality(S) >= Quorum(V)
    BY <1>8, <1>9, <1>10, <1>11
  <1>13. QED
    BY <1>1, <1>12 DEF S

LEMMA LoggedProgress ==
    ASSUME Logged
    PROVE  ProgressIsReal
  <1> SUFFICES ASSUME NEW n \in Server, NEW p \in Server, node[n].role = "Leader",
                      node[p].term = node[n].term, NEW i \in 1 .. node[n].match[p]
               PROVE  i \in DOMAIN node[p].log /\ node[p].log[i] = node[n].log[i]
    BY DEF ProgressIsReal
  <1>1. PICK V \in SUBSET Server : Inv(Standing(V), {Nobody}) /\ \E G : Kept(G, V)
    BY DEF Logged
  <1>2. PICK G : Kept(G, V)
    BY <1>1
  <1> DEFINE s == node[n]
             f == node[p]
             k == G.took[p][s.term]
  <1>3. NodeOK(s, G, V) /\ s \in Node(Standing(V), {Nobody}) /\ s.term \in Nat
    BY <1>1, <1>2, LoggedNodes
  <1>4. NodeOK(f, G, V) /\ f.id = p /\ Len(f.log) \in Nat /\ DOMAIN f.log = 1 .. Len(f.log)
    BY <1>1, <1>2, LoggedNodes
  <1>5. s.match[p] \in Nat /\ k \in Nat
    <2>1. s.match \in [Server -> Nat]
      BY <1>3, PlainNodes
    <2>2. G \in History
      BY <1>2 DEF Kept, HistoryOK
    <2>3. k \in Nat
      BY <2>2, <1>3, HistoryTypes
    <2>4. QED
      BY <2>1, <2>3
  <1>6. s.log = G.log[s.term] /\ s.match[p] <= k
    BY <1>3 DEF NodeOK, Leads
  <1>7. Agree(f.log, G.log[s.term], k)
    BY <1>4 DEF NodeOK, LogOf
  <1> HIDE DEF k
  <1>8. i \in 1 .. k /\ k <= Len(f.log)
    BY <1>5, <1>6, <1>7 DEF Agree
  <1>9. QED
    BY <1>4, <1>5, <1>6, <1>7, <1>8 DEF Agree

LEMMA AlwaysLogged ==
    ASSUME \A sc \in Scenarios : sc.changes = {}
    PROVE  Spec => []Logged
  <1>1. Init => Logged
    BY InitIsLogged
  <1>2. Logged /\ [Next]_vars => Logged'
    BY NextKeepsLogged
  <1>3. QED
    BY <1>1, <1>2, PTL DEF Spec

(* take_committed: "what makes the state machines agree".  For every       *)
(* number of nodes and every set of voters, whatever is lost, late,        *)
(* repeated or reordered, whoever restarts and wherever it is compacted or *)
(* caught up by a snapshot, at most one entry is ever committed at an      *)
(* index, and it is what any node has counted committed, applied or folded *)
(* into a snapshot there; in a cluster that nobody asks to change.         *)
THEOREM StateMachinesAgree ==
    ASSUME \A sc \in Scenarios : sc.changes = {}
    PROVE  Spec => []StateMachineSafety
  <1>1. Logged => StateMachineSafety
    BY LoggedStateMachines
  <1>2. Spec => []Logged
    BY AlwaysLogged
  <1>3. QED
    BY <1>1, <1>2, PTL

(* message.rs: "what stops a stale node from being elected and erasing     *)
(* entries".  Under the same assumptions, whoever leads a term holds every *)
(* entry that was ever committed in it or before it.                       *)
THEOREM LeadersAreComplete ==
    ASSUME \A sc \in Scenarios : sc.changes = {}
    PROVE  Spec => []LeaderCompleteness
  <1>1. Logged => LeaderCompleteness
    BY LoggedLeaders
  <1>2. Spec => []Logged
    BY AlwaysLogged
  <1>3. QED
    BY <1>1, <1>2, PTL

(* message.rs: "accepting proves the two logs are identical up to that     *)
(* point".  Under the same assumptions, two logs that have the term of one *)
(* index in common are the same up to it, truncations, overwritten tails   *)
(* and installed snapshots included.                                       *)
THEOREM LogsAlwaysMatch ==
    ASSUME \A sc \in Scenarios : sc.changes = {}
    PROVE  Spec => []LogMatching
  <1>1. Logged => LogMatching
    BY LoggedMatch
  <1>2. Spec => []Logged
    BY AlwaysLogged
  <1>3. QED
    BY <1>1, <1>2, PTL

(* README: "a majority surviving is enough".  Under the same assumptions,  *)
(* at every moment a majority of the voters has each committed entry in    *)
(* its log, so that any majority that survives has it too.                 *)
THEOREM MajoritiesAlwaysHoldCommitted ==
    ASSUME \A sc \in Scenarios : sc.changes = {}
    PROVE  Spec => []MajorityHoldsCommitted
  <1>1. Logged => MajorityHoldsCommitted
    BY LoggedMajority
  <1>2. Spec => []Logged
    BY AlwaysLogged
  <1>3. QED
    BY <1>1, <1>2, PTL

(* handle_append_reply and handle_snapshot_reply: what a leader takes a    *)
(* follower's progress to be, from answers that may be late, repeated or   *)
(* from before the follower's restart, the follower of its term has; under *)
(* the same assumptions.                                                   *)
THEOREM ProgressIsAlwaysReal ==
    ASSUME \A sc \in Scenarios : sc.changes = {}
    PROVE  Spec => []ProgressIsReal
  <1>1. Logged => ProgressIsReal
    BY LoggedProgress
  <1>2. Spec => []Logged
    BY AlwaysLogged
  <1>3. QED
    BY <1>1, <1>2, PTL
=============================================================================
