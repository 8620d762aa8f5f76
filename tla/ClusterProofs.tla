--------------------------- MODULE ClusterProofs ---------------------------
(***************************************************************************)
(* Cluster proved for every set of clients and nodes, every number of      *)
(* terms, entries and steps.                                               *)
(***************************************************************************)
EXTENDS Cluster, OrderedProofs

-----------------------------------------------------------------------------
(* Types, with what a batch holds before and after it is proposed.         *)
Entries == [term : 1..MaxTerm, by : Clients \cup {None}, members : SUBSET Nodes]
Item == [ticket : Nat, by : Writers]
Told == [ticket : Nat, answer : Place \cup {None}]
Locations == {"start", "queue", "asleep", "propose", "publish", "look", "check",
              "compare", "waiting", "done"}

InQueue == {"queue", "asleep", "propose", "publish"}

BatchInv ==
    \A c \in Clients :
        /\ pc[c] \in InQueue => c \in Writers
        /\ pc[c] = "propose" => batch[c] \in Seq(Item)
        /\ pc[c] = "publish" => batch[c] \in Seq(Told)

(* A ticket is handed out once to each writer.                             *)
Begun == {c \in Writers : pc[c] # "start"}

TypeInv == TypeOK /\ BatchInv /\ nextTicket <= Cardinality(Begun)

(* Sequences put together.                                                 *)
LEMMA ConcatFacts ==
    ASSUME NEW S, NEW s \in Seq(S), NEW u \in Seq(S)
    PROVE  /\ s \o u \in Seq(S)
           /\ Len(s \o u) = Len(s) + Len(u)
           /\ \A i \in 1..Len(s) : (s \o u)[i] = s[i]
           /\ \A k \in 1..Len(u) : (s \o u)[Len(s) + k] = u[k]
  OBVIOUS

LEMMA ConfigFacts ==
    ASSUME NEW l \in Seq(Entries)
    PROVE  Members(l) \in SUBSET Nodes /\ MembershipIndex(l) \in Nat
  <1> DEFINE C == ConfigsIn(l)
  <1>1. C \in SUBSET Nat /\ C \subseteq DOMAIN l /\ Len(l) \in Nat /\ \A x \in C : x <= Len(l)
    BY DEF ConfigsIn
  <1>2. CASE C = {}
    BY <1>2, NodesAssumption DEF Members, MembershipIndex
  <1>3. CASE C # {}
    <2>1. Max(C) \in C
      BY <1>1, <1>3, MaxFacts
    <2>2. Max(C) \in DOMAIN l /\ Max(C) \in Nat
      BY <1>1, <2>1
    <2>3. l[Max(C)] \in Entries
      BY <2>2
    <2>4. l[Max(C)].members \in SUBSET Nodes
      BY <2>3 DEF Entries
    <2>5. QED
      BY <1>3, <2>2, <2>4 DEF Members, MembershipIndex
  <1>4. QED
    BY <1>2, <1>3

LEMMA FollowFacts ==
    ASSUME NEW b \in [senders : SUBSET (Nodes \ {Me}), seen : Nat], NEW l \in Seq(Entries)
    PROVE  Follow(b, l) \in [senders : SUBSET (Nodes \ {Me}), seen : Nat]
  BY ConfigFacts, NodesAssumption DEF Follow, Update

LEMMA BegunFacts ==
    ASSUME \A c \in Writers : pc[c] # "start" => pc'[c] # "start"
    PROVE  /\ IsFiniteSet(Begun) /\ IsFiniteSet(Begun')
           /\ Cardinality(Begun) \in Nat /\ Cardinality(Begun') \in Nat
           /\ Cardinality(Begun) <= Cardinality(Begun')
           /\ Cardinality(Begun') <= Cardinality(Writers)
           /\ Cardinality(Writers) \in Nat
  <1>1. Begun \subseteq Begun' /\ Begun' \subseteq Writers
    BY DEF Begun
  <1>2. IsFiniteSet(Writers)
    BY ClientsAssumption
  <1>3. /\ IsFiniteSet(Begun') /\ Cardinality(Begun') <= Cardinality(Writers)
    BY <1>1, <1>2, FS_Subset
  <1>4. IsFiniteSet(Begun) /\ Cardinality(Begun) <= Cardinality(Begun')
    BY <1>1, <1>3, FS_Subset
  <1>5. QED
    BY <1>2, <1>3, <1>4, FS_CardinalityType

LEMMA InitTypes == Init => TypeInv
  <1> SUFFICES ASSUME Init PROVE TypeInv
    OBVIOUS
  <1>1. TypeOK
    <2>1. log \in Seq(Entries) /\ Len(log) = 1
      BY BoundsAssumption DEF Init, Entry, Entries
    <2>2. book \in [senders : SUBSET (Nodes \ {Me}), seen : Nat]
      BY NodesAssumption DEF Init
    <2>3. pc \in [Clients -> Locations] /\ steps \in Nat
      BY BoundsAssumption DEF Init, Locations
    <2>4. Cardinality(Writers) \in Nat
      BY ClientsAssumption, FS_CardinalityType
    <2>5. /\ batch \in [Clients -> Seq(Item) \cup Seq(Told)]
          /\ ticket \in [Clients -> Nat \cup {None}] /\ seen \in [Clients -> Nat]
          /\ landed \in [Clients -> Place \cup {None}] /\ placed \in [Clients -> SUBSET Place]
          /\ reply \in [Clients -> Replies \cup {None}]
          /\ read \in [Readers -> Nat \cup {None, Failed}]
          /\ floor \in [Readers -> Nat] /\ readAt \in [Readers -> Nat]
      BY DEF Init
    <2>6. /\ term \in 1..MaxTerm /\ leading \in BOOLEAN /\ commit \in 0..Len(log)
          /\ leaderStart \in Nat \ {0} /\ agreed \in Nat
          /\ waiting \in Seq(Item) /\ answers \in SUBSET Told /\ busy \in BOOLEAN
          /\ nextTicket \in 0..Cardinality(Writers) /\ changes \in Nat /\ unsignalled \in Nat
      <3>1. /\ term = 1 /\ leading = TRUE /\ commit = 1 /\ leaderStart = 1 /\ agreed = 1
            /\ waiting = <<>> /\ answers = {} /\ busy = FALSE /\ nextTicket = 0
            /\ changes = 0 /\ unsignalled = 0
        BY DEF Init
      <3>2. leading \in BOOLEAN /\ busy \in BOOLEAN
        BY <3>1
      <3>3. waiting \in Seq(Item) /\ answers \in SUBSET Told
        BY <3>1
      <3>4. /\ term \in 1..MaxTerm /\ commit \in 0..Len(log)
            /\ leaderStart \in Nat \ {0} /\ agreed \in Nat
            /\ nextTicket \in 0..Cardinality(Writers) /\ changes \in Nat /\ unsignalled \in Nat
        BY <2>1, <2>4, <3>1, BoundsAssumption
      <3>5. QED
        BY <3>2, <3>3, <3>4
    <2>7. QED
      BY <2>1, <2>2, <2>3, <2>5, <2>6 DEF TypeOK, Entries, Item, Told, Locations
  <1>2. BatchInv
    BY DEF Init, BatchInv, InQueue
  <1>3. nextTicket <= Cardinality(Begun)
    <2>1. IsFiniteSet(Begun)
      BY ClientsAssumption, FS_Subset DEF Begun
    <2>2. QED
      BY <2>1, FS_CardinalityType DEF Init
  <1>4. QED
    BY <1>1, <1>2, <1>3 DEF TypeInv

(* The steps of a client that leave its ticket and the log alone.          *)
LEMMA SubmitTypes ==
    ASSUME TypeInv, NEW c \in Clients, Submit(c)
    PROVE  TypeInv'
  <1>1. /\ c \in Writers /\ pc[c] = "start" /\ pc' = [pc EXCEPT ![c] = "queue"]
        /\ nextTicket' = nextTicket + 1
    BY DEF Submit, Goto
  <1>2. pc \in [Clients -> Locations] /\ nextTicket \in Nat
    BY ClientsAssumption, FS_CardinalityType DEF TypeInv, TypeOK, Locations
  <1>3. Begun' = Begun \cup {c} /\ c \notin Begun /\ IsFiniteSet(Begun)
    BY <1>1, <1>2, ClientsAssumption, FS_Subset DEF Begun, Clients
  <1>4. Cardinality(Begun') = Cardinality(Begun) + 1 /\ Cardinality(Begun) \in Nat
    BY <1>3, FS_AddElement, FS_CardinalityType
  <1>5. Cardinality(Begun') <= Cardinality(Writers) /\ Cardinality(Writers) \in Nat
    BY <1>1, <1>2, BegunFacts
  <1>6. nextTicket' <= Cardinality(Begun') /\ nextTicket' \in 0..Cardinality(Writers)
    BY <1>1, <1>2, <1>4, <1>5 DEF TypeInv
  <1>7. BatchInv'
    BY <1>1, <1>2 DEF TypeInv, BatchInv, InQueue, Submit, locals
  <1>8. waiting' \in Seq(Item) /\ ticket' \in [Clients -> Nat \cup {None}]
    BY <1>1, <1>2 DEF TypeInv, TypeOK, Submit, Item
  <1>9. pc' \in [Clients -> Locations]
    BY <1>1, <1>2 DEF Locations
  <1>10. TypeOK'
    BY <1>6, <1>8, <1>9
    DEF TypeInv, TypeOK, Submit, replica, results, Item, Locations
  <1>11. QED
    BY <1>6, <1>7, <1>10 DEF TypeInv

(* Everything a step leaves alone in the count of tickets.                 *)
LEMMA CountKept ==
    ASSUME TypeInv, nextTicket' = nextTicket,
           \A c \in Writers : pc[c] # "start" => pc'[c] # "start"
    PROVE  nextTicket' <= Cardinality(Begun') /\ nextTicket' \in 0..Cardinality(Writers)
  <1>1. nextTicket \in 0..Cardinality(Writers) /\ nextTicket <= Cardinality(Begun)
    BY DEF TypeInv, TypeOK
  <1>2. QED
    BY <1>1, BegunFacts

LEMMA TakeAnswerTypes ==
    ASSUME TypeInv, NEW c \in Clients, TakeAnswer(c)
    PROVE  TypeInv'
  <1>1. PICK a \in MyAnswers(c) :
            /\ answers' = answers \ {a}
            /\ IF a.answer = None
               THEN Answer(c, "REFUSED") /\ UNCHANGED landed
               ELSE /\ landed' = [landed EXCEPT ![c] = a.answer]
                    /\ Goto(c, "look")
                    /\ UNCHANGED reply
    BY DEF TakeAnswer
  <1>2. a \in Told /\ pc[c] = "queue" /\ pc \in [Clients -> Locations]
    BY DEF TypeInv, TypeOK, MyAnswers, Told, TakeAnswer, Locations
  <1>3. /\ landed' \in [Clients -> Place \cup {None}] /\ reply' \in [Clients -> Replies \cup {None}]
        /\ pc' = [pc EXCEPT ![c] = "look"] \/ pc' = [pc EXCEPT ![c] = "done"]
    BY <1>1, <1>2 DEF TypeInv, TypeOK, Told, Answer, Goto, Replies
  <1>4. pc' \in [Clients -> Locations] /\ \A d \in Writers : pc[d] # "start" => pc'[d] # "start"
    BY <1>2, <1>3 DEF Locations, Clients
  <1>5. nextTicket' <= Cardinality(Begun') /\ nextTicket' \in 0..Cardinality(Writers)
    BY <1>4, CountKept DEF TakeAnswer
  <1>6. BatchInv'
    BY <1>2, <1>3 DEF TypeInv, BatchInv, InQueue, TakeAnswer
  <1>7. TypeOK'
    BY <1>1, <1>3, <1>4, <1>5 DEF TypeInv, TypeOK, TakeAnswer, replica, Locations
  <1>8. QED
    BY <1>5, <1>6, <1>7 DEF TypeInv

LEMMA TakeQueueTypes ==
    ASSUME TypeInv, NEW c \in Clients, TakeQueue(c)
    PROVE  TypeInv'
  <1>1. /\ pc' = [pc EXCEPT ![c] = "propose"] /\ pc[c] = "queue"
        /\ batch' = [batch EXCEPT ![c] = waiting] /\ waiting' = <<>> /\ busy' = TRUE
    BY DEF TakeQueue, Goto
  <1>2. /\ pc \in [Clients -> Locations] /\ waiting \in Seq(Item)
        /\ batch \in [Clients -> Seq(Item) \cup Seq(Told)]
    BY DEF TypeInv, TypeOK, Item, Told, Locations
  <1>3. pc' \in [Clients -> Locations] /\ \A d \in Writers : pc[d] # "start" => pc'[d] # "start"
    BY <1>1, <1>2 DEF Locations, Clients
  <1>4. nextTicket' <= Cardinality(Begun') /\ nextTicket' \in 0..Cardinality(Writers)
    BY <1>3, CountKept DEF TakeQueue
  <1>5. BatchInv'
    BY <1>1, <1>2 DEF TypeInv, BatchInv, InQueue
  <1>6. batch' \in [Clients -> Seq(Item) \cup Seq(Told)]
    BY <1>1, <1>2
  <1>7. TypeOK'
    <2>1. waiting' \in Seq(Item)
      BY <1>1
    <2>2. QED
      BY <1>1, <1>3, <1>4, <1>6, <2>1
      DEF TypeInv, TypeOK, TakeQueue, replica, results, Locations, Item, Told
  <1>8. QED
    BY <1>4, <1>5, <1>7 DEF TypeInv

(* Steps that change the place of one client, or of the sleeping ones, and *)
(* leave the queue and the replica alone.                                  *)
LEMMA QueueUntouchedTypes ==
    ASSUME TypeInv, UNCHANGED <<replica, book, queue, ticket, batch, landed, placed, agreed>>,
           pc' \in [Clients -> Locations],
           \A d \in Clients : pc[d] # "start" => pc'[d] # "start",
           \A d \in Clients : pc'[d] \in InQueue => pc[d] \in InQueue,
           \A d \in Clients : pc'[d] \in {"propose", "publish"} => pc'[d] = pc[d],
           reply' \in [Clients -> Replies \cup {None}], seen' \in [Clients -> Nat],
           read' \in [Readers -> Nat \cup {None, Failed}], floor' \in [Readers -> Nat],
           readAt' \in [Readers -> Nat], changes' \in Nat, unsignalled' \in Nat, steps' \in Nat
    PROVE  TypeInv'
  <1>1. nextTicket' <= Cardinality(Begun') /\ nextTicket' \in 0..Cardinality(Writers)
    BY CountKept DEF queue, Clients
  <1>2. BatchInv'
    BY DEF TypeInv, BatchInv, InQueue
  <1>3. TypeOK'
    BY <1>1 DEF TypeInv, TypeOK, replica, queue, Locations
  <1>4. QED
    BY <1>1, <1>2, <1>3 DEF TypeInv

LEMMA SleepTypes ==
    ASSUME TypeInv, NEW c \in Clients, Sleep(c)
    PROVE  TypeInv'
  <1>1. pc \in [Clients -> Locations] /\ pc' = [pc EXCEPT ![c] = "asleep"] /\ pc[c] = "queue"
    BY DEF TypeInv, TypeOK, Sleep, Goto, Locations
  <1>2. /\ pc' \in [Clients -> Locations]
        /\ \A d \in Clients : pc[d] # "start" => pc'[d] # "start"
        /\ \A d \in Clients : pc'[d] \in InQueue => pc[d] \in InQueue
        /\ \A d \in Clients : pc'[d] \in {"propose", "publish"} => pc'[d] = pc[d]
    BY <1>1 DEF Locations, InQueue
  <1>3. QED
    BY <1>2, QueueUntouchedTypes DEF Sleep, locals, results, TypeInv, TypeOK

LEMMA AskReadTypes ==
    ASSUME TypeInv, NEW c \in Clients, AskRead(c)
    PROVE  TypeInv'
  <1>1. pc \in [Clients -> Locations] /\ pc' = [pc EXCEPT ![c] = "look"]
    BY DEF TypeInv, TypeOK, AskRead, Goto, Locations
  <1>2. /\ pc' \in [Clients -> Locations]
        /\ \A d \in Clients : pc[d] # "start" => pc'[d] # "start"
        /\ \A d \in Clients : pc'[d] \in InQueue => pc[d] \in InQueue
        /\ \A d \in Clients : pc'[d] \in {"propose", "publish"} => pc'[d] = pc[d]
    BY <1>1 DEF Locations, InQueue
  <1>3. floor' \in [Readers -> Nat]
    BY DEF AskRead, TypeInv, TypeOK
  <1>4. QED
    BY <1>2, <1>3, QueueUntouchedTypes DEF AskRead, locals, TypeInv, TypeOK

LEMMA LookTypes ==
    ASSUME TypeInv, NEW c \in Clients, Look(c)
    PROVE  TypeInv'
  <1>1. pc \in [Clients -> Locations] /\ pc' = [pc EXCEPT ![c] = "check"]
    BY DEF TypeInv, TypeOK, Look, Goto, Locations
  <1>2. /\ pc' \in [Clients -> Locations]
        /\ \A d \in Clients : pc[d] # "start" => pc'[d] # "start"
        /\ \A d \in Clients : pc'[d] \in InQueue => pc[d] \in InQueue
        /\ \A d \in Clients : pc'[d] \in {"propose", "publish"} => pc'[d] = pc[d]
    BY <1>1 DEF Locations, InQueue
  <1>3. seen' \in [Clients -> Nat]
    BY DEF Look, TypeInv, TypeOK
  <1>4. QED
    BY <1>2, <1>3, QueueUntouchedTypes DEF Look, results, TypeInv, TypeOK

LEMMA VerdictsType ==
    ASSUME NEW c \in Clients
    PROVE  Verdicts(c) \in Replies \cup {None}
  BY DEF Verdicts, WriteVerdict, ChangeVerdict, ReadVerdict, Replies

LEMMA CheckTypes ==
    ASSUME TypeInv, NEW c \in Clients, Check(c)
    PROVE  TypeInv'
  <1>1. /\ pc \in [Clients -> Locations]
        /\ pc' = [pc EXCEPT ![c] = "compare"] \/ pc' = [pc EXCEPT ![c] = "done"]
    BY DEF TypeInv, TypeOK, Check, Answer, Goto, Locations
  <1>2. /\ pc' \in [Clients -> Locations]
        /\ \A d \in Clients : pc[d] # "start" => pc'[d] # "start"
        /\ \A d \in Clients : pc'[d] \in InQueue => pc[d] \in InQueue
        /\ \A d \in Clients : pc'[d] \in {"propose", "publish"} => pc'[d] = pc[d]
    BY <1>1 DEF Locations, InQueue
  <1>3. reply' \in [Clients -> Replies \cup {None}]
    BY VerdictsType DEF TypeInv, TypeOK, Check, Answer
  <1>4. readAt' \in [Readers -> Nat]
    <2>1. readAt' = readAt \/ readAt' = [readAt EXCEPT ![c] = commit]
      BY DEF Check
    <2>2. commit \in Nat /\ readAt \in [Readers -> Nat]
      BY DEF TypeInv, TypeOK
    <2>3. QED
      BY <2>1, <2>2
  <1>5. QED
    BY <1>2, <1>3, <1>4, QueueUntouchedTypes DEF Check, locals, TypeInv, TypeOK

LEMMA CompareTypes ==
    ASSUME TypeInv, NEW c \in Clients, Compare(c)
    PROVE  TypeInv'
  <1>1. /\ pc \in [Clients -> Locations]
        /\ pc' = [pc EXCEPT ![c] = "waiting"] \/ pc' = [pc EXCEPT ![c] = "look"]
    BY DEF TypeInv, TypeOK, Compare, Goto, Locations
  <1>2. /\ pc' \in [Clients -> Locations]
        /\ \A d \in Clients : pc[d] # "start" => pc'[d] # "start"
        /\ \A d \in Clients : pc'[d] \in InQueue => pc[d] \in InQueue
        /\ \A d \in Clients : pc'[d] \in {"propose", "publish"} => pc'[d] = pc[d]
    BY <1>1 DEF Locations, InQueue
  <1>3. QED
    BY <1>2, QueueUntouchedTypes DEF Compare, locals, results, TypeInv, TypeOK

LEMMA TimeoutTypes ==
    ASSUME TypeInv, NEW c \in Clients, Timeout(c)
    PROVE  TypeInv'
  <1>1. pc \in [Clients -> Locations] /\ pc' = [pc EXCEPT ![c] = "done"]
    BY DEF TypeInv, TypeOK, Timeout, Answer, Goto, Locations
  <1>2. /\ pc' \in [Clients -> Locations]
        /\ \A d \in Clients : pc[d] # "start" => pc'[d] # "start"
        /\ \A d \in Clients : pc'[d] \in InQueue => pc[d] \in InQueue
        /\ \A d \in Clients : pc'[d] \in {"propose", "publish"} => pc'[d] = pc[d]
    BY <1>1 DEF Locations, InQueue
  <1>3. reply' \in [Clients -> Replies \cup {None}]
    BY DEF TypeInv, TypeOK, Timeout, Answer, Replies
  <1>4. QED
    BY <1>2, <1>3, QueueUntouchedTypes DEF Timeout, locals, TypeInv, TypeOK

LEMMA ChangedTypes ==
    ASSUME TypeInv, Changed
    PROVE  TypeInv'
  <1>1. /\ pc \in [Clients -> Locations]
        /\ pc' = [c \in Clients |-> IF pc[c] = "waiting" THEN "compare" ELSE pc[c]]
    BY DEF TypeInv, TypeOK, Changed, Locations
  <1>2. /\ pc' \in [Clients -> Locations]
        /\ \A d \in Clients : pc[d] # "start" => pc'[d] # "start"
        /\ \A d \in Clients : pc'[d] \in InQueue => pc[d] \in InQueue
        /\ \A d \in Clients : pc'[d] \in {"propose", "publish"} => pc'[d] = pc[d]
    BY <1>1 DEF Locations, InQueue
  <1>3. changes' \in Nat /\ unsignalled' \in Nat
    BY DEF TypeInv, TypeOK, Changed
  <1>4. QED
    BY <1>2, <1>3, QueueUntouchedTypes DEF Changed, locals, results, TypeInv, TypeOK

(* What propose_batch takes of a batch, in its order.                      *)
Wanted(b) == {i \in DOMAIN b : b[i].by \notin Large}

LEMMA AcceptedFacts ==
    ASSUME NEW b \in Seq(Item)
    PROVE  /\ IsFiniteSet(Wanted(b)) /\ Wanted(b) \in SUBSET Nat
           /\ Cardinality(Wanted(b)) \in Nat
           /\ InOrder(Wanted(b)) \in [1..Cardinality(Wanted(b)) -> Wanted(b)]
           /\ Accepted(b) \in Seq(Item)
           /\ Len(Accepted(b)) = Cardinality(Wanted(b))
           /\ DOMAIN Accepted(b) = 1..Cardinality(Wanted(b))
           /\ \A k \in 1..Cardinality(Wanted(b)) : Accepted(b)[k] = b[InOrder(Wanted(b))[k]]
  <1> DEFINE P == Wanted(b)
             n == Cardinality(P)
             at == InOrder(P)
  <1>1. IsFiniteSet(P) /\ P \in SUBSET Nat
    <2>1. IsFiniteSet(1..Len(b))
      BY FS_Interval
    <2>2. QED
      BY <2>1, FS_Subset DEF Wanted
  <1>2. n \in Nat /\ at \in [1..n -> P]
    BY <1>1, InOrderFacts
  <1>3. Accepted(b) = [k \in DOMAIN at |-> b[at[k]]]
    BY DEF Accepted, Wanted
  <1> HIDE DEF n, at
  <1>4. \A k \in 1..n : at[k] \in DOMAIN b
    BY <1>2 DEF Wanted
  <1>5. \A k \in 1..n : b[at[k]] \in Item
    BY <1>4
  <1>6. DOMAIN at = 1..n
    BY <1>2
  <1>7. /\ Accepted(b) \in Seq(Item) /\ Len(Accepted(b)) = n /\ DOMAIN Accepted(b) = 1..n
        /\ \A k \in 1..n : Accepted(b)[k] = b[at[k]]
    BY <1>2, <1>3, <1>5, <1>6
  <1>8. QED
    BY <1>1, <1>2, <1>7 DEF n, at

LEMMA PlaceFacts ==
    ASSUME TypeInv, NEW c \in Clients, Propose(c), leading
    PROVE  LET A == Accepted(batch[c]) IN
           /\ log' \in Seq(Entries)
           /\ Len(log') = Len(log) + Len(A)
           /\ \A i \in 1..Len(log) : log'[i] = log[i]
           /\ \A k \in 1..Len(A) : log'[Len(log) + k] = Entry(term, A[k].by, {})
           /\ placed' = [d \in Clients |-> placed[d] \cup
                  {[index |-> i, term |-> term] :
                      i \in {i \in (Len(log) + 1)..Len(log') : log'[i].by = d}}]
           /\ placed' \in [Clients -> SUBSET Place]
  <1> DEFINE b == batch[c]
             A == Accepted(b)
             T == [k \in 1..Len(A) |-> Entry(term, A[k].by, {})]
  <1>1. b \in Seq(Item)
    BY DEF TypeInv, BatchInv, Propose
  <1>2. A \in Seq(Item) /\ DOMAIN A = 1..Len(A) /\ Len(A) \in Nat
    BY <1>1, AcceptedFacts
  <1>3. /\ log' = log \o T
        /\ placed' = [d \in Clients |-> placed[d] \cup
                  {[index |-> i, term |-> term] :
                      i \in {i \in (Len(log) + 1)..Len(log') : log'[i].by = d}}]
    BY <1>2 DEF Propose
  <1> HIDE DEF b, A
  <1>4. T \in Seq(Entries) /\ Len(T) = Len(A) /\ \A k \in 1..Len(A) : T[k] = Entry(term, A[k].by, {})
    <2>1. ASSUME NEW k \in 1..Len(A) PROVE Entry(term, A[k].by, {}) \in Entries
      <3>1. A[k] \in Item
        BY <1>2
      <3>2. QED
        BY <3>1 DEF Item, Entry, Entries, TypeInv, TypeOK, Clients
    <2>2. QED
      BY <1>2, <2>1
  <1> HIDE DEF T
  <1>5. log \in Seq(Entries) /\ term \in 1..MaxTerm /\ placed \in [Clients -> SUBSET Place]
    BY DEF TypeInv, TypeOK, Entries
  <1>6. /\ log' \in Seq(Entries) /\ Len(log') = Len(log) + Len(A)
        /\ \A i \in 1..Len(log) : log'[i] = log[i]
        /\ \A k \in 1..Len(A) : log'[Len(log) + k] = T[k]
    <2>0. log \in Seq(Entries) /\ T \in Seq(Entries)
      BY <1>4, <1>5
    <2>1. /\ log \o T \in Seq(Entries) /\ Len(log \o T) = Len(log) + Len(T)
          /\ \A i \in 1..Len(log) : (log \o T)[i] = log[i]
          /\ \A k \in 1..Len(T) : (log \o T)[Len(log) + k] = T[k]
      BY <2>0, ConcatFacts
    <2>2. QED
      BY <1>3, <1>4, <2>1
  <1>7. placed' \in [Clients -> SUBSET Place]
    <2>1. ASSUME NEW d \in Clients
          PROVE  {[index |-> i, term |-> term] :
                      i \in {i \in (Len(log) + 1)..Len(log') : log'[i].by = d}} \in SUBSET Place
      BY <1>5, <1>6 DEF Place
    <2>2. QED
      BY <1>3, <1>5, <2>1
  <1>8. QED
    BY <1>3, <1>4, <1>6, <1>7 DEF A, b

LEMMA ProposeTypes ==
    ASSUME TypeInv, NEW c \in Clients, Propose(c)
    PROVE  TypeInv'
  <1> DEFINE b == batch[c]
             told == [i \in DOMAIN b |-> [ticket |-> b[i].ticket, answer |-> Verdict(b, i)]]
  <1>1. b \in Seq(Item) /\ pc[c] = "propose" /\ pc \in [Clients -> Locations]
    BY DEF TypeInv, TypeOK, BatchInv, Propose, Locations
  <1>2. told \in Seq(Told)
    <2>1. ASSUME NEW i \in DOMAIN b
          PROVE  [ticket |-> b[i].ticket, answer |-> Verdict(b, i)] \in Told
      <3>1. b[i] \in Item /\ i \in Nat
        BY <1>1
      <3>2. Cardinality({j \in 1..i : b[j].by \notin Large}) \in Nat
        <4>1. IsFiniteSet(1..i)
          BY <3>1, FS_Interval
        <4>2. IsFiniteSet({j \in 1..i : b[j].by \notin Large})
          BY <4>1, FS_Subset
        <4>3. QED
          BY <4>2, FS_CardinalityType
      <3>3. Index(b, i) \in Nat /\ term \in 1..MaxTerm
        BY <3>2 DEF Index, TypeInv, TypeOK
      <3>4. Verdict(b, i) \in Place \cup {None}
        BY <3>3 DEF Verdict, Place
      <3>5. QED
        BY <3>1, <3>4 DEF Item, Told
    <2>2. DOMAIN b = 1..Len(b) /\ Len(b) \in Nat
      BY <1>1
    <2> HIDE DEF b
    <2>3. told \in [1..Len(b) -> Told]
      BY <2>1, <2>2
    <2> HIDE DEF told
    <2>4. QED
      BY <2>2, <2>3
  <1>3. batch' = [batch EXCEPT ![c] = told] /\ pc' = [pc EXCEPT ![c] = "publish"]
    BY DEF Propose, Goto
  <1> HIDE DEF told
  <1>4. batch \in [Clients -> Seq(Item) \cup Seq(Told)]
    BY DEF TypeInv, TypeOK, Item, Told
  <1>5. batch' \in [Clients -> Seq(Item) \cup Seq(Told)]
    BY <1>2, <1>3, <1>4
  <1>6. BatchInv'
    BY <1>1, <1>2, <1>3, <1>4 DEF TypeInv, BatchInv, InQueue
  <1>7. pc' \in [Clients -> Locations] /\ \A d \in Writers : pc[d] # "start" => pc'[d] # "start"
    BY <1>1, <1>3 DEF Locations, Clients
  <1>8. nextTicket' <= Cardinality(Begun') /\ nextTicket' \in 0..Cardinality(Writers)
    BY <1>7, CountKept DEF Propose, queue
  <1>9. /\ log' \in Seq(Entries) /\ commit' \in 0..Len(log')
        /\ placed' \in [Clients -> SUBSET Place]
    <2>1. CASE leading
      <3>1. /\ log' \in Seq(Entries) /\ Len(log') = Len(log) + Len(Accepted(b))
            /\ placed' \in [Clients -> SUBSET Place]
        BY <2>1, PlaceFacts
      <3>2. Len(Accepted(b)) \in Nat
        BY <1>1, AcceptedFacts
      <3>3. commit' = commit /\ commit \in 0..Len(log) /\ Len(log) \in Nat
        BY DEF TypeInv, TypeOK, Propose
      <3>4. QED
        BY <3>1, <3>2, <3>3
    <2>2. CASE ~leading
      BY <2>2 DEF TypeInv, TypeOK, Propose, Entries
    <2>3. QED
      BY <2>1, <2>2
  <1>10. TypeOK'
    BY <1>5, <1>7, <1>8, <1>9
    DEF TypeInv, TypeOK, Propose, queue, Locations, Item, Told, Entries
  <1>11. QED
    BY <1>6, <1>8, <1>10 DEF TypeInv

LEMMA PublishTypes ==
    ASSUME TypeInv, NEW c \in Clients, Publish(c)
    PROVE  TypeInv'
  <1>1. /\ pc \in [Clients -> Locations] /\ pc[c] = "publish" /\ batch[c] \in Seq(Told)
        /\ batch \in [Clients -> Seq(Item) \cup Seq(Told)]
    BY DEF TypeInv, TypeOK, BatchInv, Publish, Locations, Item, Told
  <1>2. /\ pc' = [d \in Clients |-> IF d = c \/ pc[d] = "asleep" THEN "queue" ELSE pc[d]]
        /\ batch' = [batch EXCEPT ![c] = <<>>] /\ busy' = FALSE
        /\ answers' = answers \cup ToSet(batch[c])
    BY <1>1 DEF Publish, Woken
  <1>3. pc' \in [Clients -> Locations] /\ \A d \in Writers : pc[d] # "start" => pc'[d] # "start"
    BY <1>1, <1>2 DEF Locations, Clients
  <1>4. nextTicket' <= Cardinality(Begun') /\ nextTicket' \in 0..Cardinality(Writers)
    BY <1>3, CountKept DEF Publish
  <1>5. ToSet(batch[c]) \in SUBSET Told
    BY <1>1 DEF ToSet
  <1>6. BatchInv'
    BY <1>1, <1>2 DEF TypeInv, BatchInv, InQueue
  <1>7. batch' \in [Clients -> Seq(Item) \cup Seq(Told)]
    BY <1>1, <1>2
  <1>8. TypeOK'
    BY <1>2, <1>3, <1>4, <1>5, <1>7
    DEF TypeInv, TypeOK, Publish, replica, results, Locations, Item, Told
  <1>9. QED
    BY <1>4, <1>6, <1>8 DEF TypeInv

LEMMA ProposeMembershipTypes ==
    ASSUME TypeInv, NEW c \in Clients, ProposeMembership(c)
    PROVE  TypeInv'
  <1>1. /\ pc \in [Clients -> Locations] /\ pc[c] = "start" /\ c \in Changers
        /\ log \in Seq(Entries) /\ term \in 1..MaxTerm /\ commit \in 0..Len(log)
        /\ book \in [senders : SUBSET (Nodes \ {Me}), seen : Nat]
        /\ landed \in [Clients -> Place \cup {None}] /\ placed \in [Clients -> SUBSET Place]
        /\ reply \in [Clients -> Replies \cup {None}]
    BY DEF TypeInv, TypeOK, ProposeMembership, Locations, Entries
  <1>2. pc' = [pc EXCEPT ![c] = "look"] \/ pc' = [pc EXCEPT ![c] = "done"]
    BY DEF ProposeMembership, Goto, Answer
  <1>3. pc' \in [Clients -> Locations] /\ \A d \in Writers : pc[d] # "start" => pc'[d] # "start"
    BY <1>1, <1>2 DEF Locations, Clients
  <1>4. nextTicket' <= Cardinality(Begun') /\ nextTicket' \in 0..Cardinality(Writers)
    BY <1>3, CountKept DEF ProposeMembership, queue
  <1>5. BatchInv'
    BY <1>1, <1>2 DEF TypeInv, BatchInv, InQueue, ProposeMembership
  <1>6. /\ log' \in Seq(Entries) /\ commit' \in 0..Len(log')
        /\ book' \in [senders : SUBSET (Nodes \ {Me}), seen : Nat]
        /\ landed' \in [Clients -> Place \cup {None}] /\ placed' \in [Clients -> SUBSET Place]
        /\ reply' \in [Clients -> Replies \cup {None}]
    <2>1. CASE leading /\ commit >= leaderStart /\ MembershipIndex(log) <= commit
      <3>1. PICK m \in Edits : log' = Append(log, Entry(term, c, m)) /\ book' = Follow(book, log')
        BY <2>1 DEF ProposeMembership
      <3>2. Entry(term, c, m) \in Entries
        BY <1>1 DEF Entry, Entries, Edits
      <3>3. log' \in Seq(Entries) /\ Len(log') = Len(log) + 1
        BY <1>1, <3>1, <3>2
      <3>4. book' \in [senders : SUBSET (Nodes \ {Me}), seen : Nat]
        BY <1>1, <3>1, <3>3, FollowFacts
      <3>5. /\ landed' = [landed EXCEPT ![c] = [index |-> Len(log'), term |-> term]]
            /\ placed' = [placed EXCEPT ![c] = {landed'[c]}]
            /\ reply' = reply /\ commit' = commit
        BY <2>1 DEF ProposeMembership
      <3>6. [index |-> Len(log'), term |-> term] \in Place
        BY <1>1, <3>3 DEF Place
      <3>7. landed' \in [Clients -> Place \cup {None}] /\ landed'[c] \in Place
        BY <1>1, <3>5, <3>6
      <3>8. placed' \in [Clients -> SUBSET Place]
        BY <1>1, <3>5, <3>7
      <3>9. commit' \in 0..Len(log')
        BY <1>1, <3>3, <3>5
      <3>10. QED
        BY <1>1, <3>3, <3>4, <3>5, <3>7, <3>8, <3>9
    <2>2. CASE ~(leading /\ commit >= leaderStart /\ MembershipIndex(log) <= commit)
      <3>1. UNCHANGED <<log, book, landed, placed, commit>> /\ Answer(c, "REFUSED")
        BY <2>2 DEF ProposeMembership
      <3>2. reply' \in [Clients -> Replies \cup {None}]
        BY <1>1, <3>1 DEF Answer, Replies
      <3>3. QED
        BY <1>1, <3>1, <3>2
    <2>3. QED
      BY <2>1, <2>2
  <1>7. TypeOK'
    BY <1>3, <1>4, <1>6
    DEF TypeInv, TypeOK, ProposeMembership, queue, Locations, Entries
  <1>8. QED
    BY <1>4, <1>5, <1>7 DEF TypeInv

(* What the ticker and the peers do to the replica.                        *)
LEMMA PeerStepTypes ==
    ASSUME TypeInv, PeerStep, log' \in Seq(Entries), term' \in 1..MaxTerm,
           leading' \in BOOLEAN, commit' \in 0..Len(log'), leaderStart' \in Nat \ {0},
           agreed' \in Nat, read' \in [Readers -> Nat \cup {None, Failed}]
    PROVE  TypeInv'
  <1>1. /\ steps' \in Nat /\ unsignalled' \in Nat
    BY DEF TypeInv, TypeOK, PeerStep
  <1>2. book' \in [senders : SUBSET (Nodes \ {Me}), seen : Nat]
    BY FollowFacts DEF TypeInv, TypeOK, PeerStep
  <1>3. nextTicket' <= Cardinality(Begun') /\ nextTicket' \in 0..Cardinality(Writers)
    BY CountKept DEF PeerStep, queue
  <1>4. BatchInv'
    BY DEF TypeInv, BatchInv, PeerStep, locals
  <1>5. TypeOK'
    BY <1>1, <1>2, <1>3 DEF TypeInv, TypeOK, PeerStep, queue, locals, Entries
  <1>6. QED
    BY <1>3, <1>4, <1>5 DEF TypeInv

LEMMA AdvanceTypes ==
    ASSUME TypeInv, NEW n \in 1..MaxLog, Advance(n)
    PROVE  TypeInv'
  <1>1. commit' \in 0..Len(log') /\ log' = log /\ agreed' = Max({agreed, n})
    BY DEF TypeInv, TypeOK, Advance
  <1>2. agreed' \in Nat
    <2>1. agreed \in Nat /\ n \in Nat
      BY BoundsAssumption DEF TypeInv, TypeOK
    <2>2. QED
      BY <1>1, <2>1, MaxOfTwo
  <1>3. QED
    BY <1>1, <1>2, PeerStepTypes DEF Advance, TypeInv, TypeOK, Entries

LEMMA FollowsTypes ==
    ASSUME TypeInv, NEW keep \in commit..Len(log), NEW n \in commit..MaxLog,
           NEW ms \in SUBSET Nodes, Follows(keep, ms, n)
    PROVE  TypeInv'
  <1> DEFINE new == <<Entry(term', None, {})>>
             both == <<Entry(term', None, {}), Entry(term', None, ms)>>
  <1>1. /\ log \in Seq(Entries) /\ term' \in 1..MaxTerm /\ commit \in Nat /\ agreed \in Nat
        /\ MaxLog \in Nat /\ keep \in 0..Len(log)
    <2>1. /\ log \in Seq(Entries) /\ commit \in 0..Len(log) /\ agreed \in Nat
          /\ MaxLog \in Nat /\ MaxTerm \in Nat /\ term \in 1..MaxTerm
          /\ term < MaxTerm /\ term' = term + 1
      BY BoundsAssumption DEF TypeInv, TypeOK, Follows, Entries
    <2>2. term' \in 1..MaxTerm
      BY <2>1
    <2>3. commit \in Nat /\ Len(log) \in Nat
      BY <2>1
    <2>4. keep \in 0..Len(log)
      BY <2>3
    <2>5. QED
      BY <2>1, <2>2, <2>3, <2>4
  <1>2. Entry(term', None, {}) \in Entries /\ Entry(term', None, ms) \in Entries
    BY <1>1 DEF Entry, Entries
  <1>3. new \in Seq(Entries) /\ both \in Seq(Entries)
    BY <1>2
  <1>4. SubSeq(log, 1, keep) \in Seq(Entries)
    BY <1>1
  <1>5. log' = SubSeq(log, 1, keep) \o new \/ log' = SubSeq(log, 1, keep) \o both
    BY DEF Follows
  <1> HIDE DEF new, both
  <1>6. log' \in Seq(Entries)
    BY <1>3, <1>4, <1>5, ConcatFacts, Zenon
  <1>7. commit' \in 0..Len(log') /\ agreed' = Max({agreed, Len(log')})
    BY <1>1, <1>6 DEF Follows
  <1>8. agreed' \in Nat
    BY <1>1, <1>6, <1>7, MaxOfTwo
  <1>9. QED
    BY <1>1, <1>6, <1>7, <1>8, PeerStepTypes DEF Follows, TypeInv, TypeOK

LEMMA ElectedTypes ==
    ASSUME TypeInv, Elected
    PROVE  TypeInv'
  <1>1. log \in Seq(Entries) /\ term' \in 1..MaxTerm /\ leading' = TRUE
    BY BoundsAssumption DEF TypeInv, TypeOK, Elected, Entries
  <1>2. Entry(term', None, {}) \in Entries
    BY <1>1 DEF Entry, Entries
  <1>3. log' \in Seq(Entries) /\ Len(log') = Len(log) + 1
    BY <1>1, <1>2 DEF Elected
  <1>4. commit' \in 0..Len(log') /\ leaderStart' \in Nat \ {0}
    BY <1>1, <1>3 DEF TypeInv, TypeOK, Elected
  <1>5. QED
    BY <1>1, <1>3, <1>4, PeerStepTypes DEF Elected, TypeInv, TypeOK

LEMMA StepDownTypes ==
    ASSUME TypeInv, StepDown
    PROVE  TypeInv'
  BY PeerStepTypes DEF StepDown, TypeInv, TypeOK, Entries

LEMMA ReadAnsweredTypes ==
    ASSUME TypeInv, NEW c \in Readers, NEW s \in Nat \cup {Failed}, ReadAnswered(c, s)
    PROVE  TypeInv'
  <1>1. read' \in [Readers -> Nat \cup {None, Failed}]
    BY DEF ReadAnswered, TypeInv, TypeOK
  <1>2. QED
    BY <1>1, PeerStepTypes DEF ReadAnswered, replica, TypeInv, TypeOK, Entries

LEMMA NextTypes ==
    ASSUME TypeInv, [Next]_vars
    PROVE  TypeInv'
  <1>1. CASE UNCHANGED vars
    <2>1. Begun' = Begun
      BY <1>1 DEF vars, Begun
    <2>2. QED
      BY <1>1, <2>1
      DEF vars, replica, queue, locals, results, TypeInv, TypeOK, BatchInv
  <1>2. ASSUME NEW c \in Clients, Thread(c) \/ Timeout(c) PROVE TypeInv'
    BY <1>2, SubmitTypes, TakeAnswerTypes, TakeQueueTypes, SleepTypes, ProposeTypes,
       PublishTypes, ProposeMembershipTypes, AskReadTypes, LookTypes, CheckTypes, CompareTypes,
       TimeoutTypes DEF Thread
  <1>3. CASE Peers
    <2>1. ASSUME NEW c \in Readers, NEW i \in floor[c]..agreed, ReadAnswered(c, i)
          PROVE  TypeInv'
      <3>1. i \in Nat
        BY DEF TypeInv, TypeOK
      <3>2. QED
        BY <2>1, <3>1, ReadAnsweredTypes
    <2>2. ASSUME NEW c \in Readers, ReadAnswered(c, Failed) PROVE TypeInv'
      BY <2>2, ReadAnsweredTypes
    <2>3. QED
      BY <1>3, <2>1, <2>2, AdvanceTypes, FollowsTypes, StepDownTypes, ElectedTypes DEF Peers
  <1>4. CASE Changed
    BY <1>4, ChangedTypes
  <1>5. QED
    BY <1>1, <1>2, <1>3, <1>4 DEF Next, Done

(***************************************************************************)
(* Every variable keeps its type; among them that the address book never   *)
(* holds a sender to the node itself, and that each writer takes one       *)
(* ticket.                                                                 *)
(***************************************************************************)
THEOREM TypesAreKept == Spec => []TypeOK
  <1>1. Init => TypeInv
    BY InitTypes
  <1>2. TypeInv /\ [Next]_vars => TypeInv'
    BY NextTypes
  <1>3. TypeInv => TypeOK
    BY DEF TypeInv
  <1>4. QED
    BY <1>1, <1>2, <1>3, PTL DEF Spec

-----------------------------------------------------------------------------
(***************************************************************************)
(* Who proposes, and whose proposal is where.  A writer in the queue holds *)
(* a ticket of its own; its command is in the queue, in the batch being    *)
(* proposed, or in one of the answers, never in two of them, and the       *)
(* answer under its ticket says where its command went.                    *)
(***************************************************************************)
Proposing == {"propose", "publish"}

ProposerInv ==
    /\ \A c, d \in Clients : pc[c] \in Proposing /\ pc[d] \in Proposing => c = d
    /\ busy <=> \E c \in Clients : pc[c] \in Proposing

TicketInv ==
    /\ \A c \in Clients : pc[c] \in InQueue => ticket[c] \in Nat /\ ticket[c] < nextTicket
    /\ \A c, d \in Clients :
          pc[c] \in InQueue /\ pc[d] \in InQueue /\ ticket[c] = ticket[d] => c = d

(* A command that has not been proposed, and an answer to one that has.    *)
Unproposed(w) == pc[w.by] \in InQueue /\ w.ticket = ticket[w.by] /\ placed[w.by] = {}
Answers(a) == \E c \in Writers : /\ pc[c] \in InQueue /\ a.ticket = ticket[c]
                                 /\ placed[c] = IF a.answer = None THEN {} ELSE {a.answer}

WaitingInv ==
    /\ \A i \in DOMAIN waiting : Unproposed(waiting[i])
    /\ \A i, j \in DOMAIN waiting : waiting[i].ticket = waiting[j].ticket => i = j

AnswersInv ==
    /\ \A a \in answers : Answers(a)
    /\ \A a, b \in answers : a.ticket = b.ticket => a = b
    /\ \A a \in answers, i \in DOMAIN waiting : a.ticket # waiting[i].ticket

BatchesInv ==
    \A p \in Clients :
        /\ pc[p] = "propose" => \A i \in DOMAIN batch[p] : Unproposed(batch[p][i])
        /\ pc[p] = "publish" => \A i \in DOMAIN batch[p] : Answers(batch[p][i])
        /\ pc[p] \in Proposing =>
              /\ \A i, j \in DOMAIN batch[p] : batch[p][i].ticket = batch[p][j].ticket => i = j
              /\ \A i \in DOMAIN batch[p], j \in DOMAIN waiting :
                    batch[p][i].ticket # waiting[j].ticket
              /\ \A i \in DOMAIN batch[p], a \in answers : batch[p][i].ticket # a.ticket

OutcomeInv ==
    \A c \in Clients :
        /\ pc[c] \in InQueue \cup {"start"} => landed[c] = None /\ reply[c] = None
        /\ pc[c] = "start" => placed[c] = {}

QueueInv == /\ ProposerInv /\ TicketInv /\ WaitingInv /\ AnswersInv /\ BatchesInv
            /\ OutcomeInv /\ AnswersReachTheirOwners

LEMMA InitQueue == Init => QueueInv
  <1> SUFFICES ASSUME Init PROVE QueueInv
    OBVIOUS
  <1>1. \A c \in Clients : pc[c] \in {"start", "done"}
    BY DEF Init
  <1>2. ProposerInv /\ TicketInv /\ BatchesInv
    BY <1>1 DEF Init, ProposerInv, TicketInv, BatchesInv, Proposing, InQueue
  <1>3. WaitingInv /\ AnswersInv
    BY DEF Init, WaitingInv, AnswersInv
  <1>4. OutcomeInv /\ AnswersReachTheirOwners
    BY DEF Init, OutcomeInv, AnswersReachTheirOwners
  <1>5. QED
    BY <1>2, <1>3, <1>4 DEF QueueInv

(* Steps that leave the queue alone, whoever they belong to.               *)
LEMMA QueueUntouched ==
    ASSUME TypeInv, QueueInv, UNCHANGED <<queue, ticket, batch, landed, placed>>,
           \A d \in Clients : pc'[d] \in InQueue <=> pc[d] \in InQueue,
           \A d \in Clients : pc'[d] \in Proposing \/ pc[d] \in Proposing => pc'[d] = pc[d],
           \A d \in Clients : pc'[d] = "start" => pc[d] = "start",
           \A d \in Clients : \/ reply'[d] = reply[d]
                              \/ reply'[d] # "REFUSED" /\ pc'[d] \notin InQueue \cup {"start"}
    PROVE  QueueInv'
  <1>1. UNCHANGED <<waiting, answers, busy, nextTicket, ticket, batch, landed, placed>>
    BY DEF queue
  <1>2. waiting \in Seq(Item)
    BY DEF TypeInv, TypeOK, Item
  <1>3. ProposerInv'
    BY <1>1 DEF QueueInv, ProposerInv
  <1>4. TicketInv'
    BY <1>1 DEF QueueInv, TicketInv
  <1>6. ASSUME NEW a, Answers(a) PROVE Answers(a)'
    BY <1>1, <1>6 DEF Answers, Clients
  <1>7. WaitingInv'
    <2>1. ASSUME NEW i \in DOMAIN waiting PROVE Unproposed(waiting[i])'
      <3>1. waiting[i] \in Item
        BY <1>2
      <3>2. waiting[i].by \in Clients /\ Unproposed(waiting[i])
        BY <3>1 DEF QueueInv, WaitingInv, Item, Clients
      <3>3. QED
        BY <1>1, <3>2 DEF Unproposed
    <2>2. QED
      BY <1>1, <2>1 DEF QueueInv, WaitingInv
  <1>8. AnswersInv'
    BY <1>1, <1>6 DEF QueueInv, AnswersInv, Answers
  <1>9. BatchesInv'
    <2> SUFFICES ASSUME NEW p \in Clients, pc'[p] \in Proposing
                 PROVE  /\ pc'[p] = "propose" => \A i \in DOMAIN batch'[p] :
                                                    Unproposed(batch[p][i])'
                        /\ pc'[p] = "publish" => \A i \in DOMAIN batch'[p] :
                                                    Answers(batch[p][i])'
                        /\ \A i, j \in DOMAIN batch'[p] :
                              batch'[p][i].ticket = batch'[p][j].ticket => i = j
                        /\ \A i \in DOMAIN batch'[p], j \in DOMAIN waiting' :
                              batch'[p][i].ticket # waiting'[j].ticket
                        /\ \A i \in DOMAIN batch'[p], a \in answers' :
                              batch'[p][i].ticket # a.ticket
      BY Zenon DEF BatchesInv, Proposing
    <2>0. pc'[p] = pc[p] /\ batch'[p] = batch[p]
      BY <1>1
    <2>1. ASSUME pc[p] = "propose", NEW i \in DOMAIN batch[p]
          PROVE  Unproposed(batch[p][i])'
      <3>1. batch[p][i] \in Item
        BY <2>1 DEF TypeInv, BatchInv
      <3>2. batch[p][i].by \in Clients /\ Unproposed(batch[p][i])
        BY <2>1, <3>1 DEF QueueInv, BatchesInv, Item, Clients
      <3>3. QED
        BY <1>1, <3>2 DEF Unproposed
    <2>2. ASSUME pc[p] = "publish", NEW i \in DOMAIN batch[p]
          PROVE  Answers(batch[p][i])'
      <3>1. Answers(batch[p][i])
        BY <2>2 DEF QueueInv, BatchesInv
      <3>2. QED
        BY <1>1, <3>1 DEF Answers, Clients
    <2>3. QED
      BY <1>1, <2>0, <2>1, <2>2 DEF QueueInv, BatchesInv
  <1>10. OutcomeInv' /\ AnswersReachTheirOwners'
    BY <1>1 DEF QueueInv, OutcomeInv, AnswersReachTheirOwners
  <1>11. QED
    BY <1>3, <1>4, <1>7, <1>8, <1>9, <1>10 DEF QueueInv

(* What a thread does once it waits for the replica.                       *)
LEMMA ThreadQueueUntouched ==
    ASSUME TypeInv, QueueInv, NEW c \in Clients,
           Sleep(c) \/ AskRead(c) \/ Look(c) \/ Check(c) \/ Compare(c) \/ Timeout(c)
    PROVE  QueueInv'
  <1>1. UNCHANGED <<queue, ticket, batch, landed, placed>>
    BY DEF Sleep, AskRead, Look, Check, Compare, Timeout, locals, results
  <1>2. PICK at \in Locations \ (Proposing \cup {"queue", "start"}) :
            /\ pc' = [pc EXCEPT ![c] = at]
            /\ pc[c] \notin Proposing
            /\ at \in InQueue <=> pc[c] \in InQueue
            /\ \A d \in Clients : \/ reply'[d] = reply[d]
                                  \/ d = c /\ reply'[d] # "REFUSED" /\ at = "done"
    <2> reply \in [Clients -> Replies \cup {None}]
      BY DEF TypeInv, TypeOK
    <2>1. CASE Sleep(c)
      BY <2>1 DEF Sleep, Goto, results, Locations, Proposing, InQueue
    <2>2. CASE AskRead(c)
      BY <2>2 DEF AskRead, Goto, Locations, Proposing, InQueue
    <2>3. CASE Look(c)
      BY <2>3 DEF Look, Goto, results, Locations, Proposing, InQueue
    <2>4. CASE Check(c)
      <3>1. Verdicts(c) = None \/ Verdicts(c) # "REFUSED"
        BY DEF Verdicts, WriteVerdict, ChangeVerdict, ReadVerdict
      <3>2. CASE Verdicts(c) = None
        BY <2>4, <3>2 DEF Check, Goto, Locations, Proposing, InQueue
      <3>3. CASE Verdicts(c) # None
        BY <2>4, <3>1, <3>3 DEF Check, Answer, Goto, Locations, Proposing, InQueue
      <3>4. QED
        BY <3>2, <3>3
    <2>5. CASE Compare(c)
      BY <2>5 DEF Compare, Goto, results, Locations, Proposing, InQueue
    <2>6. CASE Timeout(c)
      BY <2>6 DEF Timeout, Answer, Goto, Locations, Proposing, InQueue
    <2>7. QED
      BY <2>1, <2>2, <2>3, <2>4, <2>5, <2>6
  <1>3. pc \in [Clients -> Locations]
    BY DEF TypeInv, TypeOK, Locations
  <1>4. /\ \A d \in Clients : pc'[d] \in InQueue <=> pc[d] \in InQueue
        /\ \A d \in Clients : pc'[d] \in Proposing \/ pc[d] \in Proposing => pc'[d] = pc[d]
        /\ \A d \in Clients : pc'[d] = "start" => pc[d] = "start"
        /\ \A d \in Clients : \/ reply'[d] = reply[d]
                              \/ reply'[d] # "REFUSED" /\ pc'[d] \notin InQueue \cup {"start"}
    BY <1>2, <1>3 DEF InQueue, Proposing
  <1>5. QED
    BY <1>1, <1>4, QueueUntouched

LEMMA ChangedQueue ==
    ASSUME TypeInv, QueueInv, Changed
    PROVE  QueueInv'
  <1>1. UNCHANGED <<queue, ticket, batch, landed, placed, reply>>
    BY DEF Changed, locals, results
  <1>2. /\ \A d \in Clients : pc'[d] \in InQueue <=> pc[d] \in InQueue
        /\ \A d \in Clients : pc'[d] \in Proposing \/ pc[d] \in Proposing => pc'[d] = pc[d]
        /\ \A d \in Clients : pc'[d] = "start" => pc[d] = "start"
    BY DEF Changed, InQueue, Proposing
  <1>3. QED
    BY <1>1, <1>2, QueueUntouched

LEMMA PeersQueue ==
    ASSUME TypeInv, QueueInv, PeerStep
    PROVE  QueueInv'
  BY QueueUntouched DEF PeerStep, locals

(* A new ticket: no other client's, and no command's in the queue.         *)
LEMMA SubmitQueue ==
    ASSUME TypeInv, QueueInv, NEW c \in Clients, Submit(c)
    PROVE  QueueInv'
  <1> DEFINE new == [ticket |-> nextTicket, by |-> c]
  <1>1. /\ c \in Writers /\ pc[c] = "start" /\ pc' = [pc EXCEPT ![c] = "queue"]
        /\ ticket' = [ticket EXCEPT ![c] = nextTicket] /\ nextTicket' = nextTicket + 1
        /\ waiting' = Append(waiting, new)
        /\ UNCHANGED <<answers, busy, batch, landed, reply, placed>>
    BY DEF Submit, Goto, results
  <1>2. /\ pc \in [Clients -> Locations] /\ nextTicket \in Nat /\ waiting \in Seq(Item)
        /\ ticket \in [Clients -> Nat \cup {None}] /\ answers \in SUBSET Told
        /\ new \in Item
    BY <1>1, ClientsAssumption, FS_CardinalityType
    DEF TypeInv, TypeOK, Locations, Item, Told
  <1>3. /\ \A d \in Clients : d # c => pc'[d] = pc[d] /\ ticket'[d] = ticket[d]
        /\ pc'[c] = "queue" /\ ticket'[c] = nextTicket /\ placed[c] = {}
    BY <1>1, <1>2 DEF QueueInv, OutcomeInv
  <1>4. /\ DOMAIN waiting' = DOMAIN waiting \cup {Len(waiting) + 1}
        /\ waiting'[Len(waiting) + 1] = new
        /\ \A i \in DOMAIN waiting : waiting'[i] = waiting[i] /\ waiting[i] \in Item
                                     /\ i # Len(waiting) + 1
    BY <1>1, <1>2
  <1> HIDE DEF new
  <1>5. /\ \A i \in DOMAIN waiting : waiting[i].ticket < nextTicket /\ waiting[i].by # c
        /\ \A a \in answers : a.ticket < nextTicket
    <2>1. ASSUME NEW i \in DOMAIN waiting
          PROVE  waiting[i].ticket < nextTicket /\ waiting[i].by # c
      <3>1. Unproposed(waiting[i]) /\ waiting[i].by \in Clients
        BY <1>4 DEF QueueInv, WaitingInv, Item, Clients
      <3>2. QED
        BY <1>1, <3>1 DEF Unproposed, QueueInv, TicketInv, InQueue
    <2>2. ASSUME NEW a \in answers PROVE a.ticket < nextTicket
      <3>1. PICK d \in Writers : pc[d] \in InQueue /\ a.ticket = ticket[d]
        BY DEF QueueInv, AnswersInv, Answers
      <3>2. QED
        BY <3>1 DEF QueueInv, TicketInv, Clients
    <2>3. QED
      BY <2>1, <2>2
  <1>6. ProposerInv'
    BY <1>1, <1>3 DEF QueueInv, ProposerInv, Proposing
  <1>7. TicketInv'
    BY <1>1, <1>2, <1>3 DEF QueueInv, TicketInv, InQueue
  <1>8. ASSUME NEW w, w.by \in Clients, w.by # c, Unproposed(w)
        PROVE  /\ pc'[w.by] \in InQueue /\ w.ticket = ticket'[w.by] /\ placed'[w.by] = {}
    BY <1>1, <1>3, <1>8 DEF Unproposed
  <1>9. ASSUME NEW a, Answers(a)
        PROVE  \E d \in Writers : /\ pc'[d] \in InQueue /\ a.ticket = ticket'[d]
                                  /\ placed'[d] = IF a.answer = None THEN {} ELSE {a.answer}
    <2>1. PICK d \in Writers : /\ pc[d] \in InQueue /\ a.ticket = ticket[d]
                               /\ placed[d] = IF a.answer = None THEN {} ELSE {a.answer}
      BY <1>9 DEF Answers
    <2>2. d # c /\ d \in Clients
      BY <1>1, <2>1 DEF InQueue, Clients
    <2>3. QED
      BY <1>1, <1>3, <2>1, <2>2
  <1>10. WaitingInv'
    <2>1. ASSUME NEW i \in DOMAIN waiting' PROVE Unproposed(waiting[i])'
      <3>1. CASE i \in DOMAIN waiting
        <4>1. waiting'[i] = waiting[i] /\ waiting[i].by \in Clients /\ waiting[i].by # c
          BY <1>4, <1>5, <3>1 DEF Item, Clients
        <4>2. Unproposed(waiting[i])
          BY <3>1 DEF QueueInv, WaitingInv
        <4>3. QED
          BY <1>8, <4>1, <4>2 DEF Unproposed
      <3>2. CASE i = Len(waiting) + 1
        <4>1. waiting'[i].by = c /\ waiting'[i].ticket = nextTicket
          BY <1>4, <3>2 DEF new
        <4>2. QED
          BY <1>1, <1>3, <4>1 DEF Unproposed, InQueue
      <3>3. QED
        BY <1>4, <3>1, <3>2
    <2>2. ASSUME NEW i \in DOMAIN waiting', NEW j \in DOMAIN waiting',
                 waiting'[i].ticket = waiting'[j].ticket
          PROVE  i = j
      <3>1. \A k \in DOMAIN waiting : waiting'[k].ticket < nextTicket
        BY <1>4, <1>5
      <3>2. waiting'[Len(waiting) + 1].ticket = nextTicket
        BY <1>4 DEF new
      <3>3. CASE i \in DOMAIN waiting /\ j \in DOMAIN waiting
        BY <1>4, <2>2, <3>3 DEF QueueInv, WaitingInv
      <3>4. QED
        BY <1>2, <1>4, <2>2, <3>1, <3>2, <3>3
    <2>3. QED
      BY <2>1, <2>2 DEF WaitingInv
  <1>11. AnswersInv'
    <2>1. \A a \in answers : Answers(a)'
      BY <1>9 DEF QueueInv, AnswersInv, Answers
    <2>2. ASSUME NEW a \in answers, NEW i \in DOMAIN waiting'
          PROVE  a.ticket # waiting'[i].ticket
      <3>1. CASE i \in DOMAIN waiting
        BY <1>4, <3>1 DEF QueueInv, AnswersInv
      <3>2. CASE i = Len(waiting) + 1
        BY <1>2, <1>4, <1>5, <3>2 DEF new
      <3>3. QED
        BY <1>4, <3>1, <3>2
    <2>3. QED
      BY <1>1, <2>1, <2>2 DEF QueueInv, AnswersInv
  <1>12. BatchesInv'
    <2> SUFFICES ASSUME NEW p \in Clients, pc'[p] \in Proposing
                 PROVE  /\ pc'[p] = "propose" => \A i \in DOMAIN batch'[p] :
                                                    Unproposed(batch[p][i])'
                        /\ pc'[p] = "publish" => \A i \in DOMAIN batch'[p] :
                                                    Answers(batch[p][i])'
                        /\ \A i, j \in DOMAIN batch'[p] :
                              batch'[p][i].ticket = batch'[p][j].ticket => i = j
                        /\ \A i \in DOMAIN batch'[p], j \in DOMAIN waiting' :
                              batch'[p][i].ticket # waiting'[j].ticket
                        /\ \A i \in DOMAIN batch'[p], a \in answers' :
                              batch'[p][i].ticket # a.ticket
      BY Zenon DEF BatchesInv, Proposing
    <2>1. pc'[p] = pc[p] /\ batch'[p] = batch[p] /\ pc[p] \in Proposing
      BY <1>1, <1>3 DEF Proposing
    <2>2. ASSUME pc[p] = "propose", NEW i \in DOMAIN batch[p]
          PROVE  Unproposed(batch[p][i])' /\ batch[p][i].ticket < nextTicket
      <3>1. batch[p][i] \in Item
        BY <2>2 DEF TypeInv, BatchInv
      <3>2. batch[p][i].by \in Clients /\ Unproposed(batch[p][i])
        BY <2>2, <3>1 DEF QueueInv, BatchesInv, Item, Clients
      <3>3. batch[p][i].by # c /\ batch[p][i].ticket < nextTicket
        BY <1>1, <3>2 DEF Unproposed, InQueue, QueueInv, TicketInv
      <3>4. QED
        BY <1>8, <2>1, <3>2, <3>3 DEF Unproposed
    <2>3. ASSUME pc[p] = "publish", NEW i \in DOMAIN batch[p]
          PROVE  Answers(batch[p][i])' /\ batch[p][i].ticket < nextTicket
      <3>1. Answers(batch[p][i])
        BY <2>3 DEF QueueInv, BatchesInv
      <3>2. PICK d \in Writers : pc[d] \in InQueue /\ batch[p][i].ticket = ticket[d]
        BY <3>1 DEF Answers
      <3>3. batch[p][i].ticket < nextTicket
        BY <3>2 DEF QueueInv, TicketInv, Clients
      <3>4. QED
        BY <1>9, <2>1, <3>1, <3>3 DEF Answers
    <2>4. ASSUME NEW i \in DOMAIN batch[p], NEW j \in DOMAIN waiting'
          PROVE  batch[p][i].ticket # waiting'[j].ticket
      <3>1. CASE j \in DOMAIN waiting
        BY <1>4, <2>1, <3>1 DEF QueueInv, BatchesInv
      <3>2. CASE j = Len(waiting) + 1
        BY <1>2, <1>4, <2>1, <2>2, <2>3, <3>2 DEF new, Proposing
      <3>3. QED
        BY <1>4, <3>1, <3>2
    <2>5. QED
      BY <1>1, <2>1, <2>2, <2>3, <2>4 DEF QueueInv, BatchesInv
  <1>13. OutcomeInv' /\ AnswersReachTheirOwners'
    BY <1>1, <1>3 DEF QueueInv, OutcomeInv, AnswersReachTheirOwners, InQueue
  <1>14. QED
    BY <1>6, <1>7, <1>10, <1>11, <1>12, <1>13 DEF QueueInv

(* The answer under a writer's ticket is its own, and the last there is.   *)
LEMMA TakeAnswerQueue ==
    ASSUME TypeInv, QueueInv, NEW c \in Clients, TakeAnswer(c)
    PROVE  QueueInv'
  <1>1. PICK a \in MyAnswers(c) :
            /\ answers' = answers \ {a}
            /\ IF a.answer = None
               THEN Answer(c, "REFUSED") /\ UNCHANGED landed
               ELSE /\ landed' = [landed EXCEPT ![c] = a.answer]
                    /\ Goto(c, "look")
                    /\ UNCHANGED reply
    BY DEF TakeAnswer
  <1>2. /\ a \in answers /\ a.ticket = ticket[c] /\ pc[c] = "queue" /\ c \in Writers
        /\ UNCHANGED <<waiting, busy, nextTicket, ticket, batch, placed>>
    BY DEF MyAnswers, TakeAnswer, TypeInv, BatchInv, InQueue
  <1>3. /\ pc \in [Clients -> Locations] /\ landed \in [Clients -> Place \cup {None}]
        /\ reply \in [Clients -> Replies \cup {None}] /\ waiting \in Seq(Item)
        /\ answers \in SUBSET Told
    BY DEF TypeInv, TypeOK, Locations, Item, Told
  <1>4. PICK at \in {"look", "done"} : pc' = [pc EXCEPT ![c] = at]
    BY <1>1 DEF Answer, Goto
  <1>5. /\ \A d \in Clients : d # c => pc'[d] = pc[d]
        /\ pc'[c] \notin InQueue \cup {"start"} /\ pc'[c] \notin Proposing
    BY <1>3, <1>4 DEF InQueue, Proposing
  <1>6. placed[c] = IF a.answer = None THEN {} ELSE {a.answer}
    <2>1. PICK d \in Writers : /\ pc[d] \in InQueue /\ a.ticket = ticket[d]
                               /\ placed[d] = IF a.answer = None THEN {} ELSE {a.answer}
      BY <1>2 DEF QueueInv, AnswersInv, Answers
    <2>2. d = c
      BY <1>2, <2>1 DEF QueueInv, TicketInv, InQueue, Clients
    <2>3. QED
      BY <2>1, <2>2
  <1>7. ASSUME NEW w, w.by \in Clients, Unproposed(w), w.ticket # a.ticket
        PROVE  pc'[w.by] \in InQueue /\ w.ticket = ticket'[w.by] /\ placed'[w.by] = {}
    BY <1>2, <1>5, <1>7 DEF Unproposed
  <1>8. ASSUME NEW b, Answers(b), b.ticket # a.ticket
        PROVE  \E d \in Writers : /\ pc'[d] \in InQueue /\ b.ticket = ticket'[d]
                                  /\ placed'[d] = IF b.answer = None THEN {} ELSE {b.answer}
    <2>1. PICK d \in Writers : /\ pc[d] \in InQueue /\ b.ticket = ticket[d]
                               /\ placed[d] = IF b.answer = None THEN {} ELSE {b.answer}
      BY <1>8 DEF Answers
    <2>2. d # c /\ d \in Clients
      BY <1>2, <1>8, <2>1 DEF Clients
    <2>3. QED
      BY <1>2, <1>5, <2>1, <2>2
  <1>9. ProposerInv' /\ TicketInv'
    BY <1>2, <1>5 DEF QueueInv, ProposerInv, TicketInv, Proposing
  <1>10. WaitingInv'
    <2>1. ASSUME NEW i \in DOMAIN waiting PROVE Unproposed(waiting[i])'
      <3>1. waiting[i] \in Item
        BY <1>3
      <3>2. /\ waiting[i].by \in Clients /\ Unproposed(waiting[i])
            /\ waiting[i].ticket # a.ticket
        BY <1>2, <3>1 DEF QueueInv, WaitingInv, AnswersInv, Item, Clients
      <3>3. QED
        BY <1>2, <1>7, <3>2 DEF Unproposed
    <2>2. QED
      BY <1>2, <2>1 DEF QueueInv, WaitingInv
  <1>11. AnswersInv'
    <2>1. ASSUME NEW b \in answers \ {a} PROVE Answers(b)'
      <3>1. Answers(b) /\ b.ticket # a.ticket
        BY <1>2 DEF QueueInv, AnswersInv
      <3>2. QED
        BY <1>8, <3>1 DEF Answers
    <2>2. QED
      BY <1>1, <1>2, <2>1 DEF QueueInv, AnswersInv
  <1>12. BatchesInv'
    <2> SUFFICES ASSUME NEW p \in Clients, pc'[p] \in Proposing
                 PROVE  /\ pc'[p] = "propose" => \A i \in DOMAIN batch'[p] :
                                                    Unproposed(batch[p][i])'
                        /\ pc'[p] = "publish" => \A i \in DOMAIN batch'[p] :
                                                    Answers(batch[p][i])'
                        /\ \A i, j \in DOMAIN batch'[p] :
                              batch'[p][i].ticket = batch'[p][j].ticket => i = j
                        /\ \A i \in DOMAIN batch'[p], j \in DOMAIN waiting' :
                              batch'[p][i].ticket # waiting'[j].ticket
                        /\ \A i \in DOMAIN batch'[p], b \in answers' :
                              batch'[p][i].ticket # b.ticket
      BY Zenon DEF BatchesInv, Proposing
    <2>1. pc'[p] = pc[p] /\ batch'[p] = batch[p] /\ pc[p] \in Proposing
      BY <1>2, <1>5
    <2>2. \A i \in DOMAIN batch[p] : batch[p][i].ticket # a.ticket
      BY <1>2, <2>1 DEF QueueInv, BatchesInv
    <2>3. ASSUME pc[p] = "propose", NEW i \in DOMAIN batch[p]
          PROVE  Unproposed(batch[p][i])'
      <3>1. batch[p][i] \in Item
        BY <2>3 DEF TypeInv, BatchInv
      <3>2. batch[p][i].by \in Clients /\ Unproposed(batch[p][i])
        BY <2>3, <3>1 DEF QueueInv, BatchesInv, Item, Clients
      <3>3. QED
        BY <1>7, <2>1, <2>2, <3>2 DEF Unproposed
    <2>4. ASSUME pc[p] = "publish", NEW i \in DOMAIN batch[p]
          PROVE  Answers(batch[p][i])'
      <3>1. Answers(batch[p][i])
        BY <2>4 DEF QueueInv, BatchesInv
      <3>2. QED
        <4>1. batch[p][i].ticket # a.ticket
          BY <2>2
        <4>2. QED
          BY <1>8, <2>1, <3>1, <4>1 DEF Answers
    <2>5. QED
      BY <1>1, <1>2, <2>1, <2>3, <2>4 DEF QueueInv, BatchesInv
  <1>13. OutcomeInv' /\ AnswersReachTheirOwners'
    <2>1. landed[c] = None /\ reply[c] = None
      BY <1>2 DEF QueueInv, OutcomeInv, InQueue
    <2>2. /\ \A d \in Clients : d # c => landed'[d] = landed[d] /\ reply'[d] = reply[d]
          /\ landed'[c] # None => placed[c] = {landed'[c]}
          /\ reply'[c] = "REFUSED" => placed[c] = {}
      BY <1>1, <1>3, <1>6, <2>1, NoneAssumption DEF Answer, Goto, Replies
    <2>3. QED
      BY <1>2, <1>5, <2>2 DEF QueueInv, OutcomeInv, AnswersReachTheirOwners
  <1>14. QED
    BY <1>9, <1>10, <1>11, <1>12, <1>13 DEF QueueInv

(* The whole queue moves into one batch, and nobody else has one.          *)
LEMMA TakeQueueQueue ==
    ASSUME TypeInv, QueueInv, NEW c \in Clients, TakeQueue(c)
    PROVE  QueueInv'
  <1>1. /\ pc[c] = "queue" /\ ~busy /\ busy' = TRUE /\ pc' = [pc EXCEPT ![c] = "propose"]
        /\ batch' = [batch EXCEPT ![c] = waiting] /\ waiting' = <<>>
        /\ UNCHANGED <<answers, nextTicket, ticket, landed, reply, placed>>
    BY DEF TakeQueue, Goto, results
  <1>2. /\ pc \in [Clients -> Locations] /\ waiting \in Seq(Item)
        /\ batch \in [Clients -> Seq(Item) \cup Seq(Told)]
    BY DEF TypeInv, TypeOK, Locations, Item, Told
  <1>3. /\ \A d \in Clients : pc'[d] \in InQueue <=> pc[d] \in InQueue
        /\ \A d \in Clients : pc'[d] \in Proposing <=> d = c
        /\ \A d \in Clients : pc'[d] = "start" => pc[d] = "start"
        /\ pc'[c] = "propose" /\ batch'[c] = waiting
    BY <1>1, <1>2 DEF InQueue, Proposing, QueueInv, ProposerInv
  <1>4. ProposerInv' /\ TicketInv'
    BY <1>1, <1>3 DEF QueueInv, ProposerInv, TicketInv
  <1>5. WaitingInv'
    BY <1>1 DEF WaitingInv
  <1>6. AnswersInv'
    <2>1. ASSUME NEW a \in answers PROVE Answers(a)'
      <3>1. Answers(a)
        BY DEF QueueInv, AnswersInv
      <3>2. QED
        BY <1>1, <1>3, <3>1 DEF Answers, Clients
    <2>2. QED
      BY <1>1, <2>1 DEF QueueInv, AnswersInv
  <1>7. ASSUME NEW i \in DOMAIN waiting PROVE Unproposed(batch[c][i])'
    <2>1. waiting[i] \in Item
      BY <1>2
    <2>2. waiting[i].by \in Clients /\ Unproposed(waiting[i])
      BY <2>1 DEF QueueInv, WaitingInv, Item, Clients
    <2>3. QED
      BY <1>1, <1>3, <2>2 DEF Unproposed
  <1>8. BatchesInv'
    <2> SUFFICES ASSUME NEW p \in Clients, pc'[p] \in Proposing
                 PROVE  /\ pc'[p] = "propose" => \A i \in DOMAIN batch'[p] :
                                                    Unproposed(batch[p][i])'
                        /\ pc'[p] = "publish" => \A i \in DOMAIN batch'[p] :
                                                    Answers(batch[p][i])'
                        /\ \A i, j \in DOMAIN batch'[p] :
                              batch'[p][i].ticket = batch'[p][j].ticket => i = j
                        /\ \A i \in DOMAIN batch'[p], j \in DOMAIN waiting' :
                              batch'[p][i].ticket # waiting'[j].ticket
                        /\ \A i \in DOMAIN batch'[p], b \in answers' :
                              batch'[p][i].ticket # b.ticket
      BY Zenon DEF BatchesInv, Proposing
    <2>1. p = c
      BY <1>3
    <2>2. /\ \A i, j \in DOMAIN waiting : waiting[i].ticket = waiting[j].ticket => i = j
          /\ \A i \in DOMAIN waiting, a \in answers : waiting[i].ticket # a.ticket
      BY DEF QueueInv, WaitingInv, AnswersInv
    <2>3. QED
      BY <1>1, <1>3, <1>7, <2>1, <2>2
  <1>9. OutcomeInv' /\ AnswersReachTheirOwners'
    BY <1>1, <1>3 DEF QueueInv, OutcomeInv, AnswersReachTheirOwners
  <1>10. QED
    BY <1>4, <1>5, <1>6, <1>8, <1>9 DEF QueueInv

(* The batch's answers join the others; the sleepers are back in the queue.*)
LEMMA PublishQueue ==
    ASSUME TypeInv, QueueInv, NEW c \in Clients, Publish(c)
    PROVE  QueueInv'
  <1>1. /\ pc[c] = "publish" /\ busy' = FALSE /\ answers' = answers \cup ToSet(batch[c])
        /\ UNCHANGED <<waiting, nextTicket, ticket, landed, reply, placed>>
    BY DEF Publish, results
  <1>2. /\ pc \in [Clients -> Locations] /\ waiting \in Seq(Item) /\ batch[c] \in Seq(Told)
    BY <1>1 DEF TypeInv, TypeOK, BatchInv, Locations, Item, Told
  <1>3. pc' = [d \in Clients |-> IF d = c \/ pc[d] = "asleep" THEN "queue" ELSE pc[d]]
    BY <1>2 DEF Publish, Woken
  <1>4. /\ \A d \in Clients : pc'[d] \in InQueue <=> pc[d] \in InQueue
        /\ \A d \in Clients : pc'[d] \notin Proposing
        /\ \A d \in Clients : pc'[d] = "start" => pc[d] = "start"
    BY <1>1, <1>2, <1>3 DEF InQueue, Proposing, QueueInv, ProposerInv
  <1>5. ProposerInv' /\ TicketInv' /\ BatchesInv'
    BY <1>1, <1>4 DEF QueueInv, ProposerInv, TicketInv, BatchesInv, Proposing
  <1>6. WaitingInv'
    <2>1. ASSUME NEW i \in DOMAIN waiting PROVE Unproposed(waiting[i])'
      <3>1. waiting[i] \in Item
        BY <1>2
      <3>2. waiting[i].by \in Clients /\ Unproposed(waiting[i])
        BY <3>1 DEF QueueInv, WaitingInv, Item, Clients
      <3>3. QED
        BY <1>1, <1>4, <3>2 DEF Unproposed
    <2>2. QED
      BY <1>1, <2>1 DEF QueueInv, WaitingInv
  <1>7. AnswersInv'
    <2> DEFINE new == ToSet(batch[c])
    <2>1. \A a \in new : \E i \in DOMAIN batch[c] : a = batch[c][i]
      BY DEF ToSet
    <2>2. ASSUME NEW a \in answers \cup new PROVE Answers(a)'
      <3>1. Answers(a)
        BY <1>1, <2>1 DEF QueueInv, AnswersInv, BatchesInv
      <3>2. QED
        BY <1>1, <1>4, <3>1 DEF Answers, Clients
    <2>3. /\ \A i, j \in DOMAIN batch[c] : batch[c][i].ticket = batch[c][j].ticket => i = j
          /\ \A i \in DOMAIN batch[c], j \in DOMAIN waiting : batch[c][i].ticket # waiting[j].ticket
          /\ \A i \in DOMAIN batch[c], a \in answers : batch[c][i].ticket # a.ticket
      BY <1>1 DEF QueueInv, BatchesInv, Proposing
    <2> HIDE DEF new
    <2>4. \A a, b \in answers \cup new : a.ticket = b.ticket => a = b
      BY <2>1, <2>3 DEF QueueInv, AnswersInv
    <2>5. \A a \in answers \cup new, i \in DOMAIN waiting : a.ticket # waiting[i].ticket
      BY <2>1, <2>3 DEF QueueInv, AnswersInv
    <2>6. QED
      BY <1>1, <2>2, <2>4, <2>5 DEF AnswersInv, new
  <1>8. OutcomeInv' /\ AnswersReachTheirOwners'
    BY <1>1, <1>4 DEF QueueInv, OutcomeInv, AnswersReachTheirOwners
  <1>9. QED
    BY <1>5, <1>6, <1>7, <1>8 DEF QueueInv

LEMMA ProposeMembershipQueue ==
    ASSUME TypeInv, QueueInv, NEW c \in Clients, ProposeMembership(c)
    PROVE  QueueInv'
  <1>1. /\ pc[c] = "start" /\ c \in Changers /\ c \notin Writers
        /\ UNCHANGED <<waiting, answers, busy, nextTicket, ticket, batch>>
    BY ClientsAssumption DEF ProposeMembership, queue
  <1>2. /\ pc \in [Clients -> Locations] /\ landed \in [Clients -> Place \cup {None}]
        /\ reply \in [Clients -> Replies \cup {None}] /\ placed \in [Clients -> SUBSET Place]
        /\ waiting \in Seq(Item)
    BY DEF TypeInv, TypeOK, Locations, Item
  <1>3. PICK at \in {"look", "done"} : pc' = [pc EXCEPT ![c] = at]
    BY DEF ProposeMembership, Answer, Goto
  <1>4. /\ \A d \in Clients : d # c => /\ landed'[d] = landed[d] /\ reply'[d] = reply[d]
                                       /\ placed'[d] = placed[d]
        /\ landed'[c] # None => placed'[c] = {landed'[c]}
        /\ reply'[c] = "REFUSED" => placed'[c] = {}
    <2>1. landed[c] = None /\ reply[c] = None /\ placed[c] = {}
      BY <1>1 DEF QueueInv, OutcomeInv
    <2>2. CASE leading /\ commit >= leaderStart /\ MembershipIndex(log) <= commit
      <3>1. /\ landed' = [landed EXCEPT ![c] = [index |-> Len(log'), term |-> term]]
            /\ placed' = [placed EXCEPT ![c] = {landed'[c]}]
            /\ reply' = reply
        BY <2>2 DEF ProposeMembership
      <3>2. QED
        BY <1>2, <2>1, <3>1, NoneAssumption DEF Replies
    <2>3. CASE ~(leading /\ commit >= leaderStart /\ MembershipIndex(log) <= commit)
      <3>1. UNCHANGED <<landed, placed>> /\ reply' = [reply EXCEPT ![c] = "REFUSED"]
        BY <2>3 DEF ProposeMembership, Answer
      <3>2. QED
        BY <1>2, <2>1, <3>1
    <2>4. QED
      BY <2>2, <2>3
  <1>5. /\ \A d \in Clients : d # c => pc'[d] = pc[d]
        /\ pc'[c] \notin InQueue \cup {"start"} /\ pc'[c] \notin Proposing
        /\ pc[c] \notin InQueue /\ pc[c] \notin Proposing
    BY <1>1, <1>2, <1>3 DEF InQueue, Proposing
  <1>6. ProposerInv' /\ TicketInv'
    BY <1>1, <1>5 DEF QueueInv, ProposerInv, TicketInv
  <1>7. ASSUME NEW w, w.by \in Clients, Unproposed(w)
        PROVE  pc'[w.by] \in InQueue /\ w.ticket = ticket'[w.by] /\ placed'[w.by] = {}
    BY <1>1, <1>4, <1>5, <1>7 DEF Unproposed
  <1>8. ASSUME NEW b, Answers(b)
        PROVE  \E d \in Writers : /\ pc'[d] \in InQueue /\ b.ticket = ticket'[d]
                                  /\ placed'[d] = IF b.answer = None THEN {} ELSE {b.answer}
    <2>1. PICK d \in Writers : /\ pc[d] \in InQueue /\ b.ticket = ticket[d]
                               /\ placed[d] = IF b.answer = None THEN {} ELSE {b.answer}
      BY <1>8 DEF Answers
    <2>2. d # c /\ d \in Clients
      BY <1>1 DEF Clients
    <2>3. QED
      BY <1>1, <1>4, <1>5, <2>1, <2>2
  <1>9. WaitingInv'
    <2>1. ASSUME NEW i \in DOMAIN waiting PROVE Unproposed(waiting[i])'
      <3>1. waiting[i] \in Item
        BY <1>2
      <3>2. waiting[i].by \in Clients /\ Unproposed(waiting[i])
        BY <3>1 DEF QueueInv, WaitingInv, Item, Clients
      <3>3. QED
        BY <1>1, <1>7, <3>2 DEF Unproposed
    <2>2. QED
      BY <1>1, <2>1 DEF QueueInv, WaitingInv
  <1>10. AnswersInv'
    BY <1>1, <1>8 DEF QueueInv, AnswersInv, Answers
  <1>11. BatchesInv'
    <2> SUFFICES ASSUME NEW p \in Clients, pc'[p] \in Proposing
                 PROVE  /\ pc'[p] = "propose" => \A i \in DOMAIN batch'[p] :
                                                    Unproposed(batch[p][i])'
                        /\ pc'[p] = "publish" => \A i \in DOMAIN batch'[p] :
                                                    Answers(batch[p][i])'
                        /\ \A i, j \in DOMAIN batch'[p] :
                              batch'[p][i].ticket = batch'[p][j].ticket => i = j
                        /\ \A i \in DOMAIN batch'[p], j \in DOMAIN waiting' :
                              batch'[p][i].ticket # waiting'[j].ticket
                        /\ \A i \in DOMAIN batch'[p], b \in answers' :
                              batch'[p][i].ticket # b.ticket
      BY Zenon DEF BatchesInv, Proposing
    <2>1. pc'[p] = pc[p] /\ batch'[p] = batch[p] /\ pc[p] \in Proposing
      BY <1>1, <1>5
    <2>2. ASSUME pc[p] = "propose", NEW i \in DOMAIN batch[p]
          PROVE  Unproposed(batch[p][i])'
      <3>1. batch[p][i] \in Item
        BY <2>2 DEF TypeInv, BatchInv
      <3>2. batch[p][i].by \in Clients /\ Unproposed(batch[p][i])
        BY <2>2, <3>1 DEF QueueInv, BatchesInv, Item, Clients
      <3>3. QED
        BY <1>7, <2>1, <3>2 DEF Unproposed
    <2>3. ASSUME pc[p] = "publish", NEW i \in DOMAIN batch[p]
          PROVE  Answers(batch[p][i])'
      <3>1. Answers(batch[p][i])
        BY <2>3 DEF QueueInv, BatchesInv
      <3>2. QED
        BY <1>8, <2>1, <3>1 DEF Answers
    <2>4. QED
      BY <1>1, <2>1, <2>2, <2>3 DEF QueueInv, BatchesInv
  <1>12. OutcomeInv' /\ AnswersReachTheirOwners'
    BY <1>4, <1>5 DEF QueueInv, OutcomeInv, AnswersReachTheirOwners
  <1>13. QED
    BY <1>6, <1>9, <1>10, <1>11, <1>12 DEF QueueInv

(* A batch puts one entry into the log for each command it takes, at the   *)
(* index it answers with, and none for the others.                         *)
LEMMA ProposedPlaces ==
    ASSUME TypeInv, QueueInv, NEW c \in Clients, Propose(c)
    PROVE  LET b == batch[c] IN
           /\ \A d \in Clients : (\A i \in DOMAIN b : b[i].by # d) => placed'[d] = placed[d]
           /\ \A i \in DOMAIN b :
                 placed'[b[i].by] = IF Verdict(b, i) = None THEN {} ELSE {Verdict(b, i)}
  <1> DEFINE b == batch[c]
             A == Accepted(b)
             P == Wanted(b)
             n == Cardinality(P)
             f == InOrder(P)
             X(d) == {x \in (Len(log) + 1)..Len(log') : log'[x].by = d}
  <1>1. /\ b \in Seq(Item) /\ pc[c] = "propose" /\ log \in Seq(Entries) /\ term \in 1..MaxTerm
        /\ placed \in [Clients -> SUBSET Place]
    BY DEF TypeInv, TypeOK, BatchInv, Propose, Entries
  <1>2. ASSUME NEW i \in DOMAIN b
        PROVE  b[i] \in Item /\ b[i].by \in Clients /\ placed[b[i].by] = {}
    <2>1. b[i] \in Item
      BY <1>1
    <2>2. Unproposed(b[i])
      BY <1>1 DEF QueueInv, BatchesInv
    <2>3. QED
      BY <2>1, <2>2 DEF Unproposed, Item, Clients
  <1>3. ASSUME NEW i \in DOMAIN b, NEW j \in DOMAIN b, b[i].by = b[j].by
        PROVE  i = j
    <2>1. Unproposed(b[i]) /\ Unproposed(b[j])
      BY <1>1 DEF QueueInv, BatchesInv
    <2>2. b[i].ticket = b[j].ticket
      BY <1>3, <2>1 DEF Unproposed
    <2>3. QED
      BY <1>1, <2>2 DEF QueueInv, BatchesInv, Proposing
  <1>4. CASE ~leading
    <2>1. placed' = placed
      BY <1>4 DEF Propose
    <2>2. \A i \in DOMAIN b : Verdict(b, i) = None
      BY <1>4 DEF Verdict
    <2>3. QED
      BY <1>2, <2>1, <2>2
  <1>5. CASE leading
    <2>1. /\ n \in Nat /\ f \in [1..n -> P] /\ Len(A) = n
          /\ IsFiniteSet(P) /\ P \in SUBSET Nat
          /\ \A k \in 1..n : A[k] = b[f[k]]
          /\ \A x \in P : \E k \in 1..n : f[k] = x
      BY <1>1, AcceptedFacts, InOrderFacts
    <2>2. /\ log' \in Seq(Entries) /\ Len(log') = Len(log) + n
          /\ \A k \in 1..n : log'[Len(log) + k] = Entry(term, A[k].by, {})
          /\ placed' = [d \in Clients |-> placed[d] \cup
                           {[index |-> x, term |-> term] : x \in X(d)}]
      <3>1. /\ log' \in Seq(Entries) /\ Len(log') = Len(log) + Len(A)
            /\ \A k \in 1..Len(A) : log'[Len(log) + k] = Entry(term, A[k].by, {})
            /\ placed' = [d \in Clients |-> placed[d] \cup
                           {[index |-> x, term |-> term] : x \in X(d)}]
        BY <1>5, PlaceFacts
      <3>2. QED
        BY <2>1, <3>1
    <2>3. P \subseteq DOMAIN b /\ \A i \in DOMAIN b : i \in P <=> b[i].by \notin Large
      BY DEF Wanted
    <2>4. Len(log) \in Nat
      BY <1>1
    <2>5. \A i \in DOMAIN b : Index(b, i) = Len(log) + Cardinality({j \in P : j <= i})
      <3> SUFFICES ASSUME NEW i \in DOMAIN b
                   PROVE  {j \in 1..i : b[j].by \notin Large} = {j \in P : j <= i}
        BY DEF Index
      <3>1. DOMAIN b = 1..Len(b) /\ Len(b) \in Nat
        BY <1>1
      <3>2. QED
        BY <3>1 DEF Wanted
    <2>6. \A k \in 1..n : Cardinality({j \in P : j <= f[k]}) = k
      BY <2>1, InOrderCounts
    <2> HIDE DEF b, A, P, n, f
    <2>7. ASSUME NEW k \in 1..n
          PROVE  f[k] \in DOMAIN b /\ f[k] \in P /\ log'[Len(log) + k].by = b[f[k]].by
      <3>1. f[k] \in P
        BY <2>1
      <3>2. log'[Len(log) + k] = Entry(term, b[f[k]].by, {})
        BY <2>1, <2>2
      <3>3. QED
        BY <2>3, <3>1, <3>2 DEF Entry
    <2>8. ASSUME NEW d \in Clients, NEW x \in X(d)
          PROVE  \E k \in 1..n : x = Len(log) + k /\ b[f[k]].by = d
      <3>1. x - Len(log) \in 1..n /\ x = Len(log) + (x - Len(log))
        BY <2>1, <2>2, <2>4
      <3>2. b[f[x - Len(log)]].by = d
        <4>1. log'[x].by = d
          OBVIOUS
        <4>2. QED
          BY <2>7, <3>1, <4>1
      <3>3. QED
        BY <3>1, <3>2
    <2>9. ASSUME NEW k \in 1..n PROVE Len(log) + k \in X(b[f[k]].by)
      BY <2>1, <2>2, <2>4, <2>7
    <2>10. \A d \in Clients : placed'[d] = placed[d] \cup {[index |-> x, term |-> term] : x \in X(d)}
      BY <2>2
    <2> HIDE DEF X
    <2>11. ASSUME NEW d \in Clients, \A i \in DOMAIN b : b[i].by # d
           PROVE  placed'[d] = placed[d]
      <3>1. X(d) = {}
        BY <2>7, <2>8, <2>11
      <3>2. QED
        BY <2>10, <3>1
    <2>12. ASSUME NEW i \in DOMAIN b
           PROVE  placed'[b[i].by] = IF Verdict(b, i) = None THEN {} ELSE {Verdict(b, i)}
      <3>1. b[i].by \in Clients /\ placed[b[i].by] = {}
        BY <1>2 DEF b
      <3>2. \A k \in 1..n : b[f[k]].by = b[i].by => f[k] = i
        BY <1>3, <2>7 DEF b
      <3>3. CASE i \in P
        <4>1. PICK k \in 1..n : f[k] = i
          BY <2>1, <3>3
        <4>2. X(b[i].by) = {Len(log) + k}
          <5>1. Len(log) + k \in X(b[i].by)
            BY <2>9, <4>1
          <5>2. ASSUME NEW x \in X(b[i].by) PROVE x = Len(log) + k
            <6>1. PICK l \in 1..n : x = Len(log) + l /\ b[f[l]].by = b[i].by
              BY <2>8, <3>1
            <6>2. f[l] = f[k]
              BY <3>2, <4>1, <6>1
            <6>3. l = k
              BY <2>6, <6>2
            <6>4. QED
              BY <6>1, <6>3
          <5>3. QED
            BY <5>1, <5>2
        <4>3. Verdict(b, i) = [index |-> Len(log) + k, term |-> term]
          BY <1>5, <2>3, <2>5, <2>6, <3>3, <4>1 DEF Verdict
        <4>4. Verdict(b, i) # None
          <5>1. Verdict(b, i) \in Place
            BY <1>1, <2>1, <2>4, <4>3 DEF Place
          <5>2. QED
            BY <5>1, NoneAssumption
        <4>5. placed'[b[i].by] = {[index |-> x, term |-> term] : x \in {Len(log) + k}}
          BY <2>10, <3>1, <4>2
        <4>6. placed'[b[i].by] = {Verdict(b, i)}
          BY <4>3, <4>5
        <4>7. QED
          BY <4>4, <4>6
      <3>4. CASE i \notin P
        <4>1. X(b[i].by) = {}
          BY <2>7, <2>8, <3>1, <3>2, <3>4
        <4>2. Verdict(b, i) = None
          BY <2>3, <3>4 DEF Verdict
        <4>3. QED
          BY <2>10, <3>1, <4>1, <4>2
      <3>5. QED
        BY <3>3, <3>4
    <2>13. QED
      BY <2>11, <2>12 DEF b
  <1>6. QED
    BY <1>4, <1>5

LEMMA ProposeQueue ==
    ASSUME TypeInv, QueueInv, NEW c \in Clients, Propose(c)
    PROVE  QueueInv'
  <1> DEFINE b == batch[c]
  <1>1. /\ pc[c] = "propose" /\ pc' = [pc EXCEPT ![c] = "publish"]
        /\ batch' = [batch EXCEPT ![c] = [i \in DOMAIN b |->
                         [ticket |-> b[i].ticket, answer |-> Verdict(b, i)]]]
        /\ UNCHANGED <<waiting, answers, busy, nextTicket, ticket, landed, reply>>
    BY DEF Propose, Goto, queue
  <1>2. /\ pc \in [Clients -> Locations] /\ waiting \in Seq(Item) /\ b \in Seq(Item)
        /\ batch \in [Clients -> Seq(Item) \cup Seq(Told)]
    BY <1>1 DEF TypeInv, TypeOK, BatchInv, Locations, Item, Told
  <1>3. /\ DOMAIN batch'[c] = DOMAIN b
        /\ \A i \in DOMAIN b : /\ batch'[c][i].ticket = b[i].ticket
                               /\ batch'[c][i].answer = Verdict(b, i)
    BY <1>1, <1>2
  <1>4. /\ \A d \in Clients : (\A i \in DOMAIN b : b[i].by # d) => placed'[d] = placed[d]
        /\ \A i \in DOMAIN b :
              placed'[b[i].by] = IF Verdict(b, i) = None THEN {} ELSE {Verdict(b, i)}
    BY ProposedPlaces
  <1>5. /\ \A d \in Clients : pc'[d] \in InQueue <=> pc[d] \in InQueue
        /\ \A d \in Clients : pc'[d] \in Proposing <=> pc[d] \in Proposing
        /\ \A d \in Clients : pc'[d] \in Proposing <=> d = c
        /\ \A d \in Clients : pc'[d] = "start" => pc[d] = "start"
        /\ pc'[c] = "publish"
    BY <1>1, <1>2 DEF InQueue, Proposing, QueueInv, ProposerInv
  <1>6. ASSUME NEW i \in DOMAIN b
        PROVE  /\ b[i] \in Item /\ b[i].by \in Writers /\ b[i].by \in Clients
               /\ pc[b[i].by] \in InQueue /\ ticket[b[i].by] = b[i].ticket
    <2>1. b[i] \in Item
      BY <1>2
    <2>2. Unproposed(b[i])
      BY <1>1 DEF QueueInv, BatchesInv
    <2>3. QED
      BY <2>1, <2>2 DEF Unproposed, Item, Clients
  <1> HIDE DEF b
  <1>7. ASSUME NEW d \in Clients, placed'[d] # placed[d]
        PROVE  \E i \in DOMAIN b : ticket[d] = b[i].ticket /\ pc[d] \in InQueue
    <2>1. PICK i \in DOMAIN b : b[i].by = d
      BY <1>4, <1>7
    <2>2. QED
      BY <1>6, <2>1
  <1>8. /\ \A i \in DOMAIN b, j \in DOMAIN waiting : b[i].ticket # waiting[j].ticket
        /\ \A i \in DOMAIN b, a \in answers : b[i].ticket # a.ticket
        /\ \A i, j \in DOMAIN b : b[i].ticket = b[j].ticket => i = j
    BY <1>1 DEF QueueInv, BatchesInv, Proposing, b
  <1>9. ProposerInv' /\ TicketInv'
    BY <1>1, <1>5 DEF QueueInv, ProposerInv, TicketInv
  <1>10. WaitingInv'
    <2>1. ASSUME NEW j \in DOMAIN waiting PROVE Unproposed(waiting[j])'
      <3>1. waiting[j] \in Item
        BY <1>2
      <3>2. waiting[j].by \in Clients /\ Unproposed(waiting[j])
        BY <3>1 DEF QueueInv, WaitingInv, Item, Clients
      <3>3. placed'[waiting[j].by] = placed[waiting[j].by]
        BY <1>7, <1>8, <3>2 DEF Unproposed
      <3>4. QED
        BY <1>1, <1>5, <3>2, <3>3 DEF Unproposed
    <2>2. QED
      BY <1>1, <2>1 DEF QueueInv, WaitingInv
  <1>11. AnswersInv'
    <2>1. ASSUME NEW a \in answers PROVE Answers(a)'
      <3>1. PICK d \in Writers : /\ pc[d] \in InQueue /\ a.ticket = ticket[d]
                                 /\ placed[d] = IF a.answer = None THEN {} ELSE {a.answer}
        BY DEF QueueInv, AnswersInv, Answers
      <3>2. d \in Clients
        BY DEF Clients
      <3>3. placed'[d] = placed[d]
        BY <1>7, <1>8, <3>1, <3>2
      <3>4. QED
        BY <1>1, <1>5, <3>1, <3>2, <3>3 DEF Answers
    <2>2. QED
      BY <1>1, <2>1 DEF QueueInv, AnswersInv
  <1>12. BatchesInv'
    <2> SUFFICES ASSUME NEW p \in Clients, pc'[p] \in Proposing
                 PROVE  /\ pc'[p] = "propose" => \A i \in DOMAIN batch'[p] :
                                                    Unproposed(batch[p][i])'
                        /\ pc'[p] = "publish" => \A i \in DOMAIN batch'[p] :
                                                    Answers(batch[p][i])'
                        /\ \A i, j \in DOMAIN batch'[p] :
                              batch'[p][i].ticket = batch'[p][j].ticket => i = j
                        /\ \A i \in DOMAIN batch'[p], j \in DOMAIN waiting' :
                              batch'[p][i].ticket # waiting'[j].ticket
                        /\ \A i \in DOMAIN batch'[p], a \in answers' :
                              batch'[p][i].ticket # a.ticket
      BY Zenon DEF BatchesInv, Proposing
    <2>1. p = c
      BY <1>5
    <2>2. ASSUME NEW i \in DOMAIN b PROVE Answers(batch[c][i])'
      <3>1. /\ placed'[b[i].by] = IF Verdict(b, i) = None THEN {} ELSE {Verdict(b, i)}
            /\ batch'[c][i].ticket = b[i].ticket /\ batch'[c][i].answer = Verdict(b, i)
        BY <1>3, <1>4
      <3>2. pc'[b[i].by] \in InQueue /\ b[i].by \in Writers /\ ticket'[b[i].by] = b[i].ticket
        BY <1>1, <1>5, <1>6
      <3>3. QED
        BY <3>1, <3>2 DEF Answers
    <2>3. QED
      BY <1>1, <1>3, <1>5, <1>8, <2>1, <2>2
  <1>13. OutcomeInv' /\ AnswersReachTheirOwners'
    <2>1. ASSUME NEW d \in Clients
          PROVE  /\ pc'[d] \in InQueue \cup {"start"} => landed'[d] = None /\ reply'[d] = None
                 /\ pc'[d] = "start" => placed'[d] = {}
                 /\ landed'[d] # None => placed'[d] = {landed'[d]}
                 /\ reply'[d] = "REFUSED" => placed'[d] = {}
      <3>1. placed'[d] = placed[d] \/ pc[d] \in InQueue
        BY <1>7
      <3>2. pc[d] \in InQueue => landed[d] = None /\ reply[d] = None
        BY DEF QueueInv, OutcomeInv
      <3>3. None # "REFUSED"
        BY NoneAssumption DEF Replies
      <3>4. QED
        BY <1>1, <1>5, <3>1, <3>2, <3>3
        DEF QueueInv, OutcomeInv, AnswersReachTheirOwners, InQueue
    <2>2. QED
      BY <2>1 DEF OutcomeInv, AnswersReachTheirOwners
  <1>14. QED
    BY <1>9, <1>10, <1>11, <1>12, <1>13 DEF QueueInv

LEMMA NextQueue ==
    ASSUME TypeInv, QueueInv, [Next]_vars
    PROVE  TypeInv' /\ QueueInv'
  <1>0. TypeInv'
    BY NextTypes
  <1>1. CASE UNCHANGED vars
    BY <1>0, <1>1, QueueUntouched DEF vars, locals, results
  <1>2. ASSUME NEW c \in Clients, Thread(c) \/ Timeout(c) PROVE QueueInv'
    BY <1>2, SubmitQueue, TakeAnswerQueue, TakeQueueQueue, ProposeQueue, PublishQueue,
       ProposeMembershipQueue, ThreadQueueUntouched DEF Thread
  <1>3. CASE Peers
    <2>1. PeerStep
      BY <1>3 DEF Peers, Advance, Follows, StepDown, Elected, ReadAnswered
    <2>2. QED
      BY <1>0, <2>1, PeersQueue
  <1>4. CASE Changed
    BY <1>0, <1>4, ChangedQueue
  <1>5. QED
    BY <1>0, <1>1, <1>2, <1>3, <1>4 DEF Next, Done

(***************************************************************************)
(* However many clients write at once, however they are batched, whatever  *)
(* of a batch is refused as too large and whoever leads by then: a client  *)
(* is told the place of its own command, which went into the log there and *)
(* nowhere else, and one that is refused has none there.                   *)
(***************************************************************************)
THEOREM AnswersAlwaysReachTheirOwners == Spec => []AnswersReachTheirOwners
  <1>1. Init => TypeInv /\ QueueInv
    BY InitTypes, InitQueue
  <1>2. TypeInv /\ QueueInv /\ [Next]_vars => (TypeInv /\ QueueInv)'
    BY NextQueue
  <1>3. QueueInv => AnswersReachTheirOwners
    BY DEF QueueInv
  <1>4. QED
    BY <1>1, <1>2, <1>3, PTL DEF Spec

(***************************************************************************)
(* One thread proposes at a time, and busy is set exactly while it does.   *)
(***************************************************************************)
THEOREM OneProposerAtATime == Spec => []OneProposer
  <1>1. Init => TypeInv /\ QueueInv
    BY InitTypes, InitQueue
  <1>2. TypeInv /\ QueueInv /\ [Next]_vars => (TypeInv /\ QueueInv)'
    BY NextQueue
  <1>3. TypeInv /\ QueueInv => OneProposer
    <2> SUFFICES ASSUME TypeInv, QueueInv PROVE OneProposer
      OBVIOUS
    <2> DEFINE P == {c \in Clients : pc[c] \in Proposing}
    <2>1. CASE busy
      <3>1. PICK c \in Clients : pc[c] \in Proposing
        BY <2>1 DEF QueueInv, ProposerInv
      <3>2. P = {c}
        BY <3>1 DEF QueueInv, ProposerInv
      <3>3. Cardinality(P) = 1
        BY <3>2, FS_Singleton
      <3>4. QED
        BY <2>1, <3>3 DEF OneProposer, Proposing
    <2>2. CASE ~busy
      <3>1. P = {}
        BY <2>2 DEF QueueInv, ProposerInv
      <3>2. Cardinality(P) = 0
        BY <3>1, FS_EmptySet
      <3>3. QED
        BY <2>2, <3>2 DEF OneProposer, Proposing
    <2>3. QED
      BY <2>1, <2>2
  <1>4. QED
    BY <1>1, <1>2, <1>3, PTL DEF Spec

-----------------------------------------------------------------------------
(***************************************************************************)
(* Reads.  The index a read waits for is at least what the cluster had     *)
(* committed when it began, and it is answered once.                       *)
(***************************************************************************)
ReadInv ==
    \A c \in Readers :
        /\ read[c] \notin {None, Failed} => read[c] >= floor[c]
        /\ pc[c] = "start" => read[c] = None /\ reply[c] = None
        /\ reply[c] = "VALUE" => readAt[c] >= floor[c]

LEMMA NextReads ==
    ASSUME TypeInv, ReadInv, [Next]_vars
    PROVE  ReadInv'
  <1> SUFFICES ASSUME NEW c \in Readers
               PROVE  /\ read'[c] \notin {None, Failed} => read'[c] >= floor'[c]
                      /\ pc'[c] = "start" => read'[c] = None /\ reply'[c] = None
                      /\ reply'[c] = "VALUE" => readAt'[c] >= floor'[c]
    BY DEF ReadInv
  <1>1. /\ c \in Clients /\ None # "VALUE"
        /\ pc \in [Clients -> Locations] /\ read \in [Readers -> Nat \cup {None, Failed}]
        /\ reply \in [Clients -> Replies \cup {None}]
        /\ floor \in [Readers -> Nat] /\ readAt \in [Readers -> Nat] /\ agreed \in Nat
        /\ commit \in Nat
    BY NoneAssumption DEF TypeInv, TypeOK, Locations, Clients, Replies
  <1>2. /\ read[c] \notin {None, Failed} => read[c] >= floor[c]
        /\ pc[c] = "start" => read[c] = None /\ reply[c] = None
        /\ reply[c] = "VALUE" => readAt[c] >= floor[c]
    BY DEF ReadInv
  <1>3. CASE UNCHANGED <<read, floor, readAt>> /\ (pc'[c] = "start" => pc[c] = "start")
             /\ reply'[c] \in {reply[c]} \cup (Replies \ {"VALUE"})
             /\ (pc'[c] = "start" => reply'[c] = reply[c])
    BY <1>1, <1>2, <1>3
  <1>4. ASSUME NEW d \in Clients, Thread(d) \/ Timeout(d)
        PROVE  /\ read'[c] \notin {None, Failed} => read'[c] >= floor'[c]
               /\ pc'[c] = "start" => read'[c] = None /\ reply'[c] = None
               /\ reply'[c] = "VALUE" => readAt'[c] >= floor'[c]
    <2>1. CASE AskRead(d)
      <3>1. /\ floor' = [floor EXCEPT ![d] = agreed] /\ pc' = [pc EXCEPT ![d] = "look"]
            /\ UNCHANGED <<read, reply, readAt>> /\ pc[d] = "start"
        BY <2>1 DEF AskRead, Goto
      <3>2. CASE d = c
        BY <1>1, <1>2, <3>1, <3>2
      <3>3. CASE d # c
        BY <1>1, <1>2, <3>1, <3>3
      <3>4. QED
        BY <3>2, <3>3
    <2>2. CASE Check(d) /\ d = c /\ Verdicts(c) # None
      <3>1. /\ reply' = [reply EXCEPT ![c] = Verdicts(c)] /\ pc' = [pc EXCEPT ![c] = "done"]
            /\ readAt' = [readAt EXCEPT ![c] = commit] /\ UNCHANGED <<read, floor>>
        BY <2>2 DEF Check, Answer, Goto
      <3>2. Verdicts(c) = "VALUE" => read[c] \notin {None, Failed} /\ commit >= read[c]
        BY <1>1, <2>2, ClientsAssumption DEF Verdicts, ReadVerdict
      <3>3. readAt'[c] = commit /\ reply'[c] = Verdicts(c) /\ pc'[c] = "done"
        BY <1>1, <3>1
      <3>4. Verdicts(c) = "VALUE" => commit >= floor[c]
        <4> SUFFICES ASSUME Verdicts(c) = "VALUE" PROVE commit >= floor[c]
          OBVIOUS
        <4>1. read[c] \in Nat /\ commit >= read[c] /\ read[c] >= floor[c] /\ floor[c] \in Nat
          BY <1>1, <1>2, <3>2
        <4>2. QED
          BY <1>1, <4>1
      <3>5. QED
        BY <1>2, <3>1, <3>3, <3>4
    <2>3. CASE Check(d) /\ d = c /\ Verdicts(c) = None
      BY <1>1, <1>3, <2>3 DEF Check, Goto
    <2>4. CASE Check(d) /\ d # c
      <3>1. reply'[c] = reply[c] /\ pc'[c] = pc[c] /\ readAt'[c] = readAt[c] /\ UNCHANGED <<read, floor>>
        BY <1>1, <2>4 DEF Check, Answer, Goto
      <3>2. QED
        BY <1>2, <3>1
    <2>5. CASE ProposeMembership(d) \/ TakeAnswer(d) \/ Timeout(d)
      <3>1. UNCHANGED <<read, floor, readAt>>
        BY <2>5 DEF ProposeMembership, TakeAnswer, Timeout
      <3>2. \/ pc' = [pc EXCEPT ![d] = "done"] /\ reply' = [reply EXCEPT ![d] = "REFUSED"]
            \/ pc' = [pc EXCEPT ![d] = "done"] /\ reply' = [reply EXCEPT ![d] = "TIMEOUT"]
            \/ pc' = [pc EXCEPT ![d] = "look"] /\ reply' = reply
        BY <2>5 DEF ProposeMembership, TakeAnswer, Timeout, Answer, Goto
      <3>3. QED
        BY <1>1, <1>2, <3>1, <3>2
    <2>6. CASE Publish(d)
      <3>1. /\ UNCHANGED <<read, floor, readAt, reply>>
            /\ pc' = Woken([pc EXCEPT ![d] = "queue"])
        BY <2>6 DEF Publish, results
      <3>2. pc'[c] = "start" => pc[c] = "start"
        BY <1>1, <3>1 DEF Woken
      <3>3. QED
        BY <1>2, <3>1, <3>2
    <2>7. CASE Submit(d) \/ TakeQueue(d) \/ Sleep(d) \/ Propose(d) \/ Look(d) \/ Compare(d)
      <3>1. /\ UNCHANGED <<read, floor, readAt, reply>>
            /\ \E at \in Locations \ {"start"} : pc' = [pc EXCEPT ![d] = at]
        BY <2>7
        DEF Submit, TakeQueue, Sleep, Propose, Look, Compare, Goto, results, Locations
      <3>2. pc'[c] = "start" => pc[c] = "start"
        BY <1>1, <3>1
      <3>3. QED
        BY <1>2, <3>1, <3>2
    <2>8. QED
      BY <1>4, <2>1, <2>2, <2>3, <2>4, <2>5, <2>6, <2>7 DEF Thread
  <1>5. ASSUME NEW d \in Readers, NEW s, s = Failed \/ s \in floor[d]..agreed,
               ReadAnswered(d, s)
        PROVE  /\ read'[c] \notin {None, Failed} => read'[c] >= floor'[c]
               /\ pc'[c] = "start" => read'[c] = None /\ reply'[c] = None
               /\ reply'[c] = "VALUE" => readAt'[c] >= floor'[c]
    <2>1. /\ read' = [read EXCEPT ![d] = s] /\ pc[d] # "start"
          /\ UNCHANGED <<pc, reply, floor, readAt>>
      BY <1>5 DEF ReadAnswered, PeerStep
    <2>2. s = Failed \/ s >= floor[d]
      BY <1>1, <1>5
    <2>3. QED
      BY <1>1, <1>2, <2>1, <2>2
  <1>6. CASE \/ \E n \in 1..MaxLog : Advance(n)
             \/ \E keep \in commit..Len(log), n \in commit..MaxLog,
                   ms \in {{}} \cup {m \in SUBSET Nodes : Me \in m} : Follows(keep, ms, n)
             \/ StepDown \/ Elected \/ Changed \/ UNCHANGED vars
    <2>1. UNCHANGED <<read, floor, readAt, reply>>
      BY <1>6 DEF Advance, Follows, StepDown, Elected, PeerStep, Changed, results, vars
    <2>2. pc'[c] = "start" => pc[c] = "start"
      BY <1>1, <1>6 DEF Advance, Follows, StepDown, Elected, PeerStep, Changed, vars
    <2>3. QED
      BY <1>2, <2>1, <2>2
  <1>7. QED
    BY <1>4, <1>5, <1>6 DEF Next, Peers, Done

(***************************************************************************)
(* A read that is answered with a value is answered from a store that has  *)
(* applied everything committed anywhere in the cluster before it began.   *)
(***************************************************************************)
THEOREM ReadsAlwaysSeeWhatWasCommitted == Spec => []ReadsSeeWhatWasCommitted
  <1>1. Init => TypeInv /\ ReadInv
    BY InitTypes, NoneAssumption DEF Init, ReadInv, Replies, Clients
  <1>2. TypeInv /\ ReadInv /\ [Next]_vars => (TypeInv /\ ReadInv)'
    BY NextTypes, NextReads
  <1>3. ReadInv => ReadsSeeWhatWasCommitted
    BY DEF ReadInv, ReadsSeeWhatWasCommitted
  <1>4. QED
    BY <1>1, <1>2, <1>3, PTL DEF Spec
=============================================================================
