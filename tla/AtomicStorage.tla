--------------------------- MODULE AtomicStorage ---------------------------
(***************************************************************************)
(* What src/raft/log.rs asks of a Storage: the promise a Raft node relies  *)
(* on, with no files in it.                                                *)
(*                                                                         *)
(* One call runs at a time.  A call that returns has taken effect for      *)
(* good.  A crash during a call leaves the call undone or done, or, for an *)
(* append, done for the first few of its entries; a crash at any other     *)
(* moment changes nothing.                                                 *)
(*                                                                         *)
(* The log is the set of entries it holds.  An entry is its index and its  *)
(* term: Raft never gives two commands the same pair.                      *)
(***************************************************************************)
EXTENDS Naturals

CONSTANTS
    HardStates,   \* what a node may save of its term and vote
    DefaultHard,  \* HardState::default(), before anything is saved
    Terms,        \* terms of entries and snapshots
    MaxIndex,     \* bound: the highest index used
    NoCall        \* no call is running

Entry == [index : 1..MaxIndex, term : Terms]

(* SnapshotMeta; the default stands for no snapshot.                       *)
NoSnapshot == [index |-> 0, term |-> 0]
Meta == Entry \cup {NoSnapshot}

Call ==   [kind : {"save"},     hard : HardStates]
     \cup [kind : {"append"},   entries : SUBSET Entry]
     \cup [kind : {"truncate"}, index : 1..MaxIndex]
     \cup [kind : {"install"},  meta : Entry]

VARIABLES
    stored,   \* [hard, base, log]: what the node has been promised
    running   \* the call in progress, or NoCall

Init ==
    /\ stored = [hard |-> DefaultHard, base |-> NoSnapshot, log |-> {}]
    /\ running = NoCall

(* The effect of one call.                                                 *)
Effect(c, s) ==
    CASE c.kind = "save"     -> [s EXCEPT !.hard = c.hard]
      [] c.kind = "append"   -> [s EXCEPT !.log = @ \cup c.entries]
      [] c.kind = "truncate" -> [s EXCEPT !.log = {e \in @ : e.index < c.index}]
      [] c.kind = "install"  ->
            [s EXCEPT !.base = c.meta,
                      !.log  = IF c.meta \in @
                               THEN {e \in @ : e.index > c.meta.index}
                               ELSE {}]

(* What a crash during the call may leave of an append: some first entries.*)
Beginnings(es) == {p \in SUBSET es : \A a \in p, b \in es \ p : a.index < b.index}

Outcomes(c, s) ==
    {s, Effect(c, s)} \cup
        (IF c.kind = "append"
         THEN {[s EXCEPT !.log = @ \cup p] : p \in Beginnings(c.entries)}
         ELSE {})

Begin == /\ running = NoCall
         /\ running' \in Call
         /\ UNCHANGED stored

Return == /\ running # NoCall
          /\ stored' = Effect(running, stored)
          /\ running' = NoCall

Crash == /\ running # NoCall
         /\ stored' \in Outcomes(running, stored)
         /\ running' = NoCall

Next == Begin \/ Return \/ Crash

Spec == Init /\ [][Next]_<<stored, running>>
=============================================================================
