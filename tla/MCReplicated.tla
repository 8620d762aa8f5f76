--------------------------- MODULE MCReplicated ---------------------------
(* Small instances of Replicated for TLC.                                  *)
EXTENDS Replicated, TLC

(* Logs whose first write is a put of the first key, and in which only the *)
(* first entry may be a no-op.                                             *)
MCHistories ==
    {h \in [1..MaxLog -> Commands] :
        /\ \A i \in 2..MaxLog : h[i] # Noop
        /\ LET first == IF h[1] = Noop THEN h[2] ELSE h[1]
           IN  first.key = 1 /\ first.val # Absent}
=============================================================================
