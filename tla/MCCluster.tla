----------------------------- MODULE MCCluster -----------------------------
(* Small instances of Cluster for TLC.                                     *)
EXTENDS Cluster, TLC

CONSTANTS w1, w2, w3, a1, r1

Cast(cs, n) == [clients |-> cs, steps |-> n]

(* The whole queue, with every order of three writers; then fewer clients  *)
(* at a time and more steps of the ticker and the peers among theirs.      *)
MCCasts ==
    {Cast({w1, w2, w3}, 0), Cast({w1, w2}, 1), Cast({w1, w3}, 1), Cast({w1, a1}, 1),
     Cast({w1, r1}, 1), Cast({w1}, 2), Cast({a1}, 2), Cast({r1}, 3)}

OneWriter == {Cast({w1}, 1)}
=============================================================================
