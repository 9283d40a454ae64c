------------------------------ MODULE MCCluster -----------------------------
(***************************************************************************)
(* An instance of Cluster for TLC.                                         *)
(***************************************************************************)
EXTENDS Cluster

\* One that costs the score of a node a class, and one that lifts it.
MCMilliseconds == {100, -300}

=============================================================================
