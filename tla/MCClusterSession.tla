-------------------------- MODULE MCClusterSession --------------------------
(* Small clusters for TLC; the constants are given in the .cfg files. *)
EXTENDS ClusterSession, TLC

CONSTANTS n1, n2, s1

=============================================================================
