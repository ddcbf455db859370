--------------------------- MODULE MCReplication ---------------------------
(* One replication, with as many failures in a row as `keep' can bear, and  *)
(* one more.                                                                *)
EXTENDS Replication
=============================================================================
