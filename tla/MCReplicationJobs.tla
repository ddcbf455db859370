------------------------- MODULE MCReplicationJobs -------------------------
(* The timer's runner and one that replication.run spawned, two            *)
(* replications.                                                           *)
EXTENDS ReplicationJobs
=============================================================================
