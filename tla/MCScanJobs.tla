----------------------------- MODULE MCScanJobs -----------------------------
(* One pool, a verb in flight beside the tick.                             *)
EXTENDS ScanJobs
=============================================================================
