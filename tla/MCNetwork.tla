----------------------------- MODULE MCNetwork -----------------------------
(* The address change on small instances: one operation at a time, and the  *)
(* agent against the tick.                                                  *)
EXTENDS Network
=============================================================================
