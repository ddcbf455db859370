---------------------------- MODULE MCSnapshots -----------------------------
(* Two periods of one dataset.                                             *)
EXTENDS Snapshots

TwoPeriods == <<"hourly", "daily">>

ThreePolicies ==
    {[hourly |-> 0, daily |-> 0], [hourly |-> 2, daily |-> 0], [hourly |-> 1, daily |-> 1]}
=============================================================================
