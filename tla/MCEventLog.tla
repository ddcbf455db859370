----------------------------- MODULE MCEventLog -----------------------------
EXTENDS EventLog

MCAbout == { [class |-> "fault", disk |-> "a"], [class |-> "fault", disk |-> "b"],
             [class |-> "scan_finish", disk |-> "none"], [class |-> "routine", disk |-> "none"] }
=============================================================================
