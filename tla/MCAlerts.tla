------------------------------ MODULE MCAlerts ------------------------------
(* A pool's fullness, its state and its scans and the settings backup; the timer's evaluation *)
(* and one that a ZFS event asked for; two clean scans push a failed one out of the window.    *)
EXTENDS Alerts
=============================================================================
