----------------------------- MODULE MCHeartbeat -----------------------------
(* Small instances of Heartbeat.                                           *)
EXTENDS Heartbeat

CONSTANTS p1, p2
=============================================================================
