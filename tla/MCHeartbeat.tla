----------------------------- MODULE MCHeartbeat -----------------------------
(* A few updates and one crash a day.                                        *)
EXTENDS Heartbeat
=============================================================================
