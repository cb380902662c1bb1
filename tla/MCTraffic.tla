------------------------------- MODULE MCTraffic -------------------------------
(* Small instances of Traffic for TLC. *)
EXTENDS Traffic, TLC
=============================================================================
