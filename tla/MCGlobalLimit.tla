------------------------------ MODULE MCGlobalLimit ------------------------------
(* A small instance of GlobalLimit for TLC. *)
EXTENDS GlobalLimit, TLC
=============================================================================
