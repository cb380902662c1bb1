------------------------------ MODULE MCDispatch ------------------------------
(* Small instances of Dispatch for TLC. *)
EXTENDS Dispatch, TLC
=============================================================================
