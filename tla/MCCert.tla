--------------------------------- MODULE MCCert ---------------------------------
(* Small instances of Cert for TLC. *)
EXTENDS Cert, TLC
=============================================================================
