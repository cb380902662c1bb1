------------------------------ MODULE MCService ------------------------------
(* A small instance of Service for TLC, of those PanicsNeedADrop and           *)
(* IdleControllerInSync are about.                                             *)
EXTENDS Service, MCController

ASSUME ServedInstance ==
  OnlyRequestsFail /\ SteadyUsers /\ AlikeWhenDeleted /\ RelaysHaveTransit
=============================================================================
