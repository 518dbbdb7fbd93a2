---------------------------- MODULE MCSupersession ----------------------------
(***************************************************************************)
(* Instances of Supersession for TLC.                                      *)
(***************************************************************************)
EXTENDS Supersession

=============================================================================
