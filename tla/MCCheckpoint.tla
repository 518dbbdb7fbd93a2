---------------------------- MODULE MCCheckpoint ----------------------------
(***************************************************************************)
(* Checkpoint on small instances: two sessions, one or two invocations in  *)
(* flight.                                                                 *)
(***************************************************************************)
EXTENDS Checkpoint, TLC

\* invocations are interchangeable, and so are sessions
Symmetry == Permutations(Proc) \cup Permutations(Session)

=============================================================================
