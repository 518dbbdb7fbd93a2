---------------------------- MODULE MCRatification ----------------------------
(***************************************************************************)
(* Instances of Ratification for TLC.                                      *)
(***************************************************************************)
EXTENDS Ratification, TLC

Symmetry == Permutations(Proc) \cup Permutations(Fact)

=============================================================================
