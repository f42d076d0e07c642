---------------------------- MODULE MCRedemption ----------------------------
(***************************************************************************)
(* Instances of Redemption for TLC.                                        *)
(***************************************************************************)
EXTENDS Redemption, TLC

Symmetry == Permutations(Assignments) \cup Permutations(Requests)
=============================================================================
