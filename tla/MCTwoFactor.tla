---------------------------- MODULE MCTwoFactor ----------------------------
(***************************************************************************)
(* TwoFactor with two secrets, so that a user can enrol anew, and requests *)
(* that overlap.                                                           *)
(***************************************************************************)
EXTENDS TwoFactor, TLC

Symmetry == Permutations(Req) \cup Permutations(Secret)
=============================================================================
