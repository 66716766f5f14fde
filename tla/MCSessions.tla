----------------------------- MODULE MCSessions -----------------------------
(***************************************************************************)
(* Sessions with two tokens (those of two logins, or of a login and of the *)
(* refresh that exchanged it) and two requests that overlap.               *)
(***************************************************************************)
EXTENDS Sessions, TLC

Symmetry == Permutations(Token) \cup Permutations(Req)
=============================================================================
