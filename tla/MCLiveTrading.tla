--------------------------- MODULE MCLiveTrading ----------------------------
(***************************************************************************)
(* Small instances of LiveTrading.  Requests are interchangeable.          *)
(***************************************************************************)
EXTENDS LiveTrading, TLC

Symmetry == Permutations(Req)
=============================================================================
