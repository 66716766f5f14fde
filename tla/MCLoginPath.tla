---------------------------- MODULE MCLoginPath ----------------------------
(***************************************************************************)
(* LoginPath with two clients behind up to two proxies, two requests in a  *)
(* window of one tick, and two wrong guesses that lock an account out for  *)
(* two ticks.  One entry of the list of trusted proxies does not parse.    *)
(***************************************************************************)
EXTENDS LoginPath

CONSTANT Px

Trusted == {Px, Garbage}
=============================================================================
