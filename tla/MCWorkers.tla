------------------------------ MODULE MCWorkers ------------------------------
(***************************************************************************)
(* Workers with two users, one with a live and a paper account and one     *)
(* with a paper account, and one audit row, written again once it is gone. *)
(***************************************************************************)
EXTENDS Workers, TLC

CONSTANTS u1, u2, live, p1, p2

MCOwner == (live :> u1) @@ (p1 :> u1) @@ (p2 :> u2)
MCBalance == (live :> 1) @@ (p1 :> 2) @@ (p2 :> 3)
=============================================================================
