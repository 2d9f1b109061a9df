------------------------------ MODULE MCGameLift ------------------------------
(* A small instance of GameLiftMatch. *)
EXTENDS GameLiftMatch
=============================================================================
