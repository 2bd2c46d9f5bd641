----------------------------- MODULE MCCafePoller -----------------------------
(* An instance of CafePoller for TLC. *)
EXTENDS CafePoller, TLC

CONSTANTS photo, notice

MCBoards == <<photo, notice>>
MCLastPost == photo :> 2 @@ notice :> 4
===============================================================================
