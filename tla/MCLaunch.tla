------------------------------ MODULE MCLaunch ------------------------------
(* Two saved setups, two starts of the game, and one process id for both. *)
EXTENDS LaunchSession
=============================================================================
