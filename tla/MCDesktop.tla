------------------------------ MODULE MCDesktop ------------------------------
(* Two request ids, of which one asks for a failure, two lanes, and three connections of
   which the last replaces a silent one. *)
EXTENDS DesktopState
==============================================================================
