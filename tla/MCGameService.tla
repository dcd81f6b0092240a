--------------------------- MODULE MCGameService ---------------------------
(***************************************************************************)
(* Small instances of GameService.                                         *)
(***************************************************************************)
EXTENDS GameService

MCActions == FileActions \cup {"Select", "ChooseFolder"}
SetupOnly == {"Setup"}
StoppedOrRunning == {"Stopped", "Running"}
AnyObservation == {"Stopped", "Running", "Unknown"}
=============================================================================
