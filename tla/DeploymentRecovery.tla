------------------------- MODULE DeploymentRecovery -------------------------
(***************************************************************************)
(* Deployment in a world that calms down: at some unknown moment calls     *)
(* stop failing, the process stops dying, nobody edits the folder and the  *)
(* game is not started again.  What an interrupted deployment becomes then *)
(* is a liveness question.                                                 *)
(***************************************************************************)
EXTENDS Deployment

VARIABLE settled   \* (auxiliary) the world has calmed down

Settle == ~settled /\ settled' = TRUE /\ UNCHANGED vars

SettlingNext ==
    \/ (Step \/ Request \/ GameStops) /\ UNCHANGED settled
    \/ ~settled /\ (Crash \/ Close \/ Fault \/ GameStarts \/ OutsideEdit) /\ UNCHANGED settled
    \/ Settle

SettlingInit == Init /\ settled = FALSE

SettlingSpec == SettlingInit /\ [][SettlingNext]_<<vars, settled>>

\* The worker runs the operation it started; the player closes the game in the
\* end; and recovery is attempted while the game is closed (at the next start, at
\* the next observed exit, or when the player asks for a setup or a launch).
RecoverySpec ==
    SettlingSpec /\ WF_vars(Step) /\ WF_vars(GameStops) /\ WF_vars(Recover)

-----------------------------------------------------------------------------
\* docs/verification/bootstrap.md "It can repeat after another interruption": an
\* interrupted deployment or rollback of a folder nobody else edits is always
\* brought to an end, however often it was interrupted before.
InterruptionRecovers == settled /\ pending ~> ~pending

\* No operation lasts for ever and no journal stays open for ever (deployment.rs:556-594).
DeploymentsEnd == EveryOperationReturns /\ InterruptionRecovers
=============================================================================
