---------------------------- MODULE LaunchProofs ----------------------------
(***************************************************************************)
(* Theorems about LaunchSession, for every number of edits, starts of the  *)
(* game and process ids.                                                   *)
(***************************************************************************)
EXTENDS LaunchSession, TLAPS

\* The folder holds what is called prepared.
Held == prepared = recorded /\ ~pending

\* An observation found the game's process, found none, or failed.
ObservedForms ==
  observed = Nothing \/ (observed.process = None <=> observed.running = "Stopped")

\* What the last turn saw is still what is observed, until the next turn observes.
LastTurn == pc \in Work \cup {"idle"} => recovery \in {None, observed}

\* A launch is reached over a finished switch to its own setup.
Reached ==
  /\ pc \in Work => phase = "Preparing"
  /\ pc = "dispatch" => recorded = Target /\ ~pending

\* A game that was seen was not seen to have ended.
SeenRunning ==
  seen => IF pc = "auto" THEN observed.running # "Stopped"
          ELSE recovery = None \/ recovery.running # "Stopped"

\* Readiness that was read in this turn is true.
ReadNow == pc = "session" /\ Changed /\ observed # Nothing => prepared = None \/ Held

\* "Ready" is true at every place of a turn that follows a look at the game.
ReadyHeld ==
  phase = "Ready" =>
    /\ pc \in {"idle", "session", "auto"} /\ observed # Nothing => Held
    /\ pc \in {"recover", "readiness"} /\ recovery # None /\ recovery # Nothing => Held

\* The report is that of the start it names, and a confirmation is that report.
ReportsKept ==
  report # None => activated[report.process.start] = report
ConfirmedHeld ==
  phase = "RuntimeReady" /\ pc \in {"auto", "idle"} /\ observed.process # None =>
    /\ prepared # None
    /\ activated[observed.process.start] =
         [process |-> observed.process, setup |-> prepared, ok |-> TRUE]

IInv == /\ TypeOK /\ ObservedForms /\ LastTurn /\ Reached /\ SeenRunning /\ ReadNow /\ ReadyHeld
        /\ ReportsKept /\ ConfirmedHeld

(***************************************************************************)
(* Types.                                                                  *)
(***************************************************************************)
\* What the assumption says of the values that occur.
LEMMA Values ==
  /\ None \notin Setups /\ None \notin Processes /\ None \notin Reports /\ None \notin Observations
  /\ None \notin Requests /\ None # "auto"
  /\ Nothing \in Observations /\ Nothing # None
  /\ 0 \in Setups /\ MaxRuns \in Nat /\ MaxEdits \in Nat /\ MaxUnknown \in Nat
  /\ LaunchTimeout \in Nat /\ LaunchTimeout > 0
  BY LaunchAssumption DEF Setups, Observations, Nothing

SavedTypes == revision \in Setups /\ recorded \in Setups \cup {None} /\ pending \in BOOLEAN
GameTypes ==
  /\ process \in Processes \cup {None} /\ runs \in 0..MaxRuns
  /\ activated \in [1..MaxRuns -> Reports \cup {None}]
  /\ report \in Reports \cup {None} /\ accepted \in BOOLEAN /\ unknowns \in 0..MaxUnknown
PlaceTypes ==
  /\ pc \in Turn \cup Work /\ job \in Requests \cup {"auto", None}
  /\ pc \in Work <=> job # None
SessionTypes ==
  /\ seen \in BOOLEAN /\ requested \in 0..LaunchTimeout \cup {None}
  /\ prepared \in Setups \cup {None} /\ phase \in Phases
TurnTypes ==
  /\ observed \in Observations /\ recovery \in Observations \cup {None}
  /\ attempt \in Setups \cup {None}
Types == SavedTypes /\ GameTypes /\ PlaceTypes /\ SessionTypes /\ TurnTypes

\* Every step keeps the types.
LEMMA TypeStep ==
  ASSUME TypeOK, [Next]_vars
  PROVE  TypeOK'
<1> USE Values DEF saved, game, world, session, turn, Types
<1>0. Types
  BY DEF TypeOK, SavedTypes, GameTypes, PlaceTypes, SessionTypes, TurnTypes
<1>1. ASSUME Observe PROVE Types'
  <2>1. GameTypes'
    BY <1>0, <1>1 DEF GameTypes, At, Observe
  <2>2. PlaceTypes'
    BY <1>0, <1>1 DEF PlaceTypes, Turn, Work, Requests, At, Observe
  <2>3. TurnTypes'
    BY <1>0, <1>1 DEF TurnTypes, At, Observe, GameTypes, Observations
  <2>4. SavedTypes' /\ SessionTypes'
    BY <1>0, <1>1 DEF SavedTypes, SessionTypes, Observe
  <2> QED
    BY <2>1, <2>2, <2>3, <2>4
<1>2. ASSUME Recover PROVE Types'
  <2>1. SavedTypes'
    BY <1>0, <1>2 DEF SavedTypes, Recover, At
  <2>2. PlaceTypes'
    BY <1>0, <1>2 DEF PlaceTypes, Turn, Work, Requests, Recover, At
  <2>3. GameTypes' /\ SessionTypes' /\ TurnTypes'
    BY <1>0, <1>2 DEF GameTypes, SessionTypes, TurnTypes, Recover
  <2> QED
    BY <2>1, <2>2, <2>3
<1>3. ASSUME Readiness PROVE Types'
  <2>1. PlaceTypes'
    BY <1>0, <1>3 DEF PlaceTypes, Turn, Work, Requests, At, Readiness
  <2>2. SessionTypes'
    BY <1>0, <1>3 DEF SessionTypes, Phases, At, Readiness, SavedTypes
  <2>3. SavedTypes' /\ GameTypes' /\ TurnTypes'
    BY <1>0, <1>3 DEF SavedTypes, GameTypes, TurnTypes, Readiness
  <2> QED
    BY <2>1, <2>2, <2>3
<1>4. ASSUME ObserveSession PROVE Types'
  <2>1. PlaceTypes'
    BY <1>0, <1>4 DEF PlaceTypes, Turn, Work, Requests, At, ObserveSession, RuntimeView
  <2>2. SessionTypes'
    BY <1>0, <1>4 DEF SessionTypes, Phases, At, ObserveSession, RuntimeView
  <2>3. SavedTypes' /\ GameTypes' /\ TurnTypes'
    BY <1>0, <1>4 DEF SavedTypes, GameTypes, TurnTypes, ObserveSession
  <2> QED
    BY <2>1, <2>2, <2>3
<1>5. ASSUME AutoPrepare PROVE Types'
  <2>1. PlaceTypes'
    BY <1>0, <1>5 DEF PlaceTypes, Turn, Work, Requests, At, AutoPrepare
  <2>2. SessionTypes'
    BY <1>0, <1>5 DEF SessionTypes, Phases, At, AutoPrepare
  <2>3. TurnTypes'
    BY <1>0, <1>5 DEF TurnTypes, At, AutoPrepare, SavedTypes
  <2>4. SavedTypes' /\ GameTypes'
    BY <1>0, <1>5 DEF SavedTypes, GameTypes, AutoPrepare
  <2> QED
    BY <2>1, <2>2, <2>3, <2>4
<1>6. ASSUME PreparationFails PROVE Types'
  <2>1. SavedTypes'
    BY <1>0, <1>6 DEF SavedTypes, PreparationFails, Fails
  <2>2. PlaceTypes'
    BY <1>0, <1>6 DEF PlaceTypes, Turn, Work, Requests, PreparationFails, Fails
  <2>3. SessionTypes'
    BY <1>0, <1>6 DEF SessionTypes, Phases, PreparationFails, Fails
  <2>4. GameTypes' /\ TurnTypes'
    BY <1>0, <1>6 DEF GameTypes, TurnTypes, PreparationFails, Fails
  <2> QED
    BY <2>1, <2>2, <2>3, <2>4
<1>7. ASSUME Repair PROVE Types'
  <2>1. SavedTypes'
    BY <1>0, <1>7 DEF SavedTypes, Repair, Succeeds, At
  <2>2. PlaceTypes'
    BY <1>0, <1>7 DEF PlaceTypes, Turn, Work, Requests, Repair, Succeeds, At
  <2>3. GameTypes' /\ SessionTypes' /\ TurnTypes'
    BY <1>0, <1>7 DEF GameTypes, SessionTypes, TurnTypes, Repair
  <2> QED
    BY <2>1, <2>2, <2>3
<1>8. ASSUME SwitchBegins PROVE Types'
  <2>1. SavedTypes'
    BY <1>0, <1>8 DEF SavedTypes, SwitchBegins, Succeeds, At
  <2>2. PlaceTypes'
    BY <1>0, <1>8 DEF PlaceTypes, Turn, Work, Requests, SwitchBegins, Succeeds, At
  <2>3. GameTypes' /\ SessionTypes' /\ TurnTypes'
    BY <1>0, <1>8 DEF GameTypes, SessionTypes, TurnTypes, SwitchBegins
  <2> QED
    BY <2>1, <2>2, <2>3
<1>9. ASSUME SwitchEnds PROVE Types'
  <2>1. SavedTypes'
    BY <1>0, <1>9 DEF SavedTypes, SwitchEnds, Target
  <2>2. PlaceTypes'
    BY <1>0, <1>9 DEF PlaceTypes, Turn, Work, Requests, SwitchEnds, Succeeds, At
  <2>3. GameTypes' /\ SessionTypes' /\ TurnTypes'
    BY <1>0, <1>9 DEF GameTypes, SessionTypes, TurnTypes, SwitchEnds
  <2> QED
    BY <2>1, <2>2, <2>3
<1>10. ASSUME Prepared PROVE Types'
  <2>1. GameTypes'
    BY <1>0, <1>10 DEF GameTypes, Prepared, At, Target
  <2>2. PlaceTypes'
    BY <1>0, <1>10 DEF PlaceTypes, Turn, Work, Requests, Prepared, At, Target
  <2>3. SessionTypes'
    BY <1>0, <1>10 DEF SessionTypes, Phases, Prepared, At, Target, SavedTypes
  <2>4. SavedTypes' /\ TurnTypes'
    BY <1>0, <1>10 DEF SavedTypes, TurnTypes, Prepared
  <2> QED
    BY <2>1, <2>2, <2>3, <2>4
<1>11. ASSUME NEW a \in Requests, Handle(a) PROVE Types'
  <2>1. PlaceTypes'
    BY <1>0, <1>11 DEF PlaceTypes, Turn, Work, Requests, Handle
  <2>2. SessionTypes'
    BY <1>0, <1>11 DEF SessionTypes, Phases, Handle
  <2>3. TurnTypes'
    BY <1>0, <1>11 DEF TurnTypes, Handle
  <2>4. SavedTypes' /\ GameTypes'
    BY <1>0, <1>11 DEF SavedTypes, GameTypes, Handle
  <2> QED
    BY <2>1, <2>2, <2>3, <2>4
<1>12. ASSUME Select PROVE Types'
  <2>1. SessionTypes'
    BY <1>0, <1>12 DEF SessionTypes, Phases, Select
  <2>2. TurnTypes'
    BY <1>0, <1>12 DEF TurnTypes, Select
  <2>3. SavedTypes' /\ GameTypes' /\ PlaceTypes'
    BY <1>0, <1>12 DEF SavedTypes, GameTypes, PlaceTypes, Select
  <2> QED
    BY <2>1, <2>2, <2>3
<1>13. ASSUME Discover PROVE Types'
  <2>1. TurnTypes'
    BY <1>0, <1>13 DEF TurnTypes, Discover
  <2>2. SavedTypes' /\ GameTypes' /\ PlaceTypes' /\ SessionTypes'
    BY <1>0, <1>13 DEF SavedTypes, GameTypes, PlaceTypes, SessionTypes, Discover
  <2> QED
    BY <2>1, <2>2
<1>14. ASSUME Edit PROVE Types'
  <2>1. SavedTypes'
    BY <1>0, <1>14 DEF SavedTypes, Setups, Edit
  <2>2. GameTypes' /\ PlaceTypes' /\ SessionTypes' /\ TurnTypes'
    BY <1>0, <1>14 DEF GameTypes, PlaceTypes, SessionTypes, TurnTypes, Edit
  <2> QED
    BY <2>1, <2>2
<1>15. ASSUME GameStarts PROVE Types'
  <2>1. GameTypes'
    <3>1. PICK p \in Pids : process' = [pid |-> p, start |-> runs + 1]
      BY <1>15 DEF GameStarts
    <3>2. runs \in 0..MaxRuns /\ runs < MaxRuns
      BY <1>0, <1>15 DEF GameTypes, GameStarts
    <3>3. runs' \in 0..MaxRuns /\ runs + 1 \in 1..MaxRuns
      BY <1>15, <3>2 DEF GameStarts
    <3>4. process' \in Processes
      BY <3>1, <3>3 DEF Processes
    <3>5. accepted' \in BOOLEAN
      BY <1>0, <1>15 DEF GameTypes, GameStarts
    <3> QED
      BY <1>0, <1>15, <3>3, <3>4, <3>5 DEF GameTypes, GameStarts
  <2>2. SavedTypes' /\ PlaceTypes' /\ SessionTypes' /\ TurnTypes'
    BY <1>0, <1>15 DEF SavedTypes, PlaceTypes, SessionTypes, TurnTypes, GameStarts
  <2> QED
    BY <2>1, <2>2
<1>16. ASSUME GameActivates PROVE Types'
  <2>1. GameTypes'
    BY <1>0, <1>16 DEF GameTypes, GameActivates, SavedTypes, Reports, Processes
  <2>2. SavedTypes' /\ PlaceTypes' /\ SessionTypes' /\ TurnTypes'
    BY <1>0, <1>16 DEF SavedTypes, PlaceTypes, SessionTypes, TurnTypes, GameActivates
  <2> QED
    BY <2>1, <2>2
<1>17. ASSUME GameExits PROVE Types'
  <2>1. GameTypes'
    BY <1>0, <1>17 DEF GameTypes, GameExits
  <2>2. SavedTypes' /\ PlaceTypes' /\ SessionTypes' /\ TurnTypes'
    BY <1>0, <1>17 DEF SavedTypes, PlaceTypes, SessionTypes, TurnTypes, GameExits
  <2> QED
    BY <2>1, <2>2
<1>18. ASSUME LaunchIsLost PROVE Types'
  <2>1. GameTypes'
    BY <1>0, <1>18 DEF GameTypes, LaunchIsLost
  <2>2. SavedTypes' /\ PlaceTypes' /\ SessionTypes' /\ TurnTypes'
    BY <1>0, <1>18 DEF SavedTypes, PlaceTypes, SessionTypes, TurnTypes, LaunchIsLost
  <2> QED
    BY <2>1, <2>2
<1>19. ASSUME Elapse PROVE Types'
  <2>1. SessionTypes'
    BY <1>0, <1>19 DEF SessionTypes, Elapse
  <2>2. SavedTypes' /\ GameTypes' /\ PlaceTypes' /\ TurnTypes'
    BY <1>0, <1>19 DEF SavedTypes, GameTypes, PlaceTypes, TurnTypes, Elapse
  <2> QED
    BY <2>1, <2>2
<1>20. ASSUME Restart PROVE Types'
  <2>1. PlaceTypes'
    BY <1>0, <1>20 DEF PlaceTypes, Turn, Work, Requests, Restart, WorkerStarts
  <2>2. SessionTypes'
    BY <1>0, <1>20 DEF SessionTypes, Phases, Restart, WorkerStarts
  <2>3. TurnTypes'
    BY <1>0, <1>20 DEF TurnTypes, Restart, WorkerStarts
  <2>4. SavedTypes' /\ GameTypes'
    BY <1>0, <1>20 DEF SavedTypes, GameTypes, Restart
  <2> QED
    BY <2>1, <2>2, <2>3, <2>4
<1>21. ASSUME UNCHANGED vars PROVE Types'
  BY <1>0, <1>21 DEF vars, SavedTypes, GameTypes, PlaceTypes, SessionTypes, TurnTypes
<1>22. Types'
  BY <1>1, <1>2, <1>3, <1>4, <1>5, <1>6, <1>7, <1>8, <1>9, <1>10, <1>11, <1>12, <1>13, <1>14, <1>15, <1>16, <1>17, <1>18, <1>19, <1>20, <1>21 DEF Next, Worker, Player, World
<1> QED
  BY <1>22 DEF TypeOK, SavedTypes, GameTypes, PlaceTypes, SessionTypes, TurnTypes

\* What a turn has just read of the folder is so.
LEMMA ReadinessTrue ==
  ASSUME IInv, Readiness
  PROVE  ReadNow' /\ ReadyHeld'
<1> USE Values DEF saved, game, world, session, turn
<1>0. TypeOK /\ TypeOK'
  BY TypeStep DEF IInv, Next, Worker, World
<1> USE DEF TypeOK, Turn, Work, Requests
<1>1. ReadNow'
  BY <1>0 DEF ReadNow, Readiness, At, MayDiffer, Unconfirmed, Changed, Held
<1>2. ReadyHeld'
  <2>1. CASE prepared' = recorded /\ ~pending
    BY <2>1 DEF ReadyHeld, Readiness, At, Held
  <2>2. CASE phase' = "Failed"
    BY <2>2 DEF ReadyHeld
  <2>3. CASE (Changed => observed = Nothing) /\ UNCHANGED <<prepared, phase>>
    BY <1>0, <2>3 DEF IInv, ReadyHeld, Readiness, At, Changed, Held
  <2>4. CASE observed = Nothing
    BY <2>4 DEF ReadyHeld, Readiness, At
  <2> QED
    BY <2>1, <2>2, <2>3, <2>4 DEF Readiness, MayDiffer, Unconfirmed
<1> QED
  BY <1>1, <1>2

\* What the turn then says of the process is so.
LEMMA SessionTrue ==
  ASSUME IInv, ObserveSession
  PROVE  SeenRunning' /\ ConfirmedHeld'
<1> USE Values DEF saved, game, world, session, turn
<1>0. TypeOK /\ TypeOK'
  BY TypeStep DEF IInv, Next, Worker, World
<1> USE DEF TypeOK, Turn, Work, Requests
<1>1. SeenRunning'
  <2>1. CASE observed.process # None
    BY <1>0, <2>1 DEF IInv, ObservedForms, SeenRunning, ObserveSession, At, Nothing
  <2>2. CASE observed.process = None /\ observed.running = "Stopped"
    BY <2>2 DEF SeenRunning, ObserveSession, At
  <2>3. CASE observed.process = None /\ observed.running # "Stopped"
    BY <2>3 DEF SeenRunning, ObserveSession, At
  <2> QED
    BY <2>1, <2>2, <2>3
<1>2. ConfirmedHeld'
  <2> SUFFICES ASSUME phase' = "RuntimeReady", observed.process # None
               PROVE  /\ prepared # None
                      /\ activated[observed.process.start] =
                           [process |-> observed.process, setup |-> prepared, ok |-> TRUE]
    BY DEF ConfirmedHeld, ObserveSession
  <2>1. prepared # None /\ Matches(report) /\ report.ok
    BY DEF ObserveSession, RuntimeView
  <2>2. report \in Reports
    BY <1>0, <2>1 DEF Matches
  <2>3. report = [process |-> observed.process, setup |-> prepared, ok |-> TRUE]
    BY <2>1, <2>2 DEF Matches, Reports
  <2>4. activated[report.process.start] = report
    BY <1>0, <2>1 DEF IInv, ReportsKept, Matches
  <2> QED
    BY <2>1, <2>3, <2>4
<1> QED
  BY <1>1, <1>2

\* A process of the game reports once.
LEMMA ReportsStay ==
  ASSUME IInv, GameActivates
  PROVE  ConfirmedHeld'
<1> USE Values DEF saved, game, world, session, turn
<1>0. TypeOK /\ TypeOK'
  BY TypeStep DEF IInv, Next, Worker, World
<1> USE DEF TypeOK, Turn, Work, Requests
<1>1. ConfirmedHeld'
  <2> SUFFICES ASSUME phase = "RuntimeReady", pc \in {"auto", "idle"}, observed.process # None
               PROVE  /\ prepared # None
                      /\ activated'[observed.process.start] =
                           [process |-> observed.process, setup |-> prepared, ok |-> TRUE]
    BY DEF ConfirmedHeld, GameActivates
  <2>1. /\ prepared # None
        /\ activated[observed.process.start] =
             [process |-> observed.process, setup |-> prepared, ok |-> TRUE]
    BY <1>0 DEF IInv, ConfirmedHeld
  <2>2. observed.process \in Processes /\ prepared \in Setups
    BY <1>0, <2>1 DEF Observations
  <2>3. activated[observed.process.start] \in Reports
    BY <2>1, <2>2 DEF Reports
  <2>4. process.start # observed.process.start
    BY <2>3 DEF GameActivates
  <2>5. observed.process.start \in 1..MaxRuns
    BY <2>2 DEF Processes
  <2> QED
    BY <1>0, <2>1, <2>4, <2>5 DEF GameActivates
<1> QED
  BY <1>1

\* Every step keeps the invariant.
LEMMA InvStep ==
  ASSUME IInv, [Next]_vars
  PROVE  IInv'
<1> USE Values DEF saved, game, world, session, turn
<1>0. TypeOK /\ TypeOK'
  BY TypeStep DEF IInv
<1> USE DEF TypeOK, Turn, Work, Requests
<1> USE DEF IInv, ObservedForms, LastTurn, Reached, SeenRunning, ReadNow, ReadyHeld, ReportsKept,
           ConfirmedHeld, Held, Changed, Nothing, Target
<1>1. ASSUME Observe PROVE IInv'
  BY <1>0, <1>1 DEF At, Observe
<1>2. ASSUME Recover PROVE IInv'
  BY <1>0, <1>2 DEF At, Recover
<1>3. ASSUME Readiness PROVE IInv'
  <2>1. ObservedForms' /\ LastTurn' /\ Reached' /\ SeenRunning' /\ ReportsKept' /\ ConfirmedHeld'
    BY <1>0, <1>3 DEF At, Readiness
  <2>2. ReadNow' /\ ReadyHeld'
    BY <1>3, ReadinessTrue
  <2> QED
    BY <1>0, <2>1, <2>2
<1>4. ASSUME ObserveSession PROVE IInv'
  <2>1. ObservedForms' /\ LastTurn' /\ Reached' /\ ReadNow' /\ ReadyHeld' /\ ReportsKept'
    BY <1>0, <1>4 DEF At, ObserveSession, RuntimeView
  <2>2. SeenRunning' /\ ConfirmedHeld'
    BY <1>4, SessionTrue
  <2> QED
    BY <1>0, <2>1, <2>2
<1>5. ASSUME AutoPrepare PROVE IInv'
  BY <1>0, <1>5 DEF At, AutoPrepare
<1>6. ASSUME PreparationFails PROVE IInv'
  BY <1>0, <1>6 DEF PreparationFails, Fails, Work
<1>7. ASSUME Repair PROVE IInv'
  BY <1>0, <1>7 DEF Repair, Succeeds, At
<1>8. ASSUME SwitchBegins PROVE IInv'
  BY <1>0, <1>8 DEF SwitchBegins, Succeeds, At
<1>9. ASSUME SwitchEnds PROVE IInv'
  BY <1>0, <1>9 DEF SwitchEnds, Succeeds, At, Target
<1>10. ASSUME Prepared PROVE IInv'
  BY <1>0, <1>10 DEF Prepared, At, Target
<1>11. ASSUME NEW a \in Requests, Handle(a) PROVE IInv'
  BY <1>0, <1>11 DEF Handle
<1>12. ASSUME Select PROVE IInv'
  BY <1>0, <1>12 DEF Select
<1>13. ASSUME Discover PROVE IInv'
  BY <1>0, <1>13 DEF Discover
<1>14. ASSUME Edit PROVE IInv'
  BY <1>0, <1>14 DEF Edit
<1>15. ASSUME GameStarts PROVE IInv'
  BY <1>0, <1>15 DEF GameStarts
<1>16. ASSUME GameActivates PROVE IInv'
  <2>1. ObservedForms' /\ LastTurn' /\ Reached' /\ SeenRunning' /\ ReadNow' /\ ReadyHeld' /\ ReportsKept'
    BY <1>0, <1>16 DEF GameActivates
  <2>2. ConfirmedHeld'
    BY <1>16, ReportsStay
  <2> QED
    BY <1>0, <2>1, <2>2
<1>17. ASSUME GameExits PROVE IInv'
  BY <1>0, <1>17 DEF GameExits
<1>18. ASSUME LaunchIsLost PROVE IInv'
  BY <1>0, <1>18 DEF LaunchIsLost
<1>19. ASSUME Elapse PROVE IInv'
  BY <1>0, <1>19 DEF Elapse
<1>20. ASSUME Restart PROVE IInv'
  BY <1>0, <1>20 DEF Restart, WorkerStarts
<1>21. ASSUME UNCHANGED vars PROVE IInv'
  BY <1>0, <1>21 DEF vars
<1> QED
  BY <1>1, <1>2, <1>3, <1>4, <1>5, <1>6, <1>7, <1>8, <1>9, <1>10, <1>11, <1>12, <1>13, <1>14, <1>15, <1>16, <1>17, <1>18, <1>19, <1>20, <1>21 DEF Next, Worker, Player, World

\* It holds at the start.
LEMMA InvInit == Init => IInv
<1> SUFFICES ASSUME Init PROVE IInv
  OBVIOUS
<1> USE Values DEF Init
<1>1. activated \in [1..MaxRuns -> Reports \cup {None}]
  OBVIOUS
<1>2. SavedTypes /\ PlaceTypes /\ SessionTypes /\ TurnTypes
  BY DEF SavedTypes, PlaceTypes, SessionTypes, TurnTypes, Turn, Work, Requests, Phases
<1>3. GameTypes
  <2>1. runs \in 0..MaxRuns /\ unknowns \in 0..MaxUnknown
    OBVIOUS
  <2>2. process = None /\ report = None /\ accepted \in BOOLEAN
    OBVIOUS
  <2> QED
    BY <1>1, <2>1, <2>2 DEF GameTypes
<1>4. TypeOK
  BY <1>2, <1>3 DEF TypeOK, SavedTypes, GameTypes, PlaceTypes, SessionTypes, TurnTypes
<1> QED
  BY <1>4 DEF IInv, ObservedForms, LastTurn, Reached, SeenRunning, ReadNow, ReadyHeld, ReportsKept,
     ConfirmedHeld, Held, Changed, Nothing, Work

\* So it always holds.
LEMMA Invariance == Spec => []IInv
<1>1. IInv /\ [Next]_vars => IInv'
  BY InvStep
<1> QED
  BY InvInit, <1>1, PTL DEF Spec

(***************************************************************************)
(* What the runs check.                                                    *)
(***************************************************************************)

\* Type correctness of the session, its worker and the game.
THEOREM TypeCorrect == Spec => []TypeOK
  BY Invariance, PTL DEF IInv

\* A confirmation is of the process that runs, and of the setup that is prepared: whatever
\* reports of other processes and setups lie in the folder (launch.rs:104).
THEOREM ConfirmedIsOfThisRun == Spec => []ConfirmedByThisRun
<1>1. IInv => ConfirmedByThisRun
  BY DEF IInv, ConfirmedHeld, ConfirmedByThisRun
<1> QED
  BY <1>1, Invariance, PTL

\* "Ready" is true of a folder that can be inspected, whatever was interrupted before
\* (worker.rs:303).
THEOREM ReadyTrue == Spec => []ReadyIsTrue
<1>1. IInv => ReadyIsTrue
  BY DEF IInv, ReadyHeld, ReadyIsTrue, Held
<1> QED
  BY <1>1, Invariance, PTL

\* Only the saved setup is launched, complete and with no game running (launch.rs:75).
THEOREM LaunchesRunTheSaved == Spec => LaunchRunsTheSaved
<1>1. IInv /\ [Next]_vars => [~accepted /\ accepted' => recorded = revision /\ ~pending /\ process = None]_vars
  <2> SUFFICES ASSUME IInv, [Next]_vars, ~accepted, accepted'
               PROVE  recorded = revision /\ ~pending /\ process = None
    OBVIOUS
  <2>1. Prepared /\ job = "Launch"
    <3> USE DEF saved, game, world, session, turn
    <3>1. ~(UNCHANGED accepted)
      OBVIOUS
    <3>2. CASE Worker
      BY <3>1, <3>2 DEF Worker, Observe, Recover, Readiness, ObserveSession, AutoPrepare,
         PreparationFails, Fails, Repair, SwitchBegins, SwitchEnds, Prepared
    <3>3. CASE Player
      BY <3>1, <3>3 DEF Player, Handle, Select, Discover, Edit
    <3>4. CASE World
      BY <3>1, <3>4 DEF World, GameStarts, GameActivates, GameExits, LaunchIsLost, Elapse, Restart
    <3> QED
      BY <3>1, <3>2, <3>3, <3>4 DEF Next, vars
  <2>2. pc = "dispatch" /\ process = None
    BY <2>1 DEF Prepared, At
  <2>3. recorded = Target /\ ~pending
    BY <2>2 DEF IInv, Reached
  <2> QED
    BY <2>1, <2>2, <2>3 DEF Target
<1> QED
  BY <1>1, Invariance, PTL DEF Spec, LaunchRunsTheSaved
=============================================================================
