---------------------------- MODULE LaunchSession ----------------------------
(***************************************************************************)
(* The launch session of the game service: what Starframe says of the game *)
(* and of its setup (Worker::tick, Session::observe, launch.rs), against a *)
(* game that anybody may start, a folder whose switch may be interrupted,  *)
(* a report that outlives its process, and Windows, which accepts a launch *)
(* long before a process can be seen, or never shows one.                  *)
(*                                                                         *)
(* One turn of the worker's loop is Observe, Recover, Readiness,           *)
(* ObserveSession and AutoPrepare; requests are handled between two turns. *)
(* How a switch of the folder proceeds is Deployment's subject: here it    *)
(* begins and it ends, and the record names the setup it replaces.         *)
(***************************************************************************)
EXTENDS Naturals

CONSTANTS
  MaxEdits,       \* bound: saved edits of the setup
  MaxRuns,        \* bound: starts of the game
  Pids,           \* process ids, which Windows uses again
  LaunchTimeout,  \* time a launch may take (30 seconds in the code)
  MaxUnknown,     \* bound: observations of the processes that fail
  None

Setups == 0..MaxEdits
Processes == [pid : Pids, start : 1..MaxRuns]
Reports == [process : Processes, setup : Setups, ok : BOOLEAN]
Observations == [running : {"Stopped", "Running", "Unknown"}, process : Processes \cup {None}]
Phases == {"SetupRequired", "Ready", "Preparing", "LaunchRequested", "ProcessObserved",
           "RuntimeReady", "RuntimeFailed", "Failed"}
OfGame == {"ProcessObserved", "RuntimeReady", "RuntimeFailed"}
Requests == {"Setup", "Launch", "RemoveRuntime"}
Turn == {"idle", "recover", "readiness", "session", "auto"}
Work == {"repair", "guard", "switch", "dispatch"}

ASSUME LaunchAssumption ==
  /\ {MaxEdits, MaxUnknown} \subseteq Nat /\ {MaxRuns, LaunchTimeout} \subseteq Nat \ {0}
  /\ None \notin Setups \cup Processes \cup Reports \cup Observations \cup Requests \cup {"auto"}

VARIABLES
  revision,   \* the saved setup
  recorded,   \* the setup the record of the folder owns, or None
  pending,    \* a switch is journalled and not finished: the folder is a mixture
  process,    \* the game, or None
  runs,       \* starts of the game so far
  activated,  \* the report of each start, None before it is written
  report,     \* the report file
  accepted,   \* Windows accepted a launch whose process has not appeared
  unknowns,   \* failed observations so far
  pc, job,    \* the worker's place and the preparation it runs
  seen, requested, prepared,   \* Session, `requested` as the time that has passed since
  phase,      \* view.launch.phase
  observed,   \* what this turn observed
  recovery,   \* what the last turn observed, None after a request
  attempt     \* the revision of the last automatic preparation

saved == <<revision, recorded, pending>>
game == <<process, runs, activated, report>>
world == <<game, accepted>>
session == <<seen, requested, prepared>>
turn == <<observed, recovery, attempt>>
vars == <<saved, world, unknowns, pc, job, session, phase, turn>>

Nothing == [running |-> "Unknown", process |-> None]

WorkerStarts ==
  /\ pc' = "idle" /\ job' = None
  /\ seen' = FALSE /\ requested' = None /\ prepared' = None
  /\ phase' = "SetupRequired"
  /\ observed' = Nothing /\ recovery' = None /\ attempt' = None

Init ==
  /\ revision = 0 /\ recorded \in {None, 0} /\ pending = FALSE
  /\ process = None /\ runs = 0 /\ activated = [r \in 1..MaxRuns |-> None]
  /\ report = None /\ accepted = FALSE /\ unknowns = 0
  /\ pc = "idle" /\ job = None
  /\ seen = FALSE /\ requested = None /\ prepared = None
  /\ phase = "SetupRequired"
  /\ observed = Nothing /\ recovery = None /\ attempt = None

-----------------------------------------------------------------------------
(* A turn of the loop *)

At(from, to) == pc = from /\ pc' = to

\* windows_game::observe and game::classify.  An unreadable process, or a game folder that
\* cannot be inspected, leaves the game unknown.
Observe ==
  /\ At("idle", "recover")
  /\ \/ /\ observed' = [running |-> IF process = None THEN "Stopped" ELSE "Running",
                        process |-> process]
        /\ UNCHANGED unknowns
     \/ /\ unknowns < MaxUnknown /\ unknowns' = unknowns + 1
        /\ observed' = Nothing
  /\ UNCHANGED <<saved, world, job, session, phase, recovery, attempt>>

Changed == observed # recovery

\* deployment::recover: the game may have started since, or a call fails.
Recover ==
  /\ At("recover", "readiness")
  /\ IF Changed /\ observed.running = "Stopped" /\ pending /\ process = None
     THEN pending' \in BOOLEAN
     ELSE UNCHANGED pending
  /\ UNCHANGED <<revision, recorded, world, unknowns, job, session, phase, turn>>

\* Mutant of Unconfirmed: prepared_activation does not ask for an open journal.
AlwaysConfirmed == FALSE
\* prepared_activation refuses to name a setup while the record is open.
Unconfirmed == pending

\* An installation that is gone is observed as no observation at all: it differs from an
\* unreadable process, and is equal to the state after a request.
MayDiffer == Changed \/ observed = Nothing

\* The setup the folder holds, or none when the installation is gone; a record that is open,
\* or a file that is not as recorded, is a failure.
Readiness ==
  /\ At("readiness", "session")
  /\ \/ (Changed => observed = Nothing) /\ UNCHANGED <<prepared, phase>>
     \/ /\ MayDiffer /\ ~Unconfirmed
        /\ prepared' = recorded
        /\ phase' = IF observed.running = "Stopped" /\ requested = None /\ phase # "Failed"
                    THEN IF recorded = None THEN "SetupRequired" ELSE "Ready"
                    ELSE phase
     \/ MayDiffer /\ (Unconfirmed \/ recorded # None) /\ prepared' = None /\ phase' = "Failed"
     \/ observed = Nothing /\ prepared' = None /\ UNCHANGED phase
  /\ UNCHANGED <<saved, world, unknowns, job, seen, requested, turn>>

\* Mutant of Matches: the start time is not compared.
MatchesProcessId(r) ==
  r # None /\ r.process.pid = observed.process.pid /\ r.setup = prepared
\* report_matches
Matches(r) == r # None /\ r.process = observed.process /\ r.setup = prepared

RuntimeView == IF prepared # None /\ Matches(report)
               THEN IF report.ok THEN "RuntimeReady" ELSE "RuntimeFailed"
               ELSE "ProcessObserved"

\* Mutant of GivenUp: the timeout counts only while the request is still what is shown.
GivenUpWhileShown == requested = LaunchTimeout /\ phase # "LaunchRequested" /\ ~seen
GivenUp == requested = LaunchTimeout

\* Mutant of ObserveSession: the end of the game ends the launch, and what is shown is left
\* to the next readiness.
EndOnly ==
  /\ At("session", "auto")
  /\ CASE observed.process # None ->
            phase' = RuntimeView /\ seen' = TRUE /\ UNCHANGED requested
       [] observed.running = "Stopped" /\ seen ->
            seen' = FALSE /\ requested' = None /\ UNCHANGED phase
       [] observed.running = "Stopped" /\ ~seen /\ GivenUp ->
            phase' = "Failed" /\ requested' = None /\ UNCHANGED seen
       [] OTHER -> UNCHANGED <<seen, requested, phase>>
  /\ UNCHANGED <<saved, world, unknowns, job, prepared, turn>>

ObserveSession ==
  /\ At("session", "auto")
  /\ CASE observed.process # None ->
            phase' = RuntimeView /\ seen' = TRUE /\ UNCHANGED requested
       [] observed.running = "Stopped" /\ seen ->
            /\ seen' = FALSE /\ requested' = None
            /\ phase' = IF prepared = None THEN "SetupRequired" ELSE "Ready"
       [] observed.running = "Stopped" /\ ~seen /\ GivenUp ->
            phase' = "Failed" /\ requested' = None /\ UNCHANGED seen
       [] OTHER -> UNCHANGED <<seen, requested, phase>>
  /\ UNCHANGED <<saved, world, unknowns, job, prepared, turn>>

Due == /\ prepared # revision \/ attempt = None
       /\ observed.running = "Stopped" /\ requested = None /\ attempt # revision

AutoPrepare ==
  /\ recovery' = observed
  /\ IF Due
     THEN At("auto", "repair") /\ job' = "auto" /\ attempt' = revision /\ phase' = "Preparing"
     ELSE At("auto", "idle") /\ UNCHANGED <<job, attempt, phase>>
  /\ UNCHANGED <<saved, world, unknowns, session, observed>>

-----------------------------------------------------------------------------
(* Requests and preparations *)

\* begin_game_request refuses while a launch is waited for.
Handle(a) ==
  /\ pc = "idle" /\ phase # "LaunchRequested"
  /\ recovery' = None
  /\ IF requested # None
     THEN phase' = "Failed" /\ UNCHANGED <<pc, job>>
     ELSE phase' = "Preparing" /\ pc' = "repair" /\ job' = a
  /\ UNCHANGED <<saved, world, unknowns, session, observed, attempt>>

Select ==
  /\ pc = "idle" /\ phase # "LaunchRequested"
  /\ phase' = "SetupRequired"
  /\ requested' = None /\ seen' = FALSE
  /\ recovery' = None /\ attempt' = None
  /\ UNCHANGED <<saved, world, unknowns, pc, job, prepared, observed>>

\* Discovery, or a choice that was not made.
Discover ==
  /\ pc = "idle" /\ phase # "LaunchRequested"
  /\ recovery' = None
  /\ UNCHANGED <<saved, world, unknowns, pc, job, session, phase, observed, attempt>>

Edit ==
  /\ pc = "idle" /\ revision < MaxEdits
  /\ revision' = revision + 1
  /\ UNCHANGED <<recorded, pending, world, unknowns, pc, job, session, phase, turn>>

\* The setup the preparation is for.
Target == IF job = "RemoveRuntime" THEN None ELSE revision

Fails ==
  /\ pc' = "idle" /\ job' = None /\ phase' = "Failed"
  /\ UNCHANGED <<revision, recorded, world, unknowns, session, turn>>

\* A call fails, or the game has started: a switch that is under way stays journalled then.
PreparationFails ==
  /\ pc \in Work
  /\ Fails
  /\ IF pc = "switch" /\ process = None THEN pending' \in BOOLEAN ELSE UNCHANGED pending

\* A step of the preparation that succeeds, and so the next is taken.
Succeeds(from, to) == At(from, to) /\ process = None

\* repair_missing
Repair ==
  /\ Succeeds("repair", "guard")
  /\ pending' = FALSE
  /\ UNCHANGED <<revision, recorded, world, unknowns, job, session, phase, turn>>

SwitchBegins ==
  /\ Succeeds("guard", IF recorded = Target THEN "dispatch" ELSE "switch")
  /\ pending' = (recorded # Target)
  /\ UNCHANGED <<revision, recorded, world, unknowns, job, session, phase, turn>>

SwitchEnds ==
  /\ Succeeds("switch", "dispatch")
  /\ recorded' = Target /\ pending' = FALSE
  /\ UNCHANGED <<revision, world, unknowns, job, session, phase, turn>>

\* Mutant of Prepared: a launch whose game is running already is counted as one.
PreparedAnyway ==
  /\ At("dispatch", "idle") /\ job' = None
  /\ prepared' = Target
  /\ IF job = "Launch"
     THEN accepted' = TRUE /\ requested' = 0 /\ phase' = "LaunchRequested"
     ELSE /\ UNCHANGED <<accepted, requested>>
          /\ phase' = IF job = "RemoveRuntime" THEN "SetupRequired" ELSE "Ready"
  /\ UNCHANGED <<saved, game, unknowns, seen, turn>>

\* windows_game::launch asks for the game again; without a launch nothing more is asked.
Prepared ==
  /\ At("dispatch", "idle") /\ job' = None
  /\ prepared' = Target
  /\ IF job = "Launch"
     THEN process = None /\ accepted' = TRUE /\ requested' = 0 /\ phase' = "LaunchRequested"
     ELSE /\ UNCHANGED <<accepted, requested>>
          /\ phase' = IF job = "RemoveRuntime" THEN "SetupRequired" ELSE "Ready"
  /\ UNCHANGED <<saved, game, unknowns, seen, turn>>

Worker == Observe \/ Recover \/ Readiness \/ ObserveSession \/ AutoPrepare
          \/ PreparationFails \/ Repair \/ SwitchBegins \/ SwitchEnds \/ Prepared

Player == (\E a \in Requests : Handle(a)) \/ Select \/ Discover \/ Edit

-----------------------------------------------------------------------------
(* The world *)

\* By hand, or as the process of a launch that was accepted.
GameStarts ==
  /\ process = None /\ runs < MaxRuns
  /\ runs' = runs + 1
  /\ \E p \in Pids : process' = [pid |-> p, start |-> runs + 1]
  /\ UNCHANGED accepted \/ (accepted /\ accepted' = FALSE)
  /\ UNCHANGED <<saved, activated, report, unknowns, pc, job, session, phase, turn>>

\* The runtime reads the activation of the folder, of a mixture either one, and reports.
GameActivates ==
  /\ process # None /\ activated[process.start] = None
  /\ \E s \in (IF pending THEN {recorded, revision} ELSE {recorded}) \ {None}, ok \in BOOLEAN :
       /\ report' = [process |-> process, setup |-> s, ok |-> ok]
       /\ activated' = [activated EXCEPT ![process.start] = report']
  /\ UNCHANGED <<saved, process, runs, accepted, unknowns, pc, job, session, phase, turn>>

GameExits ==
  /\ process # None /\ process' = None
  /\ UNCHANGED <<saved, runs, activated, report, accepted, unknowns, pc, job, session, phase, turn>>

LaunchIsLost ==
  /\ accepted /\ accepted' = FALSE
  /\ UNCHANGED <<saved, game, unknowns, pc, job, session, phase, turn>>

Elapse ==
  /\ requested # None /\ requested < LaunchTimeout
  /\ requested' = requested + 1
  /\ UNCHANGED <<saved, world, unknowns, pc, job, seen, prepared, phase, turn>>

\* Starframe ends, at any point, and is started again.
Restart == WorkerStarts /\ UNCHANGED <<saved, world, unknowns>>

World == GameStarts \/ GameActivates \/ GameExits \/ LaunchIsLost \/ Elapse \/ Restart

Next == Worker \/ Player \/ World

Spec == Init /\ [][Next]_vars

\* The worker's thread runs, and time passes.
FairSpec == Spec /\ WF_vars(Worker) /\ WF_vars(Elapse)

-----------------------------------------------------------------------------
(* Properties *)

TypeOK ==
  /\ revision \in Setups /\ recorded \in Setups \cup {None} /\ pending \in BOOLEAN
  /\ process \in Processes \cup {None} /\ runs \in 0..MaxRuns
  /\ activated \in [1..MaxRuns -> Reports \cup {None}]
  /\ report \in Reports \cup {None} /\ accepted \in BOOLEAN /\ unknowns \in 0..MaxUnknown
  /\ pc \in Turn \cup Work /\ job \in Requests \cup {"auto", None}
  /\ seen \in BOOLEAN /\ requested \in 0..LaunchTimeout \cup {None}
  /\ prepared \in Setups \cup {None} /\ phase \in Phases
  /\ observed \in Observations /\ recovery \in Observations \cup {None}
  /\ attempt \in Setups \cup {None}
  /\ pc \in Work <=> job # None

\* "Runtime confirmed" is said of an observed process only if this very start activated all
\* of the setup that is prepared: not for a report an earlier process with the same id left
\* behind, nor for another setup than the folder was prepared with (launch.rs:104).
ConfirmedByThisRun ==
  phase = "RuntimeReady" /\ pc = "idle" /\ observed.process # None =>
    activated[observed.process.start] =
      [process |-> observed.process, setup |-> prepared, ok |-> TRUE]

\* Between two turns, "ready" is said of an installation that can be inspected only when the
\* record is closed and names the setup that is called prepared, whatever switch failed or
\* was interrupted before (worker.rs:303).
ReadyIsTrue ==
  phase = "Ready" /\ pc = "idle" /\ observed # Nothing => ~pending /\ recorded = prepared

\* Windows is asked to start the game only when the saved setup lies complete in the
\* folder and no game was seen (launch.rs:75).
LaunchRunsTheSaved ==
  [][~accepted /\ accepted' => recorded = revision /\ ~pending /\ process = None]_vars

\* A launch that is waited for is resolved: its game is seen to end, none comes, or a game
\* goes on (game_service/session.rs:48).
LaunchIsResolved == requested # None ~> (requested = None \/ process # None)

\* A game that has ended is not shown as running for ever (game_service/session.rs:34).
EndIsNoticed == (process = None /\ phase \in OfGame) ~> (process # None \/ phase \notin OfGame)

\* From a launch to the end of its game the session follows the game, whatever was observed
\* late, not at all, or before a restart (game_service/session.rs:24).
GameIsFollowed == LaunchIsResolved /\ EndIsNoticed

=============================================================================
