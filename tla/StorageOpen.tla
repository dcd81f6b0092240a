---------------------------- MODULE StorageOpen ----------------------------
(***************************************************************************)
(* The saved data of one Windows account, from the program's first start   *)
(* to its removal: how Storage::open (storage.rs) creates, checks and      *)
(* migrates the database, and how the uninstaller's maintenance command    *)
(* (maintenance.rs) cleans the game and then deletes the data.             *)
(*                                                                         *)
(* Either process may stop between any two steps: it fails, is closed or   *)
(* is killed.  The system then frees its lock, SQLite rolls its open       *)
(* transaction back, and every file it wrote stays.                        *)
(***************************************************************************)
EXTENDS Naturals

CONSTANTS
  App, Remover,  \* the desktop program and the uninstaller's command
  Builds,        \* builds of the program
  Schema,        \* the database version each build writes
  Oldest,        \* the oldest version a build still migrates
  MaxEdits,      \* bound: edits of the saved records
  None

Procs == {App, Remover}
Versions == {Schema[b] : b \in Builds} \cup {Oldest}
Databases == [version : Versions, rows : 0..MaxEdits, owns : BOOLEAN]
Folders == [db : Databases \cup {None}, complete : BOOLEAN]

Stages == {"off", "starting", "locked", "staging", "baseline", "marked", "placed",
           "backing", "copied", "backed", "checked", "valid", "open",
           "deploying", "restored", "cleaned", "removing", "erasing", "erased", "unlocked"}

ASSUME StorageAssumption ==
  /\ App # Remover
  /\ Schema \in [Builds -> Nat] /\ Oldest \in Nat
  /\ MaxEdits \in Nat
  /\ None \notin Procs \cup Builds \cup Databases \cup Folders

VARIABLES
  installed,  \* the build in the program folder, or None
  stage,      \* what each process is doing
  build,      \* the build each process runs
  keep,       \* whether the player keeps the data on uninstall
  lock,       \* who holds state.lock
  active,     \* the folder `sqlite`, or None
  staging,    \* the folder the present creation is filling, or None: nobody reads an old one
  backup,     \* the database in the newest complete backup, or None
  legacy,     \* a state.db of an older format lies in the data folder
  owned,      \* files of ours are in the game folder
  running     \* the game runs

programVars == <<installed, build, keep>>
savedVars == <<active, backup, legacy>>
diskVars == <<savedVars, staging>>
worldVars == <<owned, running>>
storageVars == <<programVars, stage, lock, diskVars, worldVars>>

Data == IF active = None THEN None ELSE active.db
Whole == active # None /\ active.complete /\ active.db # None
\* Mutant of Usable: a newer version is not refused.
AnyVersion(b) == Whole /\ Oldest <= Data.version
Usable(b) == Whole /\ Oldest <= Data.version /\ Data.version <= Schema[b]
Fresh(b) == [version |-> Schema[b], rows |-> 0, owns |-> FALSE]

StorageInit ==
  /\ installed \in Builds
  /\ stage = [p \in Procs |-> "off"]
  /\ build = [p \in Procs |-> None]
  /\ keep = FALSE
  /\ lock = None
  /\ staging = None /\ backup = None
  /\ active \in {None} \cup {[db |-> [version |-> v, rows |-> MaxEdits, owns |-> FALSE], complete |-> TRUE] :
                             v \in Versions}
  /\ legacy \in BOOLEAN /\ (legacy => active = None)
  /\ owned = FALSE /\ running = FALSE

-----------------------------------------------------------------------------
(* Opening *)

Moves(p, from, to) == stage[p] = from /\ stage' = [stage EXCEPT ![p] = to]

\* The process is gone and the system has freed its lock.
Gone(p) ==
  /\ stage' = [stage EXCEPT ![p] = "off"]
  /\ build' = [build EXCEPT ![p] = None]
  /\ lock' = IF lock = p THEN None ELSE lock
  /\ staging' = IF lock = p THEN None ELSE staging
  /\ keep' = (keep /\ p # Remover)

\* The uninstaller does not run its command while the program runs.
Start(p) ==
  /\ installed # None
  /\ p = Remover => stage[App] = "off"
  /\ Moves(p, "off", "starting")
  /\ build' = [build EXCEPT ![p] = installed]
  /\ IF p = Remover THEN keep' \in BOOLEAN ELSE UNCHANGED keep
  /\ UNCHANGED <<installed, lock, diskVars, worldVars>>

Lock(p) ==
  /\ stage[p] = "starting"
  /\ IF lock = None
     THEN lock' = p /\ Moves(p, "starting", "locked") /\ UNCHANGED <<build, keep, staging>>
     ELSE Gone(p)
  /\ UNCHANGED <<installed, savedVars, worldVars>>

MakeStaging(p) ==
  /\ active = None /\ ~legacy
  /\ Moves(p, "locked", "staging")
  /\ staging' = [db |-> None, complete |-> FALSE]
  /\ UNCHANGED <<programVars, lock, active, backup, legacy, worldVars>>

WriteBaseline(p) ==
  /\ Moves(p, "staging", "baseline")
  /\ staging' = [staging EXCEPT !.db = Fresh(build[p])]
  /\ UNCHANGED <<programVars, lock, active, backup, legacy, worldVars>>

MarkStaging(p) ==
  /\ Moves(p, "baseline", "marked")
  /\ staging' = [staging EXCEPT !.complete = TRUE]
  /\ UNCHANGED <<programVars, lock, active, backup, legacy, worldVars>>

Promote(p) ==
  /\ Moves(p, "marked", "placed")
  /\ active' = staging /\ staging' = None
  /\ UNCHANGED <<programVars, lock, backup, legacy, worldVars>>

Placed(p) == stage[p] = "placed" \/ (stage[p] = "locked" /\ active # None)

\* Mutant of Refuse: data that cannot be used are thrown away.
RefuseAndReset(p) ==
  /\ Placed(p) /\ ~Usable(build[p])
  /\ Gone(p) /\ active' = None
  /\ UNCHANGED <<installed, backup, legacy, worldVars>>

Refuse(p) ==
  /\ \/ stage[p] = "locked" /\ active = None /\ legacy
     \/ Placed(p) /\ ~Usable(build[p])
  /\ Gone(p)
  /\ UNCHANGED <<installed, savedVars, worldVars>>

\* Mutant of Accept: the migration starts without a backup.
AcceptAtOnce(p) ==
  /\ Placed(p) /\ Usable(build[p])
  /\ stage' = [stage EXCEPT ![p] = IF Data.version < Schema[build[p]] THEN "backed" ELSE "checked"]
  /\ UNCHANGED <<programVars, lock, diskVars, worldVars>>

Accept(p) ==
  /\ Placed(p) /\ Usable(build[p])
  /\ stage' = [stage EXCEPT ![p] = IF Data.version < Schema[build[p]] THEN "backing" ELSE "checked"]
  /\ UNCHANGED <<programVars, lock, diskVars, worldVars>>

\* The copy lies in a folder without its `complete` file, which nobody reads.
CopyBackup(p) ==
  /\ Moves(p, "backing", "copied")
  /\ UNCHANGED <<programVars, lock, diskVars, worldVars>>

CompleteBackup(p) ==
  /\ Moves(p, "copied", "backed")
  /\ backup' = Data
  /\ UNCHANGED <<programVars, lock, active, staging, legacy, worldVars>>

Migrated(b) == [active EXCEPT !.db.version = Schema[b]]

Migrate(p) ==
  /\ Moves(p, "backed", "checked")
  /\ active' = Migrated(build[p])
  /\ UNCHANGED <<programVars, lock, staging, backup, legacy, worldVars>>

\* Records that break a rule of theirs are refused: then the process stops here.
Validate(p) ==
  /\ Moves(p, "checked", "valid")
  /\ UNCHANGED <<programVars, lock, diskVars, worldVars>>

\* The records and their relations are read, and write-ahead logging is on.
Load(p) ==
  /\ Moves(p, "valid", "open")
  /\ UNCHANGED <<programVars, lock, diskVars, worldVars>>

Open(p) == \/ Start(p) \/ Lock(p)
           \/ MakeStaging(p) \/ WriteBaseline(p) \/ MarkStaging(p) \/ Promote(p)
           \/ Refuse(p) \/ Accept(p) \/ CopyBackup(p) \/ CompleteBackup(p) \/ Migrate(p)
           \/ Validate(p) \/ Load(p)

-----------------------------------------------------------------------------
(* The open program *)

Edit ==
  /\ stage[App] = "open" /\ Data.rows < MaxEdits
  /\ active' = [active EXCEPT !.db.rows = @ + 1]
  /\ UNCHANGED <<programVars, stage, lock, staging, backup, legacy, worldVars>>

\* The journal is saved before the game folder is changed.  Bound: only the last edit is
\* deployed.
RecordDeployment ==
  /\ ~running
  /\ stage[App] = "open" /\ Data.rows = MaxEdits
  /\ Moves(App, "open", "deploying")
  /\ active' = [active EXCEPT !.db.owns = TRUE]
  /\ UNCHANGED <<programVars, lock, staging, backup, legacy, worldVars>>

DeployFiles ==
  /\ Moves(App, "deploying", "open")
  /\ owned' = TRUE
  /\ UNCHANGED <<programVars, lock, diskVars, running>>

GameStartsOrExits ==
  /\ running' = ~running
  /\ UNCHANGED <<programVars, stage, lock, diskVars, owned>>

\* A failure, or the end of the process.
Stop(p) ==
  /\ stage[p] # "off"
  /\ Gone(p)
  /\ UNCHANGED <<installed, savedVars, worldVars>>

-----------------------------------------------------------------------------
(* The uninstaller's command *)

\* Mutant of RestoreGame: a running game's files are left, and the command goes on.
SkipRunningGame ==
  /\ Moves(Remover, "open", "restored")
  /\ owned' = (owned /\ running)
  /\ UNCHANGED <<programVars, lock, diskVars, running>>

\* remove_all: with nothing recorded it leaves the game folder alone.
RestoreGame ==
  /\ Moves(Remover, "open", "restored")
  /\ Data.owns => ~running
  /\ owned' = (owned /\ ~Data.owns)
  /\ UNCHANGED <<programVars, lock, diskVars, running>>

ForgetDeployment ==
  /\ Moves(Remover, "restored", "cleaned")
  /\ active' = [active EXCEPT !.db.owns = FALSE]
  /\ UNCHANGED <<programVars, lock, staging, backup, legacy, worldVars>>

\* There is a link among the data; the game runs, or its folder cannot be restored; a local
\* source lies inside the data folder.
RefuseRemoval ==
  /\ stage[Remover] \in {"starting", "open", "cleaned"}
  /\ Gone(Remover)
  /\ UNCHANGED <<installed, savedVars, worldVars>>

\* The command ends well, and the uninstaller deletes the program.
KeepData ==
  /\ stage[Remover] = "cleaned" /\ keep
  /\ Gone(Remover)
  /\ installed' = None
  /\ UNCHANGED <<savedVars, worldVars>>

RemoveBackups ==
  /\ ~keep
  /\ Moves(Remover, "cleaned", "removing")
  /\ backup' = None
  /\ UNCHANGED <<programVars, lock, active, staging, legacy, worldVars>>

\* The files of `sqlite` go one at a time, in no order of ours.
EraseFile ==
  /\ stage[Remover] \in {"removing", "erasing"}
  /\ \/ active.complete /\ active' = [active EXCEPT !.complete = FALSE]
     \/ active.db # None /\ active' = [active EXCEPT !.db = None]
  /\ stage' = [stage EXCEPT ![Remover] = "erasing"]
  /\ UNCHANGED <<programVars, lock, staging, backup, legacy, worldVars>>

EraseFolder ==
  /\ Moves(Remover, "erasing", "erased")
  /\ ~active.complete /\ active.db = None
  /\ active' = None
  /\ UNCHANGED <<programVars, lock, staging, backup, legacy, worldVars>>

RemoveLegacy ==
  /\ Moves(Remover, "erased", "unlocked")
  /\ legacy' = FALSE
  /\ lock' = None
  /\ UNCHANGED <<programVars, active, staging, backup, worldVars>>

\* state.lock and the emptied folder go, and the uninstaller deletes the program.
RemoveProgram ==
  /\ stage[Remover] = "unlocked"
  /\ Gone(Remover)
  /\ installed' = None
  /\ UNCHANGED <<savedVars, worldVars>>

\* Somebody installs a build by hand: a first, a newer or an older one.
Reinstall(b) ==
  /\ \A p \in Procs : stage[p] = "off"
  /\ installed' = b
  /\ UNCHANGED <<build, keep, stage, lock, diskVars, worldVars>>

Uninstall == \/ RefuseRemoval \/ RestoreGame \/ ForgetDeployment \/ KeepData \/ RemoveBackups
             \/ EraseFile \/ EraseFolder \/ RemoveLegacy \/ RemoveProgram

StorageStep ==
  \/ \E p \in Procs : Open(p) \/ Stop(p)
  \/ Edit \/ RecordDeployment \/ DeployFiles \/ GameStartsOrExits
  \/ Uninstall
  \/ \E b \in Builds : Reinstall(b)

\* The program starts an installer, which ends it and puts another build in its place.
Replace(b) ==
  /\ stage[App] = "open"
  /\ Gone(App)
  /\ installed' = b
  /\ UNCHANGED <<savedVars, worldVars>>

StorageNext == StorageStep \/ \E b \in Builds : Replace(b)

\* The life of the saved data alone: a program that schedules, downloads and hands over to
\* installers (Updates) takes only these steps on it (storage.rs:299).
StorageSpec == StorageInit /\ [][StorageNext]_storageVars

-----------------------------------------------------------------------------
(* Properties *)

StorageTypeOK ==
  /\ installed \in Builds \cup {None}
  /\ stage \in [Procs -> Stages]
  /\ build \in [Procs -> Builds \cup {None}]
  /\ keep \in BOOLEAN
  /\ lock \in Procs \cup {None}
  /\ active \in Folders \cup {None}
  /\ staging \in Folders \cup {None}
  /\ backup \in Databases \cup {None}
  /\ legacy \in BOOLEAN /\ owned \in BOOLEAN /\ running \in BOOLEAN

\* Only an uninstall takes the database away or apart: whatever else happens or stops,
\* committed records stay, and `sqlite` never appears or remains half made
\* (storage.rs:310).
CommittedStay ==
  [][/\ Data # None /\ stage[Remover] \notin {"removing", "erasing"} =>
          Data' # None /\ Data'.rows >= Data.rows
     /\ Whole' \/ active' = None \/ (active' = active) \/ stage'[Remover] = "erasing"]_storageVars

\* A database's version only rises, to what the migrating build writes, and the step that
\* raises it finds the whole older database in a complete backup (storage.rs:391).
MigrationIsBackedUp ==
  [][Data # None /\ Data' # None /\ Data'.version # Data.version =>
       Data'.version > Data.version /\ backup = Data]_storageVars

\* What was committed survives everything but an uninstall, in the database or its backup, and
\* the program that schedules, downloads and hands over to installers keeps to these steps.
DataIsKept == StorageSpec /\ CommittedStay /\ MigrationIsBackedUp

\* While a file of ours is in the game folder, a whole database records it: no start,
\* stop, removal or retry takes the records first (maintenance.rs:45).
RecordsOutliveGameFiles == owned => Whole /\ Data.owns

\* A process works on records of its own build's version only (storage.rs:352).
WorksOnItsVersion ==
  \A p \in Procs :
    stage[p] \in {"checked", "valid", "open", "deploying", "restored", "cleaned"} =>
      lock = p /\ Whole /\ Data.version = Schema[build[p]]

=============================================================================
