------------------------------ MODULE Updates ------------------------------
(***************************************************************************)
(* Updates of the program itself, over the life of its saved data: the     *)
(* schedule and the channels of updates.rs, the checks and downloads of    *)
(* game_service/updates.rs, and the worker's hand-over to the installer    *)
(* (Worker::update_tick), which replaces the build that next opens the     *)
(* data (StorageOpen).                                                     *)
(*                                                                         *)
(* A round of the worker's loop collects a result, starts a due check, and *)
(* looks after a waiting installer.  Since a result may come right after   *)
(* its collection, these are steps of their own.  Tasks and the copier of  *)
(* local sources run beside them; the player acts between two rounds.      *)
(***************************************************************************)
EXTENDS StorageOpen, FiniteSetsExt

CONSTANTS
  Previews,    \* the builds that are prereleases
  Interval,    \* units of time between two checks
  Feeds,       \* bound: the complete releases the release page may list
  MaxBackoff,  \* bound: doublings of the retry delay (4 in the code)
  MaxRetry     \* bound: the longest delay a server asks for

Channels == {"stable", "preview"}
Preferences == [channel : Channels, release : Builds \cup {None}]
Phases == {"Idle", "Checking", "Downloading", "Waiting", "Installing"}
Outcomes == {"running", "downloading", "answered", "failed", "limited", "died"}
Jobs == [kind : {"check", "install"}, channel : Channels, version : Builds \cup {None},
         outcome : Outcomes]
Delays == 0..(Interval * 2 ^ MaxBackoff + MaxRetry)

ASSUME UpdatesAssumption ==
  /\ Builds \subseteq Nat /\ Previews \subseteq Builds /\ Feeds \subseteq SUBSET Builds
  /\ \A feed \in Feeds : feed # {} => \E top \in feed : \A r \in feed : r <= top  \* a page is finite
  /\ \A a, b \in Builds : a < b => Schema[a] <= Schema[b]
  /\ Interval \in Nat \ {0} /\ {MaxBackoff, MaxRetry} \subseteq Nat
  /\ None \notin Preferences \cup Jobs

VARIABLES
  prefs,     \* the preferences in the database, None before they were first saved
  saved,     \* the preferences the worker holds, None while it does not run
  phase,
  job,       \* the task that was started last, None when its result was taken
  ready,     \* the release whose verified installer is held
  wait,      \* time until the next check is due
  hold,      \* time until another request may be made
  failures,
  inFlight,
  watcher,   \* the copier of local sources
  worker,    \* the stage of the worker's loop
  closing    \* the window was closed

schedule == <<wait, hold, failures, inFlight>>
session == <<saved, phase, job, ready, schedule, watcher, worker, closing>>
vars == <<storageVars, prefs, session>>

-----------------------------------------------------------------------------
(* The program starts and ends *)

Default(b) == [channel |-> IF b \in Previews THEN "preview" ELSE "stable",
               release |-> None]

\* Mutant of Eligible: any listed build of the channel.
AnyBuild(r, b, channel) == channel = "stable" => r \notin Previews
Eligible(r, b, channel) == r > b /\ (channel = "stable" => r \notin Previews)

\* Updates::new
Kept(p, b) == IF p.release # None /\ ~Eligible(p.release, b, p.channel)
              THEN [p EXCEPT !.release = None] ELSE p

NoSession ==
  /\ saved' = None /\ phase' = "Idle" /\ job' = None /\ ready' = None
  /\ wait' = 0 /\ hold' = 0 /\ failures' = 0 /\ inFlight' = FALSE
  /\ watcher' = "none" /\ worker' = "off" /\ closing' = FALSE

NewSession ==
  /\ saved' = Kept(IF prefs = None THEN Default(build[App]) ELSE prefs, build[App])
  /\ watcher' = "running" /\ worker' = "idle"
  /\ UNCHANGED <<phase, job, ready, schedule, closing>>

\* The steps of the saved data; those of the program's own records wait for its loop.
DataStep ==
  /\ StorageStep
  /\ stage'[App] = stage[App] => worker \in {"off", "idle"} \/ (running' # running /\ worker = "handing")
  /\ stage'[App] = "deploying" => worker = "idle"
  /\ CASE stage[App] # "open" /\ stage'[App] = "open" /\ worker = "off" -> NewSession
       [] stage'[App] = "off" -> NoSession
       [] OTHER -> UNCHANGED session
  /\ prefs' = IF active = None /\ active' # None THEN None ELSE prefs

AtLoop(s) == stage[App] = "open" /\ worker = s
Loop(from, to) == AtLoop(from) /\ worker' = to

\* The window is closed while the worker hands over.
CloseWindow ==
  /\ worker = "handing" /\ closing' = TRUE
  /\ UNCHANGED <<storageVars, prefs, saved, phase, job, ready, schedule, watcher, worker>>

\* The loop finds the window closed, now or before.
Exit ==
  /\ AtLoop("idle")
  /\ Gone(App) /\ NoSession
  /\ UNCHANGED <<installed, savedVars, worldVars, prefs>>

-----------------------------------------------------------------------------
(* The player's commands *)

Command == AtLoop("idle") /\ ~closing

MayStart(manual) == ~inFlight /\ hold = 0 /\ (manual \/ wait = 0)

NewJob(kind, channel, version) ==
  job' = [kind |-> kind, channel |-> channel, version |-> version, outcome |-> "running"]

StartCheck ==
  /\ NewJob("check", saved.channel, None)
  /\ phase' = "Checking" /\ inFlight' = TRUE
  /\ UNCHANGED <<saved, ready, wait, hold, failures, watcher, closing>>

Check ==
  /\ Command /\ phase = "Idle" /\ MayStart(TRUE)
  /\ StartCheck
  /\ UNCHANGED <<storageVars, prefs, worker>>

Save(p) == prefs' = p /\ saved' = p

\* Mutant of Channel: the check that is under way goes on.
ChannelKeepsCheck(c) ==
  /\ Command /\ phase \in {"Idle", "Checking"}
  /\ Save([saved EXCEPT !.channel = c, !.release = None])
  /\ wait' = 0
  /\ UNCHANGED <<storageVars, phase, job, ready, hold, failures, inFlight, watcher, worker, closing>>

Channel(c) ==
  /\ Command /\ phase \in {"Idle", "Checking"}
  /\ Save([saved EXCEPT !.channel = c, !.release = None])
  /\ wait' = 0
  /\ IF hold = 0
     THEN NewJob("check", c, None) /\ phase' = "Checking" /\ inFlight' = TRUE
     ELSE job' = None /\ phase' = "Idle" /\ inFlight' = FALSE
  /\ UNCHANGED <<storageVars, ready, hold, failures, watcher, worker, closing>>

Cancel ==
  /\ Command /\ phase # "Installing"
  /\ job' = None /\ ready' = None /\ phase' = "Idle"
  /\ inFlight' = FALSE /\ wait' = Interval
  /\ UNCHANGED <<storageVars, prefs, saved, hold, failures, watcher, worker, closing>>

\* Mutant of Install: the version asked for is not compared with the notice.
InstallAny ==
  /\ Command /\ phase = "Idle" /\ hold = 0 /\ saved.release # None
  /\ \E v \in Builds : NewJob("install", saved.channel, v)
  /\ phase' = "Downloading"
  /\ UNCHANGED <<storageVars, prefs, saved, ready, schedule, watcher, worker, closing>>

Install ==
  /\ Command /\ phase = "Idle" /\ hold = 0 /\ saved.release # None
  /\ NewJob("install", saved.channel, saved.release)
  /\ phase' = "Downloading"
  /\ UNCHANGED <<storageVars, prefs, saved, ready, schedule, watcher, worker, closing>>

Player == Check \/ (\E c \in Channels : Channel(c)) \/ Cancel \/ Install

-----------------------------------------------------------------------------
(* The task *)

Select(feed, b, channel) ==
  LET found == {r \in feed : Eligible(r, b, channel)}
  IN IF found = {} THEN None ELSE Max(found)

Task(from) == job # None /\ job.outcome = from
Ends(outcome, version) == job' = [job EXCEPT !.outcome = outcome, !.version = version]

Discover ==
  /\ Task("running")
  /\ \/ \E feed \in Feeds :
          LET found == Select(feed, build[App], job.channel)
          IN IF job.kind = "check" THEN Ends("answered", found)
             ELSE Ends(IF found = job.version THEN "downloading" ELSE "failed", job.version)
     \/ \E e \in {"limited", "died"} \cup (IF job.kind = "check" THEN {"failed"} ELSE {}) :
          Ends(e, job.version)

Download == Task("downloading") /\ \E e \in {"answered", "failed", "died"} : Ends(e, job.version)

\* What comes during a hand-over is collected after it.
TaskGoesOn ==
  /\ worker = "idle"
  /\ Discover \/ Download
  /\ UNCHANGED <<storageVars, prefs, saved, phase, ready, schedule, watcher, worker, closing>>

-----------------------------------------------------------------------------
(* The worker *)

\* Schedule::complete after a failure: the delay doubles with every one in a row.
Backoff(retry) ==
  LET delay == Interval * 2 ^ failures
  IN /\ failures' = Min({failures + 1, MaxBackoff})
     /\ hold' = Max({retry, delay})
     /\ wait' = Max({delay, hold'})
     /\ inFlight' = FALSE

Success == failures' = 0 /\ hold' = 0 /\ wait' = Interval /\ inFlight' = FALSE

Collected == job # None /\ job.outcome \notin {"running", "downloading"}

Checked ==
  /\ Collected /\ job.kind = "check" /\ job.outcome # "died"
  /\ job' = None /\ phase' = "Idle"
  /\ IF job.outcome = "answered"
     THEN /\ Success
          /\ \/ Save([saved EXCEPT !.release = job.version])
             \/ UNCHANGED <<prefs, saved>>  \* the preferences could not be saved
     ELSE /\ \E retry \in IF job.outcome = "limited" THEN 1..MaxRetry ELSE {0} : Backoff(retry)
          /\ UNCHANGED <<prefs, saved>>
  /\ UNCHANGED ready

Downloaded ==
  /\ Collected /\ (job.kind = "install" \/ job.outcome = "died")
  /\ job' = None
  /\ IF job.outcome = "answered"
     THEN ready' = job.version /\ phase' = "Waiting"
     ELSE UNCHANGED ready /\ phase' = "Idle"
  /\ IF job.outcome = "limited" THEN \E retry \in 1..MaxRetry : Backoff(retry)
     ELSE UNCHANGED schedule
  /\ UNCHANGED <<prefs, saved>>

Collect ==
  /\ AtLoop("idle")
  /\ Checked \/ Downloaded
  /\ UNCHANGED <<storageVars, watcher, worker, closing>>

\* Until the window has subscribed no check is made.
DueCheck ==
  /\ AtLoop("idle") /\ phase = "Idle" /\ MayStart(FALSE)
  /\ StartCheck
  /\ UNCHANGED <<storageVars, prefs, worker>>

\* Mutant of ResumeWatcher: only an installer that is given up later counts.
ResumesWithInstaller ==
  /\ AtLoop("idle") /\ ready # None
  /\ watcher = "stopped" /\ watcher' = "running"
  /\ UNCHANGED <<storageVars, prefs, saved, phase, job, ready, schedule, worker, closing>>

ResumeWatcher ==
  /\ AtLoop("idle") /\ ready = None
  /\ watcher = "stopped" /\ watcher' = "running"
  /\ UNCHANGED <<storageVars, prefs, saved, phase, job, ready, schedule, worker, closing>>

\* The package queue, a request or a launch may be in the way for any time.
StopWatcher ==
  /\ AtLoop("idle") /\ ready # None /\ ~running
  /\ watcher = "running" /\ watcher' = "stopping"
  /\ UNCHANGED <<storageVars, prefs, saved, phase, job, ready, schedule, worker, closing>>

HandOver ==
  /\ ready # None /\ ~running /\ watcher = "stopped"
  /\ Loop("idle", "handing")
  /\ watcher' = "none" /\ phase' = "Installing"
  /\ UNCHANGED <<storageVars, prefs, saved, job, ready, schedule, closing>>

\* Flushing failed, or the window was closed or the game started meanwhile, or the
\* installer could not be started: only in this last case was it taken.
HandOverFails ==
  /\ Loop("handing", "idle")
  /\ phase' = "Idle" /\ watcher' = "running"
  /\ UNCHANGED ready \/ (~closing /\ ~running /\ ready' = None)
  /\ UNCHANGED <<storageVars, prefs, saved, job, schedule, closing>>

\* The installer replaces the program and starts it again.
RunInstaller ==
  /\ AtLoop("handing") /\ ~closing /\ ~running
  /\ Replace(ready) /\ NoSession
  /\ UNCHANGED prefs

LoopStep == Collect \/ DueCheck \/ ResumeWatcher \/ StopWatcher \/ HandOver \/ HandOverFails \/ RunInstaller \/ Exit

-----------------------------------------------------------------------------
(* Beside the worker *)

WatcherFinishes ==
  /\ watcher = "stopping" /\ watcher' = "stopped"
  /\ UNCHANGED <<storageVars, prefs, saved, phase, job, ready, schedule, worker, closing>>

Elapse ==
  /\ worker = "idle" /\ wait + hold > 0
  /\ wait' = IF wait = 0 THEN 0 ELSE wait - 1
  /\ hold' = IF hold = 0 THEN 0 ELSE hold - 1
  /\ UNCHANGED <<storageVars, prefs, saved, phase, job, ready, failures, inFlight, watcher, worker, closing>>

Init ==
  /\ StorageInit
  /\ prefs \in {None} \cup [channel : Channels, release : {None}]
  /\ active = None => prefs = None
  /\ saved = None /\ phase = "Idle" /\ job = None /\ ready = None
  /\ wait = 0 /\ hold = 0 /\ failures = 0 /\ inFlight = FALSE
  /\ watcher = "none" /\ worker = "off" /\ closing = FALSE

Next == \/ DataStep \/ CloseWindow \/ Player \/ TaskGoesOn \/ LoopStep
        \/ WatcherFinishes \/ Elapse

Spec == Init /\ [][Next]_vars

\* The worker's loop looks after the copier every time round, and a cancelled copier ends.
Fairness == WF_vars(ResumeWatcher) /\ WF_vars(WatcherFinishes)
FairSpec == Spec /\ Fairness

-----------------------------------------------------------------------------
(* Properties *)

TypeOK ==
  /\ StorageTypeOK
  /\ prefs \in Preferences \cup {None}
  /\ saved \in Preferences \cup {None}
  /\ phase \in Phases
  /\ job \in Jobs \cup {None}
  /\ ready \in Builds \cup {None}
  /\ wait \in Delays /\ hold \in Delays
  /\ failures \in 0..MaxBackoff
  /\ inFlight \in BOOLEAN /\ closing \in BOOLEAN
  /\ watcher \in {"none", "running", "stopping", "stopped"}
  /\ worker \in {"off", "idle", "handing"}
  /\ worker # "off" <=> saved # None

\* The notice that is shown names a newer build of the channel that is selected, whatever
\* check was under way when the channel or the program changed (game_service/updates.rs:130).
NoticeIsCurrent ==
  saved # None /\ saved.release # None => Eligible(saved.release, build[App], saved.channel)

\* A download is of the release the notice names, on the selected channel
\* (game_service/updates.rs:163).
DownloadIsOfTheNotice ==
  job # None /\ job.kind = "install" => job.version = saved.release /\ job.channel = saved.channel

\* What is offered and what is fetched are one release, of the channel selected now.
OffersAreCurrent == NoticeIsCurrent /\ DownloadIsOfTheNotice

\* The installer only ever puts a newer build in place, and one that can open the data as
\* they are (game_service/updates.rs:284).
UpdatesGoForward ==
  [][installed' # installed /\ installed' # None /\ stage[App] = "open" =>
       installed' > build[App] /\ Whole' /\ Data'.version <= Schema[installed']]_vars

\* A local copier that was stopped for an installer runs again once the installer is
\* given up (game_service/worker.rs:148).
WatcherResumes ==
  (watcher \in {"stopping", "stopped"} /\ ready = None) ~>
     (watcher = "running" \/ ready # None \/ stage[App] # "open")

\* A hand-over goes forward, or everything it stopped goes on.
HandOverIsSound == UpdatesGoForward /\ WatcherResumes

=============================================================================
