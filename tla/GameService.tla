---------------------------- MODULE GameService ----------------------------
(***************************************************************************)
(* The game service of the desktop (src-tauri/src/game_service.rs and its  *)
(* worker): one worker thread that owns storage and the game folder, the   *)
(* window's main thread that asks it for operations and closes it, and the *)
(* state they share: two atomic flags, a bounded channel and Core behind   *)
(* its mutex.                                                              *)
(*                                                                         *)
(* Deployment models what an operation does to the folder.  Here it is one *)
(* journal: pending while files change, then the deployed revision.        *)
(***************************************************************************)
EXTENDS Naturals, Sequences

CONSTANTS
    Actions,       \* the GameActions the window may ask for
    Capacity,      \* slots of the channel to the worker
    MaxRevision,   \* bound: saved revisions considered
    Observations,  \* what windows_game may report of the game process
    Faults,        \* whether calls may fail for reasons of their own
    MayUpdate,     \* whether an application update may be waiting
    None           \* an Option's None

FileActions == {"Setup", "Launch", "RemoveRuntime"}
\* The requests that hold `busy` until they are handled.
GameRequests == FileActions \cup {"Select", "Picked"}

ASSUME ActionsAssumption == Actions \subseteq FileActions \cup {"Select", "ChooseFolder"}
ASSUME BoundsAssumption == Capacity \in Nat \ {0} /\ MaxRevision \in Nat
ASSUME ObservationsAssumption ==
    {"Stopped"} \subseteq Observations /\ Observations \subseteq {"Stopped", "Running", "Unknown"}
ASSUME SwitchesAssumption == Faults \in BOOLEAN /\ MayUpdate \in BOOLEAN
ASSUME NoneAssumption == /\ None \notin 0..MaxRevision /\ None \notin Observations
                         /\ None \notin Actions \cup GameRequests \cup {"auto", "install"}

VARIABLES
    exiting,    \* AppHandle::exit was called
    window,     \* "open", "waiting" after a prevented close, "closed"
    busy,       \* the atomic a game request claims
    writing,    \* the atomic that defers closing
    stopped,    \* Core::stopped
    shown,      \* what Core's snapshot says of the game: busy, launch requested
    queue,      \* the channel
    ui,         \* where the main thread stands in request() or the close handler
    asked,      \* the action it asks for
    deferred,   \* the writing flag as the close handler read it
    picker,     \* the folder dialog is open
    pc,         \* where the worker stands; "dead" while no process runs
    job,        \* what it does to the folder
    viewBusy,   \* view.busy
    launch,     \* view.launch.phase, as far as decisions depend on it
    requested,  \* Session::requested is Some
    seen,       \* Session::seen
    prepared,   \* Session::prepared, by its revision
    observed,   \* tick's observation
    recovered,  \* recovery_observation
    attempted,  \* last_auto_attempt, by its revision (it is always made when stopped)
    installer,  \* a verified update is ready
    revision,   \* saved: the requested setup
    deployed,   \* saved: the revision of the deployed setup
    pending,    \* saved: a deployment journal is pending
    game        \* what an observation of the game process reports now

process == <<exiting, window>>
flags   == <<busy, writing>>
core    == <<stopped, shown>>
main    == <<ui, asked, deferred, picker>>
session == <<launch, requested, seen, prepared>>
tick    == <<observed, recovered, attempted>>
folder  == <<deployed, pending>>
world   == <<installer, revision, game>>
vars == <<process, flags, core, queue, main, pc, job, viewBusy, session, tick, folder, world>>

Init ==
    /\ exiting = FALSE /\ window = "open" /\ busy = TRUE /\ writing = FALSE
    /\ stopped = FALSE /\ shown = [busy |-> FALSE, requested |-> FALSE] /\ queue = <<>>
    /\ ui = "free" /\ asked = None /\ deferred = FALSE /\ picker = FALSE
    /\ pc = "start" /\ job = None /\ viewBusy = FALSE
    /\ launch = "Other" /\ requested = FALSE /\ seen = FALSE /\ prepared = None
    /\ observed = None /\ recovered = None /\ attempted = None /\ installer = FALSE
    /\ revision = 0 /\ deployed = None /\ pending = FALSE /\ game \in Observations

\* Core::game: a snapshot is published until the window closes.
Publish(isBusy, phase) ==
    shown' = IF stopped THEN shown ELSE [busy |-> isBusy, requested |-> phase = "Requested"]

Alive == pc # "dead"
Listening == pc \notin {"gone", "dead"}
Room == Len(queue) < Capacity

(***************************************************************************)
(* GameService::request on the main thread                                 *)
(***************************************************************************)
\* A second request is refused while `busy` is set.
Claim(a) ==
    /\ ui = "free" /\ window # "closed" /\ ~busy
    /\ busy' = TRUE /\ ui' = "claimed" /\ asked' = a
    /\ UNCHANGED <<process, writing, core, queue, deferred, picker, pc, job, viewBusy,
                   session, tick, folder, world>>

\* Mutant of BeginGameRequest: a refusal clears both flags, as a failed send does.
BeginClearsBoth ==
    /\ ui = "claimed"
    /\ \/ /\ stopped \/ shown.busy \/ shown.requested
          /\ busy' = FALSE /\ writing' = FALSE /\ ui' = "free" /\ asked' = None /\ UNCHANGED shown
       \/ /\ ~(stopped \/ shown.busy \/ shown.requested)
          /\ shown' = [shown EXCEPT !.busy = TRUE] /\ ui' = "accepted"
          /\ UNCHANGED <<flags, asked>>
    /\ UNCHANGED <<process, stopped, queue, deferred, picker, pc, job, viewBusy,
                   session, tick, folder, world>>

\* Core::begin_game_request.
BeginGameRequest ==
    /\ ui = "claimed"
    /\ \/ /\ stopped \/ shown.busy \/ shown.requested
          /\ busy' = FALSE /\ ui' = "free" /\ asked' = None /\ UNCHANGED shown
       \/ /\ ~(stopped \/ shown.busy \/ shown.requested)
          /\ shown' = [shown EXCEPT !.busy = TRUE] /\ ui' = "accepted"
          /\ UNCHANGED <<busy, asked>>
    /\ UNCHANGED <<process, writing, stopped, queue, deferred, picker, pc, job, viewBusy,
                   session, tick, folder, world>>

Mark ==
    /\ ui = "accepted"
    /\ \/ /\ asked = "ChooseFolder"
          /\ picker' = TRUE /\ ui' = "free" /\ asked' = None /\ UNCHANGED writing
       \/ /\ asked # "ChooseFolder"
          /\ writing' = (writing \/ asked \in FileActions) /\ ui' = "marked"
          /\ UNCHANGED <<picker, asked>>
    /\ UNCHANGED <<process, busy, core, queue, deferred, pc, job, viewBusy, session, tick,
                   folder, world>>

\* Mutant of Send: a failed send leaves the writing flag behind.
SendKeepsFlag ==
    /\ ui = "marked" /\ ui' = "free" /\ asked' = None
    /\ \/ Room /\ Listening /\ queue' = Append(queue, asked) /\ UNCHANGED flags
       \/ ~(Room /\ Listening) /\ busy' = FALSE /\ UNCHANGED <<writing, queue>>
    /\ UNCHANGED <<process, core, deferred, picker, pc, job, viewBusy, session, tick, folder, world>>

\* try_send fails when the channel is full or the worker has gone.
Send ==
    /\ ui = "marked" /\ ui' = "free" /\ asked' = None
    /\ \/ Room /\ Listening /\ queue' = Append(queue, asked) /\ UNCHANGED flags
       \/ ~(Room /\ Listening) /\ busy' = FALSE /\ writing' = FALSE /\ UNCHANGED queue
    /\ UNCHANGED <<process, core, deferred, picker, pc, job, viewBusy, session, tick, folder, world>>

\* The dialog's callback waits for room in the channel.
Picked ==
    /\ picker /\ picker' = FALSE
    /\ \/ Listening /\ Room /\ queue' = Append(queue, "Picked")
       \/ ~Listening /\ UNCHANGED queue
    /\ UNCHANGED <<process, flags, core, ui, asked, deferred, pc, job, viewBusy, session,
                   tick, folder, world>>

\* A mod, package, sharing or update command; it is refused when the channel is full.
Command ==
    /\ Room /\ Listening /\ queue' = Append(queue, "Command")
    /\ UNCHANGED <<process, flags, core, main, pc, job, viewBusy, session, tick, folder, world>>

(***************************************************************************)
(* The close handler on the main thread                                    *)
(***************************************************************************)
CloseRequested ==
    /\ ui = "free" /\ window # "closed"
    /\ ui' = "closing" /\ deferred' = writing
    /\ UNCHANGED <<process, flags, core, queue, asked, picker, pc, job, viewBusy, session,
                   tick, folder, world>>

CloseDecided ==
    /\ ui = "closing" /\ ui' = "free" /\ deferred' = FALSE
    /\ window' = IF deferred THEN "waiting" ELSE "closed"
    /\ stopped' = TRUE
    /\ UNCHANGED <<exiting, flags, shown, queue, asked, picker, pc, job, viewBusy,
                   session, tick, folder, world>>

(***************************************************************************)
(* The worker's loop                                                       *)
(***************************************************************************)
Startup ==
    /\ pc = "start" /\ busy' = FALSE /\ pc' = "top"
    /\ UNCHANGED <<process, writing, core, queue, main, job, viewBusy, session, tick, folder, world>>

Top ==
    /\ pc = "top"
    /\ \/ stopped /\ pc' = "gone" /\ exiting' = (exiting \/ writing)
       \/ ~stopped /\ pc' = "observe" /\ UNCHANGED exiting
    /\ UNCHANGED <<window, flags, core, queue, main, job, viewBusy, session, tick, folder, world>>

\* Mutant of Recovers: only the first observation counts.
RecoversAtFirst == recovered = None /\ observed' = "Stopped" /\ pending

\* deployment::recover is called, and has something to do.
Recovers == observed' # recovered /\ observed' = "Stopped" /\ pending

Observe ==
    /\ pc = "observe" /\ observed' = game
    /\ pc' = IF Recovers THEN "recovering" ELSE "session"
    /\ \/ UNCHANGED shown
       \/ Publish(viewBusy, launch)      \* the last observation has expired
    /\ UNCHANGED <<process, flags, stopped, queue, main, job, viewBusy, session, recovered,
                   attempted, folder, world>>

Recover ==
    /\ pc = "recovering" /\ pc' = "session"
    /\ \/ game = "Stopped" /\ pending' = FALSE
       \/ (game # "Stopped" \/ Faults) /\ UNCHANGED pending
    /\ UNCHANGED <<process, flags, core, queue, main, job, viewBusy, session, tick, deployed, world>>

Changed == observed # recovered

\* backend::readiness: an interrupted deployment is an error.
Readiness == IF Changed THEN (IF pending THEN None ELSE deployed) ELSE prepared

ReadyPhase ==
    CASE Changed /\ pending -> "Failed"
      [] Changed /\ ~pending /\ observed = "Stopped" /\ ~requested /\ launch # "Failed" -> "Other"
      [] OTHER -> launch

\* The readiness check and Session::observe.
ObserveSession ==
    /\ pc = "session" /\ pc' = "decide" /\ prepared' = Readiness
    /\ \/ observed = "Running" /\ seen' = TRUE /\ launch' = "Other" /\ UNCHANGED requested
       \/ observed = "Stopped" /\ seen /\ seen' = FALSE /\ requested' = FALSE /\ launch' = "Other"
       \/ \* thirty seconds without a process
          /\ observed = "Stopped" /\ ~seen /\ requested
          /\ requested' = FALSE /\ launch' = "Failed" /\ UNCHANGED seen
       \/ /\ observed = "Unknown" \/ (observed = "Stopped" /\ ~seen)
          /\ launch' = ReadyPhase /\ UNCHANGED <<requested, seen>>
    /\ UNCHANGED <<process, flags, core, queue, main, job, viewBusy, tick, folder, world>>

EndTick == recovered' = observed /\ observed' = None /\ pc' = "update"

\* Mutant of Due: a launch that waits for its process does not hold it back.
DueDespiteLaunch == /\ prepared # revision \/ attempted = None
                    /\ observed = "Stopped" /\ attempted # revision

\* An automatic preparation is due, once for every saved revision.
Due == /\ prepared # revision \/ attempted = None
       /\ observed = "Stopped" /\ ~requested /\ attempted # revision

Decide ==
    /\ pc = "decide"
    /\ \/ /\ Due
          /\ attempted' = revision /\ writing' = TRUE /\ job' = "auto" /\ pc' = "prepare"
          /\ launch' = "Other" /\ Publish(viewBusy, launch')
          /\ UNCHANGED <<observed, recovered>>
       \/ ~Due /\ EndTick /\ UNCHANGED <<attempted, writing, job, launch, shown>>
    /\ UNCHANGED <<process, busy, stopped, queue, main, viewBusy, requested, seen, prepared,
                   folder, world>>

(***************************************************************************)
(* backend::prepare and backend::remove_runtime                            *)
(***************************************************************************)
\* The guard of every file change; preparations are cancelled by closing.
CanWrite == game = "Stopped" /\ ~(stopped /\ job # "RemoveRuntime")

Refuse ==
    /\ pc = "prepare" /\ (~CanWrite \/ Faults)
    /\ pending' \in {pending, pending /\ game # "Stopped"}
    /\ launch' = "Failed" /\ pc' = "release"
    /\ UNCHANGED <<process, flags, core, queue, main, job, viewBusy, requested, seen,
                   prepared, tick, deployed, world>>

Apply ==
    /\ pc = "prepare" /\ CanWrite
    /\ pending' = TRUE /\ pc' = "applying"
    /\ UNCHANGED <<process, flags, core, queue, main, job, viewBusy, session, tick, deployed, world>>

Applied ==
    /\ pc = "applying" /\ CanWrite
    /\ pending' = FALSE /\ deployed' = (IF job = "RemoveRuntime" THEN None ELSE revision)
    /\ pc' = "applied"
    /\ UNCHANGED <<process, flags, core, queue, main, job, viewBusy, session, tick, world>>

\* The rollback passes the same guard for every file it restores: it may fail too.
ApplyFails ==
    /\ pc = "applying" /\ (~CanWrite \/ Faults)
    /\ pending' \in BOOLEAN
    /\ launch' = "Failed" /\ pc' = "release"
    /\ UNCHANGED <<process, flags, core, queue, main, job, viewBusy, requested, seen,
                   prepared, tick, deployed, world>>

\* prepare_latest's dispatch, which closing cancels.
Dispatch ==
    /\ pc = "applied" /\ pc' = "release"
    /\ \/ /\ job = "RemoveRuntime"
          /\ prepared' = None /\ launch' = "Other" /\ UNCHANGED requested
       \/ /\ job \in {"auto", "Setup"} /\ ~stopped
          /\ prepared' = deployed /\ launch' = "Other" /\ UNCHANGED requested
       \/ /\ job = "Launch" /\ ~stopped /\ game = "Stopped"
          /\ prepared' = deployed /\ launch' = "Requested" /\ requested' = TRUE
       \/ /\ job # "RemoveRuntime"
          /\ stopped \/ (job = "Launch" /\ (game # "Stopped" \/ Faults))
          /\ launch' = "Failed" /\ UNCHANGED <<prepared, requested>>
    /\ UNCHANGED <<process, flags, core, queue, main, job, viewBusy, seen, tick, folder, world>>

\* Mutants of Release: every operation clears `busy`; a failed one does not.
ReleaseAlways ==
    /\ pc = "release" /\ pc' = "released"
    /\ writing' = FALSE /\ busy' = FALSE
    /\ UNCHANGED <<process, core, queue, main, job, viewBusy, session, tick, folder, world>>

ReleaseUnlessFailed ==
    /\ pc = "release" /\ pc' = "released"
    /\ writing' = FALSE /\ busy' = (busy /\ (job \in {"auto", "install"} \/ launch = "Failed"))
    /\ UNCHANGED <<process, core, queue, main, job, viewBusy, session, tick, folder, world>>

\* The flags are cleared; the automatic preparation and the update never held `busy`.
Release ==
    /\ pc = "release" /\ pc' = "released"
    /\ writing' = FALSE /\ busy' = (busy /\ job \in {"auto", "install"})
    /\ UNCHANGED <<process, core, queue, main, job, viewBusy, session, tick, folder, world>>

Released ==
    /\ pc = "released" /\ job' = None
    /\ exiting' = (exiting \/ stopped)
    /\ \/ job = "auto" /\ stopped /\ pc' = "gone" /\ UNCHANGED <<observed, recovered>>
       \/ job = "auto" /\ ~stopped /\ EndTick
       \/ job = "install" /\ pc' = "load" /\ UNCHANGED <<observed, recovered>>
       \/ job \in FileActions /\ pc' = "top" /\ UNCHANGED <<observed, recovered>>
    /\ UNCHANGED <<window, flags, core, queue, main, viewBusy, session, attempted,
                   folder, world>>

(***************************************************************************)
(* update_tick, and the rest of a turn of the loop                         *)
(***************************************************************************)
\* Package work and the local watcher may put an installation off.
UpdateTick ==
    /\ pc = "update"
    /\ \/ stopped /\ installer' = FALSE /\ pc' = "load" /\ UNCHANGED <<writing, job>>
       \/ ~stopped /\ pc' = "load" /\ UNCHANGED <<installer, writing, job>>
       \/ /\ ~stopped /\ installer /\ ~busy /\ ~requested /\ game = "Stopped"
          /\ writing' = TRUE /\ job' = "install" /\ pc' = "install" /\ UNCHANGED installer
    /\ UNCHANGED <<process, busy, core, queue, main, viewBusy, session, tick, folder, revision, game>>

InstallRefused ==
    /\ pc = "install"
    /\ \/ (Faults \/ stopped \/ game # "Stopped") /\ UNCHANGED installer
       \/ Faults /\ ~stopped /\ game = "Stopped" /\ installer' = FALSE
    /\ pc' = "release"
    /\ UNCHANGED <<process, flags, core, queue, main, job, viewBusy, session, tick, folder,
                   revision, game>>

Load ==
    /\ pc = "load" /\ viewBusy' = busy /\ pc' = "publish"
    /\ UNCHANGED <<process, flags, core, queue, main, job, session, tick, folder, world>>

PublishView ==
    /\ pc = "publish" /\ Publish(viewBusy, launch) /\ pc' = "receive"
    /\ UNCHANGED <<process, flags, stopped, queue, main, job, viewBusy, session, tick, folder, world>>

Timeout ==
    /\ pc = "receive" /\ queue = <<>> /\ pc' = "top"
    /\ UNCHANGED <<process, flags, core, queue, main, job, viewBusy, session, tick, folder, world>>

(***************************************************************************)
(* Worker::handle                                                          *)
(***************************************************************************)
HandleCommand ==
    /\ pc = "receive" /\ queue # <<>> /\ Head(queue) = "Command"
    /\ queue' = Tail(queue) /\ pc' = "top"
    /\ \/ ~stopped /\ revision < MaxRevision /\ revision' = revision + 1
       \/ UNCHANGED revision
    /\ UNCHANGED <<process, flags, core, main, job, viewBusy, session, tick, folder, installer, game>>

HandleGame ==
    /\ pc = "receive" /\ queue # <<>> /\ Head(queue) \in GameRequests
    /\ queue' = Tail(queue) /\ job' = Head(queue) /\ pc' = "handle"
    /\ recovered' = None /\ viewBusy' = TRUE
    /\ launch' = (IF job' \in FileActions THEN "Other" ELSE launch)
    /\ Publish(TRUE, launch')
    /\ UNCHANGED <<process, flags, stopped, main, requested, seen, prepared, observed,
                   attempted, folder, world>>

HandleFiles ==
    /\ pc = "handle" /\ job \in FileActions
    /\ \/ (stopped \/ requested) /\ launch' = "Failed" /\ pc' = "release"
       \/ ~(stopped \/ requested) /\ pc' = "prepare" /\ UNCHANGED launch
    /\ UNCHANGED <<process, flags, core, queue, main, job, viewBusy, requested, seen,
                   prepared, tick, folder, world>>

\* Select and Picked save the game selection; a failing one, a cancelled dialog and
\* Discover change nothing here.
HandleSelect ==
    /\ pc = "handle" /\ job \in {"Select", "Picked"}
    /\ busy' = FALSE /\ job' = None /\ pc' = "top"
    /\ \/ /\ revision < MaxRevision /\ revision' = revision + 1
          /\ attempted' = None /\ launch' = "Other" /\ requested' = FALSE /\ seen' = FALSE
       \/ UNCHANGED <<revision, attempted, launch, requested, seen>>
    /\ UNCHANGED <<process, writing, core, queue, main, viewBusy, prepared, observed,
                   recovered, folder, installer, game>>

(***************************************************************************)
(* The process and the game                                                *)
(***************************************************************************)
\* What is saved survives the process; the rest starts afresh.
End ==
    /\ Alive /\ exiting' = FALSE /\ window' = "closed" /\ busy' = TRUE
    /\ writing' = FALSE /\ stopped' = FALSE /\ queue' = <<>>
    /\ shown' = [busy |-> FALSE, requested |-> FALSE]
    /\ ui' = "free" /\ asked' = None /\ deferred' = FALSE /\ picker' = FALSE
    /\ pc' = "dead" /\ job' = None /\ viewBusy' = FALSE
    /\ launch' = "Other" /\ requested' = FALSE /\ seen' = FALSE /\ prepared' = None
    /\ observed' = None /\ recovered' = None /\ attempted' = None /\ installer' = FALSE
    /\ UNCHANGED <<folder, revision, game>>

\* The window has closed, AppHandle::exit took effect, or the process was killed.
ProcessEnds == (exiting \/ window = "closed") /\ End
Killed == Faults /\ End

\* The installer takes over from the process.
InstallUpdate == pc = "install" /\ ~stopped /\ game = "Stopped" /\ End

Restart ==
    /\ pc = "dead" /\ pc' = "start" /\ window' = "open"
    /\ UNCHANGED <<exiting, flags, core, queue, main, job, viewBusy, session, tick, folder, world>>

UpdateDownloaded ==
    /\ Alive /\ MayUpdate /\ ~installer /\ installer' = TRUE
    /\ UNCHANGED <<process, flags, core, queue, main, pc, job, viewBusy, session, tick,
                   folder, revision, game>>

GameChanges ==
    /\ game' \in Observations \ {game}
    /\ UNCHANGED <<process, flags, core, queue, main, pc, job, viewBusy, session, tick,
                   folder, installer, revision>>

\* What the main thread has begun.
Main == BeginGameRequest \/ Mark \/ Send \/ CloseDecided

Worker ==
    \/ Startup \/ Top \/ Observe \/ Recover \/ ObserveSession \/ Decide
    \/ Refuse \/ Apply \/ Applied \/ ApplyFails \/ Dispatch \/ Release \/ Released
    \/ UpdateTick \/ InstallRefused \/ InstallUpdate \/ Load \/ PublishView \/ Timeout
    \/ HandleCommand \/ HandleGame \/ HandleFiles \/ HandleSelect

User == (\E a \in Actions : Claim(a)) \/ Picked \/ Command \/ CloseRequested

Environment == ProcessEnds \/ Killed \/ Restart \/ UpdateDownloaded \/ GameChanges

Next == Main \/ Worker \/ User \/ Environment

Spec == Init /\ [][Next]_vars

\* Threads that can run do run, and a process that was told to end ends.
FairSpec == Spec /\ WF_vars(Main) /\ WF_vars(Worker) /\ WF_vars(ProcessEnds)

-----------------------------------------------------------------------------
WindowOK ==
    /\ exiting \in BOOLEAN /\ window \in {"open", "waiting", "closed"}
    /\ busy \in BOOLEAN /\ writing \in BOOLEAN /\ stopped \in BOOLEAN
    /\ shown \in [busy : BOOLEAN, requested : BOOLEAN]
    /\ deferred \in BOOLEAN /\ picker \in BOOLEAN

RequestOK ==
    /\ ui \in {"free", "claimed", "accepted", "marked", "closing"}
    /\ asked \in Actions \cup {None} /\ (asked # None <=> ui \in {"claimed", "accepted", "marked"})

ChannelOK == queue \in Seq(GameRequests \cup {"Command"}) /\ Len(queue) <= Capacity

WorkerOK ==
    /\ pc \in {"start", "top", "observe", "recovering", "session", "decide", "prepare",
               "applying", "applied", "release", "released", "update", "install", "load",
               "publish", "receive", "handle", "gone", "dead"}
    /\ job \in GameRequests \cup {"auto", "install", None}
    /\ viewBusy \in BOOLEAN /\ launch \in {"Other", "Requested", "Failed"}
    /\ requested \in BOOLEAN /\ seen \in BOOLEAN /\ installer \in BOOLEAN /\ pending \in BOOLEAN

RevisionsOK ==
    /\ revision \in 0..MaxRevision /\ {prepared, attempted, deployed} \subseteq 0..MaxRevision \cup {None}
    /\ game \in Observations /\ {observed, recovered} \subseteq Observations \cup {None}

TypeOK == WindowOK /\ RequestOK /\ ChannelOK /\ WorkerOK /\ RevisionsOK

\* Who may have a game request that is still to be answered: the main thread in
\* request(), the folder dialog, the worker, and the slots of the channel.
Holders == {<<"main", 0>>, <<"dialog", 0>>, <<"worker", 0>>}
           \cup {<<"channel", i>> : i \in 1..Len(queue)}

Holds(h) ==
    CASE h[1] = "main" -> ui \in {"claimed", "accepted", "marked"}
      [] h[1] = "dialog" -> picker
      [] h[1] = "worker" -> job \in GameRequests /\ pc # "released"
      [] h[1] = "channel" -> queue[h[2]] \in GameRequests

OpenRequests == {h \in Holders : Holds(h)}

\* `busy` is set exactly while one game request is open, and there are never two: neither
\* a refusal, the dialog, a full channel, an automatic preparation that overlaps a request
\* nor an installation may lose or duplicate the claim (game_service.rs:249).
OneGameRequest ==
    Listening /\ pc # "start" =>
        /\ busy <=> OpenRequests # {}
        /\ \A g, h \in OpenRequests : g = h

\* What the flag that keeps the window open is for: a file request on its way, or the worker
\* at the files.
WritesAhead ==
    \/ ui = "marked" /\ asked \in FileActions
    \/ \E i \in 1..Len(queue) : queue[i] \in FileActions
    \/ job \in FileActions \cup {"auto", "install"} /\ pc # "released"

\* A flag left behind would keep the window open for nothing (worker.rs:403,
\* game_service.rs:299).
WritingHasReason == writing => WritesAhead

\* What takes the flag from work that is still ahead: the end of an automatic preparation or
\* of an update, and a request that is refused while one runs (worker.rs:403,
\* game_service.rs:299).
TakesFlag == job \in {"auto", "install"} /\ (pc = "release" \/ ui = "marked")

\* Work begins with the flag set and keeps it: only TakesFlag leaves it without, and it
\* then stays without until more work begins.  What the worker no longer takes is no work.
FlagIsKept ==
    [][WritesAhead' /\ Listening' => writing' \/ (WritesAhead /\ ~writing) \/ TakesFlag]_vars

\* Of the two flags the threads share, `busy` says what is so at every step of either;
\* `writing` is never set without a reason, and where there is a reason it is missing only
\* after the end of an automatic preparation or update, or a refused request, took it.
FlagsAreTrue == []OneGameRequest /\ []WritingHasReason /\ FlagIsKept

\* Between a launch and the moment its process was seen to end (or never came), no
\* operation changes the setup that was launched, even if the setup was edited or another
\* request got through (requests.rs:204, worker.rs:380).
LaunchedSetupStays == [][requested /\ requested' => UNCHANGED folder]_vars

\* Every request the worker can still take is answered, and its claim given back, unless
\* the folder dialog stays open or Starframe closes.
RequestsAreAnswered ==
    busy ~> (~busy \/ picker \/ stopped \/ ~Alive)

\* An interrupted deployment is recovered by the turn of the loop that observes a stopped
\* game after a turn that did not, or after a game request (worker.rs:290).
RecoveryIsRetried ==
    (pc = "top" /\ pending /\ recovered # "Stopped")
        ~> (~pending \/ game # "Stopped" \/ stopped \/ ~Alive)

-----------------------------------------------------------------------------
(***************************************************************************)
(* The inductive invariant behind the safety properties.                   *)
(***************************************************************************)
\* The worker has a job exactly while it is inside one.
JobInv ==
    /\ job = None <=> pc \notin {"prepare", "applying", "applied", "release", "released",
                                 "install", "handle"}
    /\ pc \in {"prepare", "applying", "applied"} => job \in FileActions \cup {"auto"}
    /\ pc \in {"release", "released"} => job \in FileActions \cup {"auto", "install"}
    /\ pc = "install" => job = "install"
    /\ pc = "handle" => job \in GameRequests

\* A process begins with the claim taken and nothing open.
StartInv ==
    pc \in {"start", "dead"} =>
        /\ busy /\ ui \in {"free", "closing"} /\ ~picker
        /\ \A i \in 1..Len(queue) : queue[i] \notin GameRequests

MarkedInv == ui = "marked" => asked # "ChooseFolder"

\* A launch follows a finished deployment, and none is begun before it is resolved.
RequestedInv ==
    /\ requested => ~pending /\ pc \notin {"prepare", "applying", "applied"}
    /\ pc = "applied" => ~pending

IInv == TypeOK /\ JobInv /\ StartInv /\ MarkedInv /\ RequestedInv
        /\ OneGameRequest /\ WritingHasReason
=============================================================================
