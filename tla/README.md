# Starframe: TLA+ models, checks and proofs

Starframe is a desktop application (Tauri, Rust) that manages mods for one game. It
keeps a library and collections in SQLite, downloads signed releases from a registry,
prepares packages, and switches files in the game's folder while the game is closed. An
in-game runtime (C#, BepInEx) then loads what was deployed. This directory models the
parts whose order of steps matters. Paths below are relative to the repository; Rust files
are under `src-tauri/src/`.

## Inventory

| component | state | operations | what is hard |
|---|---|---|---|
| **Deployment journal** (`deployment.rs`, `deployment/content.rs`) | game folder; record of owned files, pending journal and retained contents in SQLite | install / prepare_desktop, recover, remove, repair_missing, all through `Engine::replace` and `rollback` | crash between any two steps, failing calls, other programs in the folder, the game starting, closing |
| **Game service** (`game_service.rs`, `game_service/worker.rs`, `requests.rs`, `main.rs`) | bounded channel, `busy`, `writing`, `stopped`, the worker's session and observations | game requests, window close, the worker's turn: recover, observe, prepare automatically, update, receive | two threads over two atomics and a mutex; closing; a game that comes and goes |
| **Launch session** (`launch.rs`, `session.rs`, `windows_game.rs`) | requested, seen, wait | prepare_latest, dispatch, observe, report | 30 s and 60 s timeouts, unknown observations |
| **Application core** (`app.rs`, `src/lib/state.ts`) | operations, request ids, snapshot revision, one subscriber | start, cancel, advance, watch, publish | repeated requests, cancellation against completion, snapshot order |
| **Library and collections** (`mods.rs`, `storage/mods.rs`, `selection.rs`) | library, collections, pending removals, one global revision | edits, uninstall, cleanup | edits against a stale revision, cleanup against imports |
| **Storage** (`storage.rs`) | data directory, lock, markers, backups | open, migrate, backup, restore | crash at every rename |
| **Package queue** (`packages.rs`, `packages/local.rs`, `storage/packages.rs`) | three slots, workers, saved operations, artifacts | start, cancel, poll, promote | cancel against completion, restart |
| **Local watcher** (`packages/watch.rs`, `storage/local_import.rs`) | watched sources, one thread | copy, complete, stop | completion against uninstall |
| **Registry downloads** (`packages/registry.rs`, `registry/transport.rs`) | rows, active operations, claims, receipts, archives, stages | begin, transfer, install, receipt, cancel, sign out | several storage calls per event, each may fail |
| **Registry trust** (`registry/trust.rs`, `storage/registry.rs`) | accepted keys, security and release streams, decisions | accept, decide | rollback, equal-revision conflict, expiry |
| **Website session** (`auth_service.rs`, `registry/auth.rs`, `registry/credential.rs`, `src/lib/auth.ts`) | token in memory and in the vault, challenge, cancellation channel, the interface's store | restore, sign in, poll, cancel, sign out, lease for a request | late answers, failing vault calls, channels that are replaced |
| **Ordering** (`ordering.rs`, `ordering/*.rs`, `selection.rs`, `registry/dependencies.rs`, `registry/activation.rs`) | none | resolve releases, locals, mixed; write the activation document | cycles, ties, versions, two resolvers that must agree |
| **Sharing** (`sharing.rs`) | imports and their items | import, poll, finish | partial results |
| **Updates** (`updates.rs`, `game_service/updates.rs`) | preferences, schedule, download, ready installer | check, download, install, channel | late answers of another channel, hand-over against game and close |
| **Maintenance uninstall** (`maintenance.rs`) | the data folder and the game folder | restore the game, remove the data | interruption between any two removals |
| **In-game runtime** (`runtime/`) | activation report, settings | activate, persist | one mod's failure, write order |
| **Formats** (archives, manifests, discovery) | none | parse | input shape only: left to unit and fuzz tests |

How they interact: the interface sends commands to the main thread; `GameService` puts
them into a channel of eight; one worker owns storage, packages, the watcher and the
game folder and publishes views into `Core` under its mutex; `Core` sends snapshots to
the interface. Package, registry and update work run on further threads that report
through channels the worker polls once per turn. The game is only observed.

What makes each component correct, in a sentence: the folder is always explained by the
record; no file Starframe does not own is destroyed; an interrupted deployment can be
finished or taken back; at most one game request is open and each is answered; a close
neither kills a write nor hangs; a collection never refers to an artifact that is gone;
each package operation ends in one saved state; no accepted trust document is rolled
back; the interface never goes back in time; the order respects every constraint.

## Modules

| module | models |
|---|---|
| `Deployment` | one game folder and its record: every operation of `deployment.rs` |
| `AtomicDeployment` | what a deployment promises: the folder switches in one step |
| `DeploymentRecovery` | Deployment in a world that calms down (for liveness) |
| `GameService` | main thread, worker, flags, channel, closing, the game |
| `LaunchSession` | what the worker says of game and setup: observation, readiness, launch, timeout, reports |
| `DesktopCore` | snapshots, the subscriber, diagnostics, request ids, cancellation (`app.rs`) |
| `DesktopState` | the interface that connects, starts, retries and cancels (`state.ts`), with `DesktopCore` |
| `Library` | library, collections, uninstall and cleanup, local imports, the watcher of local sources |
| `RegistryTrust` | signed keys, snapshots and releases; retained decisions; the approval behind a download |
| `RegistryQueue` | registry downloads and installations, their rows, claims, stages and artifacts |
| `RegistryTransfer` | one archive transfer: grants, ranges, restarts, verification |
| `WebsiteSession` | sign-in, session and vault, cancellation channels, the interface's store |
| `OnlineDownload` | `WebsiteSession` with a `RegistryTransfer` under its lease |
| `Dependencies` | version precedence and constraints (pure operators) |
| `Traversal` | the search for a cycle and the topological order every resolver uses |
| `LoadOrder` | the three resolvers one after the other and the activation document, over `Traversal` and `Dependencies` |
| `Activation` | the activation session of the runtime, over the document of `LoadOrder` |
| `StorageOpen` | creation, migration, opening and removal of the saved data, two processes |
| `Updates` | the program's updates over the life of its data (`StorageOpen`) |
| `DeploymentProofs`, `GameServiceProofs`, `LaunchProofs`, `LibraryProofs`, `RegistryQueueProofs` | theorems about the module each is named for |
| `RegistryProofs` | theorems about `OnlineDownload` and, apart from it, about `RegistryTrust` |
| `ActivationProofs` | theorems about `Traversal`, `LoadOrder` and `Activation`, which build on each other |
| `ApplicationProofs` | theorems about `DesktopState` and, apart from it, about `StorageOpen` and `Updates` |
| `MC*` | values of the constants for TLC |

Three chains are composed: `Traversal`, `Dependencies` -> `LoadOrder` -> `Activation` (from
the player's sequence to the calls of the game), `WebsiteSession`, `RegistryTransfer` ->
`OnlineDownload`, and `StorageOpen` -> `Updates`; and the interface `DesktopState` acts on
`DesktopCore`. The others meet where one names the result of the other: `RegistryQueue`
asks for an approval (`RegistryTrust`) and a transfer (`RegistryTransfer`) and takes any
answer of theirs; `GameService` and `LaunchSession` open and close one journal and leave
how to `Deployment`.

### Deployment

A `Files` value is the code's map from path to hash, made total with `Absent`; a content
stands for its SHA-256. `disk` is the folder. `owned`, `pending`, `next` and `borrowed`
are the saved record and its journal; `retained` the contents kept for a rollback.
`pc` names the step of the operation `op` that runs next:

    open -> plan -> journal -> open' -> (check -> stage -> recheck -> swap)* -> verify -> commit
            any refusal while journalled -> rollback: the same loop backwards -> commit

One action is what happens between two places where another actor can interfere. In
`Engine::replace` these are: the digest check and the writing of the sibling temporary
file (`Stage`), the second digest check (`Recheck`) and the rename or removal (`Swap`);
`Edit` may run between any of them, which is the race the code narrows and cannot close.
`Guard` is `guard_game`, with the cancellation that `prepare_desktop` adds.

The environment: `Crash` loses everything but the disk and SQLite; `Fault` fails a call;
`GameStarts`, `GameStops`; `Edit` is another program writing or removing a file in
`Editable`; `Close` sets `Core::stopped`. Variables marked auxiliary only record history
for the properties: `user` (the folder before), `touched`, `raced`, `overrun`.

Abstractions. Paths are visited in any order, where the code goes in sorted order one way
and reversed the other. The verification loops are one step each. Temporary files have
names of their own and are not tracked. "Running" stands for running or unknown: the
guard treats them alike. Power loss (writes reordered by the disk) is not modelled.

### GameService

`ui` is where the main thread stands in `request()` or the close handler, `pc` where the
worker stands in its loop. The atomics are single accesses and each access another
thread can observe is an action of its own: the handler's read of `writing` and its
write of `stopped` are `CloseRequested` and `CloseDecided`; the worker's clearing of the
flags and its look at `stopped` are `Release` and `Released`. Commands are synchronous,
so request and close handler share the main thread and never overlap. (`Release` clears
both flags in one step, and `Mark` publishes nothing in between.)

A deployment is here one journal: `Apply` opens it, `Applied` or `ApplyFails` ends it.
`job` tells whether the automatic preparation, a request or an update is at work.
`recovered`, `attempted` and `seen` are `recovery_observation`, `last_auto_attempt` and
`Session::seen`. The timeout of a launch may happen at any turn that meets its
condition. Mod, package and sharing commands are one action that may save a revision.
`End` is any end of the process: what is saved survives.

### LaunchSession

One turn of the worker is `Observe`, `Recover`, `Readiness`, `ObserveSession`,
`AutoPrepare` (`pc` goes around); a preparation continues with `repair`, `guard`, `switch`
and `dispatch`. `observed` is `Observation` (game running, its process), `recovery` is
`recovery_observation`; `seen`, `requested` and `prepared` are the fields of `Session`;
`phase` is `view.launch.phase`. `recorded` and `pending` are what `prepared_activation`
reads of the deployment's record. A start of the game is a process id and the time it
began at (`start`); `report` is the report file, which names both and the setup.

The environment starts and ends the game (`GameStarts` at any time, by hand or as the
answer to a launch), loses an accepted launch (`LaunchIsLost`), writes the report when the
runtime activated (`GameActivates`: of a mixture, either setup), and restarts Starframe
anywhere. `activated` is auxiliary: what each start reported. Left out: the hint after 60
seconds without a report, and the second round of `prepare_latest`, which asks whether the
setup changed meanwhile: in the desktop one thread does both.

### DesktopCore and DesktopState

A snapshot is a complete copy of the state, so a message is the revision it carries, and
`operations` and `diagnostics` say what each revision showed. `Watch` replaces the
subscriber and sends, `Publish` sends and drops a subscriber whose channel fails,
`Heartbeat` sends the present revision again. A diagnostic has a thread (`workers`) that
advances one operation per `Advance`; cancelling is a state the thread has to see.

`DesktopState` keeps `generation` (of the connection), `own` (the last revision of this
connection), `shown`, `pendingStart` and `awaiting`. `Connect` replaces the connection at
the start, by hand (up to `MaxByHand`), or because it is `Silent`: six seconds without a
message that counts. An old `watch` call that arrives after a new one makes its channel the
subscriber; the interface drops what comes there, and hears nothing until the next
connection. `LatestIsShown` needs that one, so the bound keeps a third for it. Calls and answers are under way for
any time and may overtake; the messages of one channel keep their order, which Tauri
promises. `settled` is auxiliary. Left out: a reload of the page, the other commands (one
`OtherChange` of the state) and the list `cancelling`, for which stand the calls under way.

### Library

The saved records are the tables of the same names: `source` is `library` joined with
`local_sources` (a build is in the library when it has a source path), `watch` is
`local_watches`, `inventory` is `prepared_artifacts`, `removals` is `pending_removals`.
`files` is the folder `artifacts/<hash>`: absent, complete, or partial while cleanup
removes file by file. A build stands for its hash, which covers its metadata; so `ModOf`
is a function of the build.

`at` is where the worker stands. Uninstall is one transaction followed by cleanup in the
same request; cleanup visits each pending removal, removes its files, then its records
(`CleanNext`, `RemoveFiles`, `FinishRemoval`), and the threads and the end of the process
come between any two of these steps. Everything else the worker does is one step between
two of its turns (`Ready`): the saved records change in one transaction, or in one that
only ends an operation.

`run[r]` is the operation in slot `r` with its thread: an import reads the source,
learns the build, and puts it into place (`CopySource`, `PutImport`); a verification
knows its build. `CollectImport` is `Packages::poll`. `Slots` has three elements in the
code. The watcher's thread (`wpc`, `known`, `scan`) is fed through a channel of one
(`input`) and answers through another (`event`). Developers write sources at any time,
so what a scan finds is any build, and its two readings and the copy are one step.
`fresh` says that the window's view has the saved revision: an edit needs it, every
saved change takes it away, a view gives it back.

`overtaken` is auxiliary: builds removed after the watcher had verified them and before
its answer was taken. `FilesExplained` excepts just these: `complete_watch` asks only whether
the source is still watched (see "Seen and not given a run").

Abstractions: entries of registry mods, dependencies between local builds and the order
(`resolve_mixed` may refuse a rebuild: then nothing is committed) are left out; so are
times, the states shown for a watched source, the events that only carry such a state,
repeated request ids and staging folders. Completed, failed and cancelled operations are
all "over". Verification of an artifact is one step; a removal in its middle has the
effect of one after it.

### RegistryTrust

A document is a record of its stream, revision, payload, time and key. `keyset`,
`security`, `manifest` are the saved streams, `decisions` the table of retained decisions.
`AcceptKeys`, `AcceptSecurity`, `AcceptRelease` are the whole of each handler: signature
(taken as sound), freshness, `check_stream`, and `save_decision` for every archive.
`Begin` and `Commit` are the start of a download and `confirm_registry_download`, with
the identity of the approval in between. What the registry signs (`signed`) is a careful
history or, as after the misuse of a key, everything the constants name; the properties
that need a careful registry say so (`Consistent`). The clock moves both ways. Parsing is
left out.

### RegistryQueue

`row` is the saved operation, `claims` the receipt claims, `active` the operations the
process works on, with the step their worker is at and the result it sent. A worker
(`CachedDone`, `TransferDone`, `PromoteDone`, `ReceiptDone`, `InstallDone`, `VerifyDone`)
and the collection of its result (`Poll...`) are steps of their own, as in
`poll_registry`; each storage call may fail at the place it is made, which drops the
operation (`lost`) where the code returns through `?`. `Restart` applies what `packages.rs`
does to saved rows and stages at its start; the workers' folders are what is on disk.

### WebsiteSession, RegistryTransfer, OnlineDownload

`calls` are the commands of `auth_service.rs`: each waits for the asynchronous lock, holds
it over its request, and answers the interface at any later time. `current` and `stopped`
are the watch channels: `Receiver` opens a new one when the present one was set, as
`subscribe` does. `saved` is the vault, `credential` the session, `server` what the website
knows of each token. The interface's `generation` and `timer` are those of `auth.ts`.

`RegistryTransfer` is `download_with_renewal`: up to three grants, each a request for the
rest of the file, with every answer a server can give. The file is a sequence of blocks;
the last block may still be on its way to the disk when its length is asked for
(`ShownLength`), since tokio writes in the background. `OnlineDownload` gives a transfer
the lease of a session and the channel both watch. It bounds the commands beside a transfer
to a sign-out.

### Traversal, Dependencies, LoadOrder, Activation

`Traversal` has one action per turn of the loops of `find_cycle` and `order`; the entries
are positions of the requested sequence. `LoadOrder` runs the mixed resolver, then the
resolvers of releases and of local builds on its result, as `selection::requested` does,
and `WriteDocument` is the activation document. `given` is one installation: builds, rules,
dependencies, versions, and a requested sequence. `Dependencies` compares versions part by
part; numbers and words of a prerelease are given by their places. `Activation` verifies,
prepares, activates and shuts down, with mods that fail in each phase. A failing code mod
does not reach those that need it through a content release (`ARCHITECTURE.md:373` does
not say): `LoadedHasRequirements` asks of activated mods. `Dependency.suggest` is left out.
Of `activation::requested` the resolution and the order are modelled; its look at blocked
archives, the checks of each file and the limit of the document's size are not, so
`PartsResolve` speaks of the former only.

### StorageOpen and Updates

A database is its version, its rows and whether it records game files. `staging`, `active`
and `backup` are the folders of `storage.rs`, each with what has been written of it; the
steps of a creation, of a migration and of a removal are single file operations, and
`Stop` ends either process between any two. `installed` is the build in the program folder,
`build[p]` the one a process runs. `Updates` adds the worker's loop for updates: phases,
schedule, `hold` after a refusal, jobs with their late results, the verified installer
(`ready`), the pause of the local watcher, and the hand-over, after which another build
opens the data. Feeds publish what they like. Left out: "later", the dismissed version,
opening the release page; older staging folders, which nobody reads; backups but the
newest; a `state.db` of an older format without `sqlite` next to it.

## Runs

| run | shows | bounds and why they are enough |
|---|---|---|
| `deploy_edits` | the record accounts for every untouched path, at most one file changes after a game start, only content the record names is destroyed | three paths, two contents, two setups that share one file and differ in the others: every kind of change (add, replace, remove, borrow, conflict) occurs; every path editable, closing possible |
| `deploy_recovers` | Deployment implements AtomicDeployment; every operation returns; once the world is calm, recovery clears the journal | the same setups, with a file of the player's own; interruptions are unlimited, closing is possible |
| `service_safety` | `busy` is the claim of exactly one open request; `writing` is never set without a file request or work ahead, and such work is without it only after the end of an automatic preparation or update, or a request refused beside one, took it; the setup of a launch is not changed under it | every action, one channel slot (free and full), two revisions, three observations, failures, updates, crashes |
| `service_answers` | every request is answered; a turn that sees the game close retries the journal | setup requests, one slot, two revisions |
| `library_safety` | library, artifact records, files and operations agree; a cancelled import is not committed; an accepted edit saw what is saved | two builds of one mod from one source, so that a rebuild replaces a build and an older build comes back; one collection; one import or verification at a time; ends of the process anywhere; builds are symmetric (no liveness is checked) |
| `registry_trust` | the newest decision is kept, a block ends only by a newer clear, a commit rests on one snapshot, and what was saved never stands in the way of the newest documents of a registry that signs consistently | two archives, two releases, three approvals, two keys; documents with gaps, repeats and conflicts at one revision; a clock of four instants |
| `registry_queue` | rows, claims, stages and artifacts say what is so; only wanted downloads are installed; operations end | two operations on two archives with slots for both, one failing storage call at any place, one restart, a repeated request |
| `online_download` | the session in use is the saved one; what is shown changes only by the player and by answers to the last action, as that action may change it; a challenge that is over becomes no session; a stop reaches everything and takes effect; a verified file is the approved one | two commands under way, two tokens, three generations, one restart, one failing vault call; two blocks, two grants (a first and a renewed one), resumed and started over |
| `load_order` | the order shown is the best one that keeps every rule, a refusal has a cause, the parts resolve to the same order, mods are loaded after and stopped before what they need | every graph of seven edge rules over three local builds with every sequence and wishes against it; every interval over eight version labels; mixed selections of three releases and two locals with every subset of four needs; two faults |
| `data_and_updates` | records outlive the files in the game folder, a process works on its own version, committed data and their backup survive, offers are current, hand-overs go forward or end | builds 1 to 3 with rising data versions, a preview channel, feeds {2} and {2, 3}, one edit, one unit between checks, no doubling of the back-off (`MaxBackoff` 0), a wait of one; every interruption |
| `launch` | a confirmation is of this run and setup, "ready" is true, only the saved setup is launched, a launch and the end of a game are noticed | one saved edit, two starts of the game under one process id, a launch that may wait one unit, one failed observation; restarts without limit |
| `desktop_state` | a retry runs once, the interface never goes back and ends at the latest state, cancelled diagnostics end cancelled | two clicks with two request ids, two lanes of one step, three connections (two may be opened while another works, the third replaces a silent one, and the application closes during the first if at all), one other change, one failing send, one cancellation, two calls under way; the limit of remembered ids is not reached with two |

The properties above are often conjunctions of named parts (`RowsAreTrue` is
`UnfinishedIsActive /\ CompletedIsInstalled /\ StagesExplained`); the parts are stated
next to each other with the code they are about. Where several parts can break on their
own, the property has more than one mutant.

The type invariants of Deployment, GameService, LaunchSession, Library, RegistryTrust,
RegistryQueue, Traversal and DesktopState are theorems, and no run repeats them; so are
`BackupsRetained`, `StreamsOnlyAdvance` and `StoppedNeverBlocks`; the types of the website
session and of the saved data are parts of the inductive invariants `SessionInv` and
`StorageInv`. Those of the other modules describe their variables; adding
`INVARIANT TypeOK` to a run's configuration checks them.

Named bounds: `MaxRevision` (saved revisions; two tell "this one" from "another"),
`Capacity` (eight in the code; full and not full are what matters), `overrun` counts to
two, which is enough to tell one file from more; `MaxFaults`, `MaxRestarts`,
`MaxGenerations`, `MaxGrants`, `MaxEdits`, `MaxRuns`, `MaxUnknown`, `LaunchTimeout`,
`MaxBackoff`, `MaxRetry`, `MaxClicks`, `MaxChannels`, `MaxByHand`, `MaxUnderWay`, `MaxCancels`,
`MaxFailures` count what their comments say.

Deadlock is checked where the system can always be asked for something. It is not checked
where it may stop: `registry_trust` (the documents are finite), `registry_queue` and
`online_download` (requests, restarts and generations are), `load_order` (a session ends),
`desktop_state` (the application closes).

### Fairness

Deployment: the worker continues the operation it has begun (it is one thread that waits
for nobody), the player closes the game in the end, and recovery is attempted again and
again, which is what the next start, the next observed exit and the next setup do.
Crashes, failures and edits stop at an unknown moment (`settled`); without that no recovery
could be promised.

GameService: the worker, the call the main thread is in and a process that was told to
end continue (weak fairness). Nothing is assumed of the player, the game, the dialog or
the killing of the process.

RegistryQueue: worker threads end and the storage worker polls, since both have nothing to
wait for but, in a transfer, the server, of which nothing is assumed (`Ends`: a transfer
ends for certain only once it is aborted).
OnlineDownload: the client's side of a transfer continues whenever it can, a stop included;
nothing is assumed of the server. Updates: the local watcher's thread ends when told to, and
the worker's loop comes round. LaunchSession: the worker's thread runs, and time passes;
nothing of the game. DesktopState: calls and messages arrive, threads run, the heartbeat
beats, and a connection that stays silent is replaced (`state.ts` sets timers for it).

### Seen and not given a run

What the code does and a document or message may not lead one to expect. No property that
holds can cover these; the models contain them.

* `repair_missing` rolls back first (`deployment.rs:622`) and the rollback insists on all
  owned files (331-337): a deleted file and an open journal block each other, although
  `deployment.rs:617` sets out to recreate missing files.
* The closure given as guard (`deployment.rs:734`) answers "closing" to the rollback too:
  the journal stays open until the next start (`ARCHITECTURE.md:349`).
* The close handler reads `writing` (`main.rs:106`) before it writes `stopped` (114); the
  worker clears the one and looks at the other in between (`worker.rs:403-404`, `104-108`):
  the window says it waits, and a second click closes it.
* An automatic preparation or an update holds `writing` but not `busy`; a setup asked for
  meanwhile sets `writing` too, the end of the first clears it (`worker.rs:403`), and the
  setup runs without it. A request that finds the channel full clears it as well
  (`game_service.rs:299`), and the preparation goes on without it. `FlagsAreTrue` says that
  nothing else takes the flag from work ahead; that these do is what the code does.
* A cancel sets the channel and then waits for the lock. An exchange that was already
  answered under the lock still saves a session (`registry/auth.rs:327`), while the interface
  says signed out; the next start is then refused for a session nobody sees. A cancel that
  waits long enough ends the challenge begun after it.
* The key of the last automatic attempt always says "stopped" (`worker.rs:381`), so the
  game's close does not make it a new one (`ARCHITECTURE.md:292`); and when an attempt is
  interrupted by a game that ends before the next observation the journal is not retried
  either: `RecoveryIsRetried` is stated for turns that begin without a stopped observation.
* The worker's own recovery (`worker.rs:294`) writes without the `writing` flag, and the
  worker can publish the claim of a request that `begin_game_request` then refuses for it.
* The watcher verifies a rebuild, the player uninstalls that very build, and the event that
  waits lists it again without files (`storage/local_import.rs:55`, against 146).
* Rollback knows its writes by hash alone (`deployment.rs:321`): a file with the same bytes
  that another program put at a journalled path after the plan is removed
  (`docs/verification/bootstrap.md:17`).
* A hand-over to the installer that fails leaves `ready` (`worker.rs:184-200`), so the next
  idle turn hands over again although the message asks the player to update again
  (`ARCHITECTURE.md:448`); a check whose task died leaves `in_flight` set
  (`game_service/updates.rs:225`, 268).
* A removal interrupted in `maintenance.rs:98` leaves a folder that `Storage::open`
  refuses; the lock file is unlinked after its lock was dropped (`maintenance.rs:73`).
* The `seen` flag of a game that closed between two observations clears the request of a
  launch dispatched since (`session.rs:32-36`), so a second launch may be dispatched for a
  slow game.
* A start that was refused with an error may still begin later, when an earlier call that
  timed out arrives late (`state.ts:174`); it takes calls that overtake by five seconds.

The journal makes the first of these harmless to the player's own files: `deploy_edits`
allows every one of them at every step, and what it shows holds.

## Proofs

`DeploymentProofs` proves about `Deployment`, for every set of paths, contents, setups,
folders and editable paths, from the ASSUMEs of that module only:

* `TypeCorrect`: the type invariant.
* `FolderAccounted`: `FolderIsAccounted`. A path nobody edited holds what the record says:
  the owned content or the journal's, and otherwise the player's own.
* `RollbackHasBackups`: `BackupsRetained`.
* `GameStartStops`: `GameStartStopsWriting`.
* `UnknownKept`: the action property `UnknownContentKept`.

Each follows from one inductive invariant (theorem `Invariance`). The safety properties
alone are not inductive: that a swap keeps the folder accounted for needs to know that the
path being replaced is one the journal changes, that its digest was compared with the
side of the journal the loop comes from, and that this is still so unless another program
edited it since (`raced`); that a rollback has its backups needs to know that the contents
were retained before the journal was saved; that at most one file changes after a game
start needs to know where in `Engine::replace` the start was met. The invariant adds what
each `pc` knows about `path`, `todo`, `want` and the journal. The proof has one step per
action; the operators of the model (`Changed`, `From`, `To`) have lemmas of their own.

It also proves that `Deployment` implements `AtomicDeployment`: `JournalIsAtomic`,
under the one assumption that other programs leave alone the paths some setup names
(`Editable \cap Managed = {}`; what happens otherwise is the subject of the theorems above).
The mapping counts an unfinished switch as not begun. Two more facts are needed: record and
plan name managed paths only (`ManagedInv`), and what a journal works towards is a whole
setup, each file of it written to a free path or borrowed from the player (`TargetInv`).
Commit is then the switch, an edit elsewhere an edit, and every other step is not seen.

`GameServiceProofs` proves about `GameService`, for every set of actions, size of the channel
and number of revisions: `TypeCorrect`, `FlagsTrue`, `LaunchedStays`. The invariant says where
the worker has a job (`JobInv`), that a process begins with the claim taken and nothing open
(`StartInv`), and that no journal is open while a launch waits (`RequestedInv`). That the claim
passes on undivided is proved with a count spelled out as exclusions (`Counted`), and with
lemmas on what sending and receiving do to the messages of a kind in a channel. Which steps may
take the flag from work ahead is a lemma over the actions of both threads (`FlagStep`); it
follows the work from the marked request over the queue to the worker's job (`Ahead`).

`LibraryProofs` proves about `Library`, for every set of builds, mods, sources, slots and
collections: `TypeCorrect`, `InventoryIsExplained`, `LibraryKeepsFiles`,
`UnfinishedHaveWorkers`, their conjunction with its neighbours `RecordsAlwaysAgree`,
`WatcherCanStop`, `CancellationWins`, `AcceptedViewsAreCurrent`. The inductive invariant
`IInv` adds to the properties

* `Phases`: cleanup visits pending removals only, the one it works on is not in the
  library, nothing runs before the queue is open, and while an import is under way no
  removal is pending (an uninstall is refused, an import does not begin);
* in `FilesInv`: what an import has put into place is complete until it is collected, and
  what the watcher has in hand is complete or known to be overtaken;
* in `QueueInv`: an operation saved as being cancelled has its flag set.

`FilesExplained` needs all of it: a commit is safe because nothing could be removed since
the import's `Put`, and that is so because `BusyHash` takes an import for every build.
`Steps` takes the steps that concern only collections together; the other lemmas then
have one step per action.

`RegistryQueueProofs` proves about `RegistryQueue`, for any operations, archives, slots,
faults and restarts: `QueueTypes`, `ClaimsAreKept`, `RowsSayWhatIsSo`,
`FilesOutliveReleases`, `OnlyWantedInstalls`. The properties need each other and more: what
`active` says of an operation is what its row says and what its worker has done (`Working`:
an installed result has its files, a receipt answered well is acknowledged, no archive in
progress is to be removed); a stage, a lost or a left-over operation has a row (`Explained`);
a claim is kept until its acknowledgement (`Claimed`); and no two operations in progress are
on one archive (`Exclusive`), without which the cleanup of one could take the files of the
other. All but the last speak of one operation: the lemmas say what a step of `o` leaves
alone, then prove each step for `o` and for every other operation.

`RegistryProofs` proves about `OnlineDownload`, for any commands, tokens, generations and
answers: `SessionIsSaved`, `OnlyApprovedIsVerified`, `LateAnswersAreIgnored`, `StopsReachAll`.
The invariant says what a command may rely on at each of its steps, and, for a command of the
player's last action, what is shown while its answer is under way (`CommandInv`), that one
command holds the lock and one is about the player's last action (`Apart`), and that the
channel of every lease is set already or will be by the next stop (`HeldReached`); for a
transfer, that a file is verified only once it is on the disk to its end, and confirmed only
when it is the approved one, whichever grants its blocks came under (`TransferInv`).

About `RegistryTrust` it proves, for any documents, keys, archives and clock: `TrustTypes`,
`NewestKept`, `StreamsAdvance`, `BlockEnds`, `CommitSound`, `NewestPassesTheSaved`. `TrustInv`
joins `accepted` (every decision an accepted document carried) to the retained table: the
retained one is the greatest of them; a download's security revision is that of the saved
snapshot or an older one, and a block accepted since then has raised it. That what is saved
admits the newest documents of a consistent registry (signature, freshness and the revision of
the snapshot are checks of their own) needs to know where each retained decision is from: a snapshot
the registry signed, or a release under a snapshot of that revision (`FromSigned`).

`ActivationProofs` has three parts. About `Traversal`, for every graph: `CyclesAreReal`,
`EdgesAreRespected`, `OrdersAreWhole`, `TraversalTypes`. The first rests on the path being a
chain of edges, the second on what the counters say: `incoming[i]` is the number of
predecessors not yet placed. The third joins the search to the sort: what the search has
finished is closed under edges, and every set of it has an entry no other must precede
(`SearchInv`), so after a search without a cycle one of the entries left is always free, a
free one is ready, and the smallest ready one is taken (`SortInv`).

About `LoadOrder`, for every set of builds, rules, versions and requested sequences:
`SelectionsAreResolved` and `PartsAreResolved`. `RInv` keeps, over the three resolutions,
that the graph at hand is that of the entries at hand and what the results so far are. An
order of the whole is `Sound` (selectable, needs met, every enforced edge forward); so is
each part of it, and a resolver given a sound sequence leaves it as it is. That no order
which keeps every declaration is nearer to the player's follows from the sort being greedy
(`Greedy`). Two assumptions on the constants are evaluated by TLC in `load_order`: releases
and local builds are apart, and needs name releases (`LoadOrderAssumption`); and `Compare`
orders the version labels in use as the specification of versions lists them
(`PrecedenceAssumption`), which a theorem cannot derive from the parts of every label.

About `Activation`, for every document of that kind and every set of failing mods:
`RequirementsAreHeld`. The report follows the document (`ReportInv`); every loaded mod that
can be shut down waits or was called; those waiting are in the order of the report, and every
one waiting precedes every one called (`StopsInv`).

`ApplicationProofs` proves about `DesktopState`, for any number of clicks, request ids,
connections and diagnostics: `RetriesRunOnce`, `ShownGoesForward`, `CancelsAreKept`,
`DesktopTypes`. The requests ever tried are those settled and the one that is kept
(`AttemptsInv`), and each remembered request began one diagnostic (`DiagnosticsInv`); the
messages under way carry revisions that have been (`ChannelInv`), so what is shown is one
(`ViewInv`); operations exist once a diagnostic has begun, and what can be cancelled is of
one that began (`WorkInv`).

About `StorageOpen` and `Updates` it proves, for every set of builds, schemas and release
pages: `GameFilesAreRecorded`, `VersionsMatch`, `CommittedDataIsKept`, `OffersStayCurrent`,
`InstallersGoForward`. `CommittedDataIsKept` is the refinement: the program that schedules,
downloads and hands over implements `StorageSpec`, the life of the saved data. `StorageInv`
says what each of two processes may rely on at each stage (`AtStage`), the lock keeping
their stages apart; `UpdatesInv` says that the worker runs from opening to end, and that
what it holds (notice, job, verified installer) is about the build that runs and the channel
that is selected. `UpdatesAssumption` asks that a release page has a newest release and
that a newer build never has an older data version.

`LaunchProofs` proves about `LaunchSession`, for any number of edits, starts, process ids
and failed observations: `TypeCorrect`, `ConfirmedIsOfThisRun`, `ReadyTrue`,
`LaunchesRunTheSaved`. "Ready" is not inductive by itself, since it is said in one turn and
kept over later ones: the invariant adds that what the last turn observed is what readiness
was read under (`LastTurn`), that what was read in this turn is so (`ReadNow`), that a game
that was seen was not seen to end unless the observation changed (`SeenRunning`), that a
launch is reached only over a closed record of its own setup (`Reached`), and that the
report file is the report of the start it names (`ReportsKept`).

Only model-checked: liveness, which is out of the provers' reach, and with it the
properties that contain it: `DeploymentsEnd`, `RequestsAreAnswered`, `RecoveryIsRetried`,
`OperationsEnd`, `StopTakesEffect`, `HandOverIsSound`, `GameIsFollowed`, `InterfaceFollows`,
`CancelledEnd`. The safety halves of four of them are theorems: `StopsReachAll`,
`InstallersGoForward`, `ShownGoesForward`, `CancelsAreKept`. Every other property a run checks
is stated by a theorem. How versions compare part by part (`Dependencies`) is evaluated on
the labels of `load_order`, not proved.

## Mutants

Next to some definitions stand variants named for a plausible bug, with a comment that
says so ("Mutant of ..."). No module uses them; substituted for the definition, each makes
the property it is listed with in `PROJECT.json` fail.

## Plan

1. `Deployment`, `GameService`, `Library` with their proofs: done.
2. `RegistryTrust`, `RegistryQueue`, `RegistryTransfer`, `WebsiteSession`,
   `OnlineDownload` with their proofs: done.
3. `Traversal`, `Dependencies`, `LoadOrder`, `Activation` with their proofs: done.
4. `StorageOpen`, `Updates`, `LaunchSession`, `DesktopCore`, `DesktopState` with their
   proofs: done.
5. Open: collection sharing, the settings of the runtime and their persistence, restoring a
   backup by hand, the 60-second hint of the launch; the type invariants of `Updates`, `OnlineDownload` and
   `Activation` as theorems, and what recovery has reached when the world is calm (the state `DeploymentsEnd`
   leads to) as a safety theorem of its own.

Not modelled: parsing of archives, manifests, wire documents and discovery files, the
interface's layout, discovery and catalogue requests, and the installer's own work: they
have no state whose order of steps matters. The copy of a folder file by file with its
limits, and signatures, are taken as what they return.
