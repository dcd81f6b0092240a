------------------------------ MODULE Library ------------------------------
(***************************************************************************)
(* The library of local builds: collections, uninstall and its cleanup     *)
(* (mods.rs, storage/mods.rs), the queue of local imports (packages.rs,    *)
(* packages/local.rs), and the watcher that copies rebuilt sources         *)
(* (packages/watch.rs, storage/local_import.rs).                           *)
(*                                                                         *)
(* One worker owns the saved records.  Imports and the watcher run on      *)
(* threads of their own, put artifacts into the managed folder and report  *)
(* to the worker, which commits what they report.                          *)
(***************************************************************************)
CONSTANTS
    Builds,       \* exact builds, by their hash
    Mods,         \* mod ids
    ModOf,        \* the mod a build's metadata declares; the hash covers it
    Sources,      \* developers' source paths
    Slots,        \* places for package operations at once; three in the code
    Collections,  \* collection ids
    None          \* an Option's None

LocalSource == [build : Builds, path : Sources]
Input == [sources : SUBSET LocalSource, paused : BOOLEAN]
Event == [from : LocalSource, got : Builds]

ASSUME ModsAssumption == ModOf \in [Builds -> Mods]
ASSUME NoneAssumption == /\ None \notin Builds \cup Sources \cup Collections
                         /\ None \notin Input /\ None \notin Event

VARIABLES
    source,     \* saved: library and local_sources, the path a build came from
    watch,      \* saved: local_watches, the build a mod's source is compared with
    inventory,  \* saved: prepared_artifacts
    removals,   \* saved: pending_removals
    exists,     \* saved: collections
    shared,     \* saved: collection_imports, the ones imported from a shared file
    entries,    \* saved: collection_entries
    active,     \* saved: preferences.active_collection
    status,     \* saved: package_operations, the latest of each slot, if unfinished
    files,      \* artifacts/<hash> in the managed folder
    at,         \* where the worker stands: between turns, in cleanup, not running
    booting,    \* it has not opened the package queue yet
    todo,       \* the pending removals cleanup still has to visit
    current,    \* the one it is at
    run,        \* Packages::active
    wpc,        \* where the watcher's thread stands
    known,      \* its sources
    paused,     \* its pause flag
    scan,       \* the copy it has put into place and not reported
    input,      \* the channel to the watcher
    event,      \* the channel from it
    stopping,   \* its Cancel
    fresh,      \* the window's view has the saved revision
    overtaken   \* auxiliary: removed between the watcher's look at them and its commit

books    == <<source, watch, inventory>>
shelves  == <<exists, shared, entries, active>>
saved    == <<books, removals, shelves, status>>
worker   == <<at, booting, todo, current>>
watcher  == <<wpc, known, paused, scan>>
channels == <<input, event, stopping>>
vars == <<saved, files, worker, run, watcher, channels, fresh, overtaken>>

Library == {b \in Builds : source[b] # None}
Idle == [at |-> "off", path |-> None, got |-> None, cancelled |-> FALSE]

Init ==
    /\ source = [b \in Builds |-> None] /\ watch = [m \in Mods |-> None]
    /\ inventory = {} /\ removals = {}
    /\ exists = {} /\ shared = {} /\ entries = [c \in Collections |-> {}] /\ active = None
    /\ status = [r \in Slots |-> "over"] /\ files = [b \in Builds |-> "absent"]
    /\ at = "clean" /\ booting = TRUE /\ todo = {} /\ current = None
    /\ run = [r \in Slots |-> Idle]
    /\ wpc = "gone" /\ known = {} /\ paused = TRUE /\ scan = None
    /\ input = None /\ event = None /\ stopping = FALSE
    /\ fresh = FALSE /\ overtaken = {}

\* The worker is between two requests, with everything open.
Ready == at = "turn"

Active == {r \in Slots : run[r].at # "off"}

\* Mutant of BusyHash: an import is taken for one that knows its build.
BusyHashKnown(b) == \E r \in Active : run[r].got = b

\* A verification knows its build; an import does not know it before it has read the source.
BusyHash(b) == \E r \in Active : run[r].path # None \/ run[r].got = b

Watched == {[build |-> watch[m], path |-> source[watch[m]]] :
               m \in {n \in Mods : watch[n] \in Library}}

(***************************************************************************)
(* Collections                                                             *)
(***************************************************************************)
Edit == Ready /\ fresh /\ fresh' = FALSE

CollectionsEdited ==
    UNCHANGED <<books, removals, status, files, worker, run, watcher, channels, overtaken>>

\* Neither changes what a collection contains; both advance the revision.
RenameOrReorder(c) ==
    /\ Edit /\ c \in exists
    /\ CollectionsEdited /\ UNCHANGED shelves

CreateCollection(c) ==
    /\ Edit /\ c \notin exists /\ exists' = exists \cup {c}
    /\ CollectionsEdited /\ UNCHANGED <<shared, entries, active>>

\* Sharing adds a collection of exact references, which may be unresolved.
ImportCollection(c) ==
    /\ Edit /\ c \notin exists /\ exists' = exists \cup {c} /\ shared' = shared \cup {c}
    /\ \E es \in SUBSET Builds :
          /\ \A b, d \in es : ModOf[b] = ModOf[d] => b = d
          /\ entries' = [entries EXCEPT ![c] = es]
    /\ CollectionsEdited /\ UNCHANGED active

DeleteCollection(c) ==
    /\ Edit /\ c \in exists
    /\ exists' = exists \ {c} /\ shared' = shared \ {c} /\ entries' = [entries EXCEPT ![c] = {}]
    /\ active' = (IF active = c THEN None ELSE active)
    /\ CollectionsEdited

SelectCollection(c) ==
    /\ Edit /\ c \in exists /\ active' = c
    /\ CollectionsEdited /\ UNCHANGED <<exists, shared, entries>>

\* set_mod_membership makes a collection when none is active.  A build is enabled in place
\* of another one of its mod, when every entry is in the library with verified files.
SetEnabled(b, enabled) ==
    LET old == IF active = None THEN {} ELSE entries[active]
        new == IF enabled THEN {d \in old : ModOf[d] # ModOf[b]} \cup {b} ELSE old \ {b}
    IN /\ Edit /\ b \in Library
       /\ enabled => \A d \in new : d \in Library /\ files[d] = "complete"
       /\ \E c \in IF active # None THEN {active} ELSE Collections \ exists :
             /\ exists' = exists \cup {c} /\ active' = c
             /\ entries' = [entries EXCEPT ![c] = new]
       /\ CollectionsEdited /\ UNCHANGED shared

\* Action::List, and the view every action returns.
View ==
    /\ Ready /\ fresh' = TRUE
    /\ UNCHANGED <<saved, files, worker, run, watcher, channels, overtaken>>

(***************************************************************************)
(* Uninstall and cleanup                                                   *)
(***************************************************************************)
StartCleanup(hashes) == at' = "clean" /\ todo' = hashes /\ UNCHANGED <<booting, current>>

\* The watcher has looked at these files and has not been answered.
InFlight(b) == \/ wpc = "send" /\ scan.got = b
               \/ event # None /\ event.got = b

\* The records are updated in one transaction; cleanup follows in the same request.
Uninstall(b, confirmed) ==
    /\ Edit /\ b \in Library /\ ~BusyHash(b)
    /\ confirmed \/ \A c \in exists : b \notin entries[c]
    /\ entries' = (IF active = None THEN entries ELSE [entries EXCEPT ![active] = @ \ {b}])
    /\ source' = [source EXCEPT ![b] = None]
    /\ watch' = [m \in Mods |-> IF watch[m] = b THEN None ELSE watch[m]]
    /\ removals' = removals \cup {b}
    /\ StartCleanup(removals') /\ overtaken' = {d \in overtaken : d # b \/ InFlight(d)}
    /\ UNCHANGED <<inventory, exists, shared, active, status, files, run, watcher, channels>>

\* The window waits for the view that ends the request.
RetryCleanup ==
    /\ Ready /\ StartCleanup(removals) /\ fresh' = FALSE
    /\ UNCHANGED <<saved, files, run, watcher, channels, overtaken>>

\* remove_artifact keeps what the library lists; the error is saved with the removal.
CleanNext(b) ==
    /\ at = "clean" /\ b \in todo /\ todo' = todo \ {b}
    /\ \/ b \in Library /\ UNCHANGED <<at, current>>
       \/ b \notin Library /\ current' = b
          /\ at' = IF files[b] = "absent" THEN "finish" ELSE "remove"
    /\ UNCHANGED <<saved, files, booting, run, watcher, channels, fresh, overtaken>>

\* Files go one by one, then the folder.
RemoveFiles ==
    /\ at = "remove"
    /\ \/ files[current] = "complete"
          /\ files' = [files EXCEPT ![current] = "partial"] /\ UNCHANGED at
          /\ overtaken' = IF InFlight(current) THEN overtaken \cup {current} ELSE overtaken
       \/ files[current] = "partial"
          /\ files' = [files EXCEPT ![current] = "absent"] /\ at' = "finish"
          /\ UNCHANGED overtaken
    /\ UNCHANGED <<saved, booting, todo, current, run, watcher, channels, fresh>>

\* A locked or an unexpected file: the removal stays pending.
RemoveFails ==
    /\ at = "remove" /\ at' = "clean" /\ current' = None
    /\ UNCHANGED <<saved, files, booting, todo, run, watcher, channels, fresh, overtaken>>

\* Mutant of FinishRemoval: the artifact's record is left behind.
FinishRemovalOnly ==
    /\ at = "finish" /\ at' = "clean" /\ current' = None /\ removals' = removals \ {current}
    /\ UNCHANGED <<books, shelves, status, files, booting, todo, run, watcher, channels,
                   fresh, overtaken>>

FinishRemoval ==
    /\ at = "finish" /\ at' = "clean" /\ current' = None
    /\ inventory' = inventory \ {current} /\ removals' = removals \ {current}
    /\ UNCHANGED <<source, watch, shelves, status, files, booting, todo, run, watcher,
                   channels, fresh, overtaken>>

CleanupEnds ==
    /\ at = "clean" /\ todo = {} /\ at' = (IF booting THEN "open" ELSE "turn")
    /\ UNCHANGED <<saved, files, booting, todo, current, run, watcher, channels, fresh, overtaken>>

(***************************************************************************)
(* The queue of local imports                                              *)
(***************************************************************************)
\* One artifact per build: it is renamed into place, or what is there is verified.
Put(b) == /\ files[b] # "partial"
          /\ files' = [files EXCEPT ![b] = "complete"]
          /\ overtaken' = IF files[b] = "absent" THEN overtaken \ {b} ELSE overtaken

\* Mutant of Commit: the revision stays what it was.
CommitUnseen(b, path) ==
    /\ source' = [source EXCEPT ![b] = path] /\ watch' = [watch EXCEPT ![ModOf[b]] = b]
    /\ inventory' = inventory \cup {b} /\ UNCHANGED fresh

\* commit_import: one transaction, apart from the collection that it may advance.
Commit(b, path) ==
    /\ source' = [source EXCEPT ![b] = path] /\ watch' = [watch EXCEPT ![ModOf[b]] = b]
    /\ inventory' = inventory \cup {b} /\ fresh' = FALSE

\* A new operation takes the place of one that has ended.
Free(r) == Ready /\ r \notin Active

Begin(r, operation) ==
    /\ run' = [run EXCEPT ![r] = operation] /\ status' = [status EXCEPT ![r] = "preparing"]
    /\ UNCHANGED <<books, removals, shelves, files, worker, watcher, channels, fresh, overtaken>>

ImportLocal(r, path) ==
    /\ Free(r) /\ removals = {} /\ \A q \in Active : run[q].path # path
    /\ Begin(r, [at |-> "copy", path |-> path, got |-> None, cancelled |-> FALSE])

\* verify_local, for a build a shared collection refers to.
VerifyLocal(r, b) ==
    /\ Free(r) /\ ~BusyHash(b) /\ b \in Library
    /\ Begin(r, [at |-> "verify", path |-> None, got |-> b, cancelled |-> FALSE])

CancelImport(r) ==
    /\ Ready /\ r \in Active
    /\ run' = [run EXCEPT ![r].cancelled = TRUE]
    /\ status' = [status EXCEPT ![r] = "cancelling"]
    /\ UNCHANGED <<books, removals, shelves, files, worker, watcher, channels, fresh, overtaken>>

ThreadStep == UNCHANGED <<saved, worker, watcher, channels, fresh>>

\* The last look at the flag comes before the artifact is put into place.
CopySource(r) ==
    /\ run[r].at = "copy"
    /\ \/ run' = [run EXCEPT ![r].at = "done"]
       \/ ~run[r].cancelled /\ \E b \in Builds :
              run' = [run EXCEPT ![r].at = "put", ![r].got = b]
    /\ ThreadStep /\ UNCHANGED <<files, overtaken>>

PutImport(r) ==
    /\ run[r].at = "put"
    /\ \/ Put(run[r].got) /\ run' = [run EXCEPT ![r].at = "done"]
       \/ /\ Put(run[r].got) \/ UNCHANGED <<files, overtaken>>
          /\ run' = [run EXCEPT ![r].at = "done", ![r].got = None]
    /\ ThreadStep

VerifyFiles(r) ==
    /\ run[r].at = "verify"
    /\ \/ files[run[r].got] = "complete" /\ run' = [run EXCEPT ![r].at = "done"]
       \/ run' = [run EXCEPT ![r].at = "done", ![r].got = None]
    /\ ThreadStep /\ UNCHANGED <<files, overtaken>>

\* Completed, failed or cancelled is saved, and shown.
Over(r) == run' = [run EXCEPT ![r] = Idle] /\ status' = [status EXCEPT ![r] = "over"]

\* Mutant of CollectImport: the flag is not looked at again.
CollectAnyway(r) ==
    /\ Ready /\ run[r].at = "done" /\ run[r].got # None
    /\ \/ run[r].path # None
          /\ Commit(run[r].got, run[r].path) /\ Over(r)
       \/ Over(r) /\ UNCHANGED <<books, fresh>>
    /\ UNCHANGED <<removals, shelves, files, worker, watcher, channels, overtaken>>

\* Packages::poll.  Cancellation wins over a result that has not been collected.
CollectImport(r) ==
    /\ Ready /\ run[r].at = "done" /\ run[r].got # None /\ ~run[r].cancelled
    /\ \/ run[r].path # None
          /\ Commit(run[r].got, run[r].path) /\ Over(r)
       \/ Over(r) /\ UNCHANGED <<books, fresh>>
    /\ UNCHANGED <<removals, shelves, files, worker, watcher, channels, overtaken>>

CollectFailure(r) ==
    /\ Ready /\ run[r].at = "done" /\ (run[r].got = None \/ run[r].cancelled)
    /\ Over(r)
    /\ UNCHANGED <<books, removals, shelves, files, worker, watcher, channels, fresh, overtaken>>

Collect(r) == CollectImport(r) \/ CollectFailure(r)

(***************************************************************************)
(* The watcher's thread                                                    *)
(***************************************************************************)
WatcherStep == UNCHANGED <<saved, worker, run, stopping, fresh>>

\* Sources are kept by mod: what has been watched at another path or build is forgotten.
Receive ==
    /\ wpc = "idle" /\ ~stopping /\ input # None /\ input' = None
    /\ paused' = input.paused /\ known' = input.sources
    /\ WatcherStep /\ UNCHANGED <<wpc, scan, files, event, overtaken>>

\* A source is read twice, some time apart, then copied and put into place.  Developers write
\* any build at any time, and the thread hears of nothing in between, so that one step does.
\* A change during the last reading, or an error after the copy, means there is no event.
Scan(l) ==
    /\ wpc = "idle" /\ ~stopping /\ ~paused /\ l \in known
    /\ \E b \in Builds \ {l.build} :
          /\ ModOf[b] = ModOf[l.build] /\ Put(b)
          /\ \/ wpc' = "send" /\ scan' = [from |-> l, got |-> b]
             \/ UNCHANGED <<wpc, scan>>
    /\ WatcherStep /\ UNCHANGED <<known, paused, input, event>>

SendEvent ==
    /\ wpc = "send" /\ event = None
    /\ event' = scan /\ scan' = None /\ wpc' = "idle"
    /\ WatcherStep /\ UNCHANGED <<known, paused, files, input, overtaken>>

\* It looks at the flag before and after a scan.
Leave ==
    /\ wpc # "gone" /\ stopping /\ wpc' = "gone"
    /\ known' = {} /\ paused' = TRUE /\ input' = None /\ scan' = None
    /\ WatcherStep /\ UNCHANGED <<files, event, overtaken>>

WatcherThread == Receive \/ SendEvent \/ Leave \/ \E l \in known : Scan(l)

(***************************************************************************)
(* The watcher's side of the worker                                        *)
(***************************************************************************)
\* The source has to be watched still.  An active collection of the player's own moves
\* along, if its order can be resolved and its files fit.
CompleteWatch(e) ==
    LET moves == active # None /\ active \notin shared /\ e.from.build \in entries[active]
    IN IF e.from \in Watched
       THEN \/ /\ Commit(e.got, e.from.path)
               /\ entries' = IF moves
                             THEN [entries EXCEPT ![active] = (@ \ {e.from.build}) \cup {e.got}]
                             ELSE entries
            \/ UNCHANGED <<books, entries, fresh>>
       ELSE UNCHANGED <<books, entries, fresh>>

\* Scans pause while packages are prepared or removals are pending; a result that is
\* already there is taken.
PollWatcher ==
    /\ Ready /\ ~stopping
    /\ input' = IF input # None THEN input
                ELSE [sources |-> Watched, paused |-> Active # {} \/ removals # {}]
    /\ IF event = None THEN UNCHANGED <<books, entries, fresh>> ELSE CompleteWatch(event)
    /\ event' = None
    /\ overtaken' = {b \in overtaken : source'[b] # None \/ (wpc = "send" /\ scan.got = b)}
    /\ UNCHANGED <<removals, exists, shared, active, status, files, worker, run, watcher, stopping>>

\* Before an update is installed; results that were queued are dropped, to let a sender go.
StopWatcher ==
    /\ Ready /\ (Active = {} \/ stopping) /\ stopping' = TRUE /\ event' = None
    /\ UNCHANGED <<saved, files, worker, run, watcher, input, fresh, overtaken>>

NewWatcher ==
    /\ wpc' = "idle" /\ known' = {} /\ paused' = TRUE /\ scan' = None
    /\ input' = None /\ event' = None /\ stopping' = FALSE

RestartWatcher ==
    /\ Ready /\ stopping /\ wpc = "gone" /\ NewWatcher
    /\ UNCHANGED <<saved, files, worker, run, fresh, overtaken>>

(***************************************************************************)
(* The process                                                             *)
(***************************************************************************)
\* Mutant of Open: operations that were being cancelled are forgotten.
OpenPreparing ==
    /\ at = "open" /\ at' = "turn" /\ booting' = FALSE
    /\ status' = [r \in Slots |-> IF status[r] = "preparing" THEN "over" ELSE status[r]]
    /\ NewWatcher
    /\ UNCHANGED <<books, removals, shelves, files, todo, current, run, fresh, overtaken>>

\* Packages::open: what was under way has failed.
Open ==
    /\ at = "open" /\ at' = "turn" /\ booting' = FALSE
    /\ status' = [r \in Slots |->
                    IF status[r] \in {"preparing", "cancelling"} THEN "over" ELSE status[r]]
    /\ NewWatcher
    /\ UNCHANGED <<books, removals, shelves, files, todo, current, run, fresh, overtaken>>

End ==
    /\ at # "off" /\ at' = "off" /\ todo' = {} /\ current' = None /\ booting' = TRUE
    /\ run' = [r \in Slots |-> Idle]
    /\ wpc' = "gone" /\ known' = {} /\ paused' = TRUE /\ scan' = None
    /\ input' = None /\ event' = None /\ stopping' = FALSE /\ fresh' = FALSE
    /\ overtaken' = overtaken \cap Library /\ UNCHANGED <<saved, files>>

Start ==
    /\ at = "off" /\ StartCleanup(removals)
    /\ UNCHANGED <<saved, files, run, watcher, channels, fresh, overtaken>>

Player ==
    \/ \E c \in Collections :
          \/ CreateCollection(c) \/ ImportCollection(c) \/ RenameOrReorder(c)
          \/ DeleteCollection(c) \/ SelectCollection(c)
    \/ \E b \in Builds, yes \in BOOLEAN : SetEnabled(b, yes) \/ Uninstall(b, yes)
    \/ \E r \in Slots :
          \/ \E p \in Sources : ImportLocal(r, p)
          \/ \E b \in Builds : VerifyLocal(r, b)
          \/ CancelImport(r)
    \/ RetryCleanup

Cleaning == (\E b \in todo : CleanNext(b)) \/ RemoveFiles \/ RemoveFails \/ FinishRemoval \/ CleanupEnds

Thread(r) == CopySource(r) \/ PutImport(r) \/ VerifyFiles(r)

Next ==
    \/ View \/ Player \/ Cleaning \/ PollWatcher \/ StopWatcher \/ RestartWatcher
    \/ Open \/ End \/ Start \/ WatcherThread
    \/ \E r \in Slots : Thread(r) \/ Collect(r)

Spec == Init /\ [][Next]_vars

-----------------------------------------------------------------------------
BooksOK ==
    /\ source \in [Builds -> Sources \cup {None}] /\ watch \in [Mods -> Builds \cup {None}]
    /\ inventory \subseteq Builds /\ removals \subseteq Builds

ShelvesOK ==
    /\ exists \subseteq Collections /\ shared \subseteq exists
    /\ entries \in [Collections -> SUBSET Builds] /\ active \in exists \cup {None}

QueueOK ==
    /\ status \in [Slots -> {"preparing", "cancelling", "over"}]
    /\ run \in [Slots -> [at : {"off", "copy", "put", "verify", "done"}, path : Sources \cup {None},
                           got : Builds \cup {None}, cancelled : BOOLEAN]]

CleanupOK ==
    /\ files \in [Builds -> {"absent", "partial", "complete"}] /\ overtaken \subseteq Builds
    /\ at \in {"off", "clean", "remove", "finish", "open", "turn"} /\ booting \in BOOLEAN
    /\ todo \subseteq Builds /\ current \in Builds \cup {None}
    /\ current # None <=> at \in {"remove", "finish"}

WatcherOK ==
    /\ wpc \in {"gone", "idle", "send"} /\ paused \in BOOLEAN /\ stopping \in BOOLEAN
    /\ known \subseteq LocalSource /\ scan \in Event \cup {None} /\ (scan # None <=> wpc = "send")
    /\ input \in Input \cup {None} /\ event \in Event \cup {None}

\* Type correctness; the collection in use exists, and a scan in hand belongs to a thread.
TypeOK == BooksOK /\ ShelvesOK /\ QueueOK /\ CleanupOK /\ WatcherOK /\ fresh \in BOOLEAN

\* Every artifact on record is listed in the library or on its way out, and the other way
\* round: cleanup never meets a build without an inventory (packages/artifacts.rs:78-81), and
\* none is kept for ever that nothing names (storage/mods.rs:152-154, 177-178).
InventoryExplained == inventory = Library \cup removals

\* A build of the library has its files (mods.rs:355 promises as much when a mod is enabled),
\* whatever cleanup, imports and the watcher do to the folder at the same time.  Excepted
\* are builds removed after the watcher had verified them (storage/local_import.rs:55).
FilesExplained == \A b \in Library : files[b] = "complete" \/ b \in overtaken

\* Once the queue is open, the operations saved as unfinished are the ones a thread works
\* on, after any number of restarts (packages.rs:235-236, storage/packages.rs:264-271).
OperationsHaveWorkers ==
    ~booting => \A r \in Slots : status[r] \in {"preparing", "cancelling"} <=> r \in Active

\* The library, the artifact records, the folder and the threads agree at every step.
RecordsAgree == InventoryExplained /\ FilesExplained /\ OperationsHaveWorkers

\* A watcher told to stop finds room for the event it has in hand, so waiting for it to end
\* before an update does not last for ever (packages/watch.rs:60-65).
StoppedNeverBlocks == stopping /\ wpc = "send" => event = None

\* An edit is accepted from a window only if the library and the collections are still what
\* the window showed: commits of imports and rebuilds, which no window asked for, make an
\* older view stale (storage/packages.rs:354, mods.rs:250).
AcceptedViewIsCurrent == [][fresh /\ fresh' => UNCHANGED <<source, watch, shelves>>]_vars

\* An operation that was being cancelled ends without a commit, even if its copy was
\* complete before the player cancelled it (packages.rs:384-386).
CancelledNotCommitted ==
    [][\A r \in Slots : status[r] = "cancelling" /\ status'[r] = "over" => UNCHANGED books]_vars
=============================================================================
