--------------------------- MODULE LibraryProofs ---------------------------
(***************************************************************************)
(* Safety of Library, for every set of builds, mods, sources, slots and    *)
(* collections.                                                            *)
(***************************************************************************)
EXTENDS Library, TLAPS

USE ModsAssumption, NoneAssumption

\* A source that is watched has a path: its build is in the library.
LEMMA WatchedSources ==
  ASSUME TypeOK, NEW l \in Watched
  PROVE  l \in LocalSource
<1>1. PICK m \in {n \in Mods : watch[n] \in Library} :
        l = [build |-> watch[m], path |-> source[watch[m]]]
  BY DEF Watched
<1>2. watch[m] \in Builds /\ source[watch[m]] # None
  BY <1>1 DEF Library
<1> QED
  BY <1>1, <1>2 DEF TypeOK, BooksOK, LocalSource

\* Every step keeps the types.
LEMMA TypeStep == TypeOK /\ [Next]_vars => TypeOK'
<1> SUFFICES ASSUME TypeOK, [Next]_vars PROVE TypeOK'
  OBVIOUS
<1> USE DEF TypeOK, books, shelves, saved, worker, watcher, channels, vars
<1>1. CASE View
  BY <1>1 DEF View, BooksOK, ShelvesOK, QueueOK, CleanupOK, WatcherOK
<1>2. ASSUME NEW c \in Collections, RenameOrReorder(c) PROVE TypeOK'
  <2>1. ShelvesOK'
    BY <1>2 DEF RenameOrReorder, Edit, CollectionsEdited, ShelvesOK
  <2>2. BooksOK'
    BY <1>2 DEF RenameOrReorder, Edit, CollectionsEdited, BooksOK
  <2> QED
    BY <1>2, <2>1, <2>2 DEF RenameOrReorder, Edit, CollectionsEdited, QueueOK,
       CleanupOK, WatcherOK
<1>3. ASSUME NEW c \in Collections, CreateCollection(c) PROVE TypeOK'
  <2>1. ShelvesOK'
    BY <1>3 DEF CreateCollection, Edit, CollectionsEdited, ShelvesOK
  <2> QED
    BY <1>3, <2>1 DEF CreateCollection, Edit, CollectionsEdited, BooksOK, QueueOK,
       CleanupOK, WatcherOK
<1>4. ASSUME NEW c \in Collections, ImportCollection(c) PROVE TypeOK'
  <2>1. ShelvesOK'
    BY <1>4 DEF ImportCollection, Edit, CollectionsEdited, ShelvesOK
  <2> QED
    BY <1>4, <2>1 DEF ImportCollection, Edit, CollectionsEdited, BooksOK, QueueOK,
       CleanupOK, WatcherOK
<1>5. ASSUME NEW c \in Collections, DeleteCollection(c) PROVE TypeOK'
  <2>1. ShelvesOK'
    BY <1>5 DEF DeleteCollection, Edit, CollectionsEdited, ShelvesOK
  <2> QED
    BY <1>5, <2>1 DEF DeleteCollection, Edit, CollectionsEdited, BooksOK, QueueOK,
       CleanupOK, WatcherOK
<1>6. ASSUME NEW c \in Collections, SelectCollection(c) PROVE TypeOK'
  <2>1. ShelvesOK'
    BY <1>6 DEF SelectCollection, Edit, CollectionsEdited, ShelvesOK
  <2> QED
    BY <1>6, <2>1 DEF SelectCollection, Edit, CollectionsEdited, BooksOK, QueueOK,
       CleanupOK, WatcherOK
<1>7. ASSUME NEW b \in Builds, NEW yes \in BOOLEAN, SetEnabled(b, yes) PROVE TypeOK'
  <2>1. ShelvesOK'
    BY <1>7 DEF SetEnabled, Edit, CollectionsEdited, ShelvesOK
  <2> QED
    BY <1>7, <2>1 DEF SetEnabled, Edit, CollectionsEdited, BooksOK, QueueOK, CleanupOK,
       WatcherOK
<1>8. ASSUME NEW b \in Builds, NEW yes \in BOOLEAN, Uninstall(b, yes) PROVE TypeOK'
  <2>1. BooksOK'
    BY <1>8 DEF Uninstall, Edit, StartCleanup, BooksOK
  <2>2. ShelvesOK'
    BY <1>8 DEF Uninstall, Edit, StartCleanup, ShelvesOK
  <2>3. CleanupOK'
    BY <1>8 DEF Uninstall, Edit, StartCleanup, CleanupOK, BooksOK, Ready
  <2> QED
    BY <1>8, <2>1, <2>2, <2>3 DEF Uninstall, Edit, StartCleanup, QueueOK, WatcherOK
<1>9. ASSUME NEW r \in Slots, NEW p \in Sources, ImportLocal(r, p) PROVE TypeOK'
  <2>1. QueueOK'
    BY <1>9 DEF ImportLocal, Begin, QueueOK
  <2> QED
    BY <1>9, <2>1 DEF ImportLocal, Begin, BooksOK, ShelvesOK, CleanupOK, WatcherOK
<1>10. ASSUME NEW r \in Slots, NEW b \in Builds, VerifyLocal(r, b) PROVE TypeOK'
  <2>1. QueueOK'
    BY <1>10 DEF VerifyLocal, Begin, QueueOK
  <2> QED
    BY <1>10, <2>1 DEF VerifyLocal, Begin, BooksOK, ShelvesOK, CleanupOK, WatcherOK
<1>11. ASSUME NEW r \in Slots, CancelImport(r) PROVE TypeOK'
  <2>1. QueueOK'
    BY <1>11 DEF CancelImport, QueueOK
  <2> QED
    BY <1>11, <2>1 DEF CancelImport, BooksOK, ShelvesOK, CleanupOK, WatcherOK
<1>12. CASE RetryCleanup
  <2>1. CleanupOK'
    BY <1>12 DEF RetryCleanup, StartCleanup, CleanupOK, BooksOK, Ready
  <2> QED
    BY <1>12, <2>1 DEF RetryCleanup, StartCleanup, BooksOK, ShelvesOK, QueueOK, WatcherOK
<1>13. ASSUME NEW b \in todo, CleanNext(b) PROVE TypeOK'
  <2>1. CleanupOK'
    BY <1>13 DEF CleanNext, CleanupOK
  <2> QED
    BY <1>13, <2>1 DEF CleanNext, BooksOK, ShelvesOK, QueueOK, WatcherOK
<1>14. CASE RemoveFiles
  <2>1. CleanupOK'
    BY <1>14 DEF RemoveFiles, CleanupOK
  <2> QED
    BY <1>14, <2>1 DEF RemoveFiles, BooksOK, ShelvesOK, QueueOK, WatcherOK
<1>15. CASE RemoveFails
  <2>1. CleanupOK'
    BY <1>15 DEF RemoveFails, CleanupOK
  <2> QED
    BY <1>15, <2>1 DEF RemoveFails, BooksOK, ShelvesOK, QueueOK, WatcherOK
<1>16. CASE FinishRemoval
  <2>1. BooksOK'
    BY <1>16 DEF FinishRemoval, BooksOK, CleanupOK
  <2>2. CleanupOK'
    BY <1>16 DEF FinishRemoval, CleanupOK
  <2> QED
    BY <1>16, <2>1, <2>2 DEF FinishRemoval, ShelvesOK, QueueOK, WatcherOK
<1>17. CASE CleanupEnds
  <2>1. CleanupOK'
    BY <1>17 DEF CleanupEnds, CleanupOK
  <2> QED
    BY <1>17, <2>1 DEF CleanupEnds, BooksOK, ShelvesOK, QueueOK, WatcherOK
<1>18. CASE StopWatcher
  <2>1. WatcherOK'
    BY <1>18 DEF StopWatcher, WatcherOK
  <2> QED
    BY <1>18, <2>1 DEF StopWatcher, BooksOK, ShelvesOK, QueueOK, CleanupOK
<1>19. CASE RestartWatcher
  <2>1. WatcherOK'
    BY <1>19 DEF RestartWatcher, NewWatcher, WatcherOK
  <2> QED
    BY <1>19, <2>1 DEF RestartWatcher, NewWatcher, BooksOK, ShelvesOK, QueueOK, CleanupOK
<1>20. CASE Open
  <2>1. QueueOK'
    BY <1>20 DEF Open, NewWatcher, QueueOK
  <2>2. CleanupOK'
    BY <1>20 DEF Open, NewWatcher, CleanupOK
  <2>3. WatcherOK'
    BY <1>20 DEF Open, NewWatcher, WatcherOK
  <2> QED
    BY <1>20, <2>1, <2>2, <2>3 DEF Open, NewWatcher, BooksOK, ShelvesOK
<1>21. CASE End
  <2>1. QueueOK'
    BY <1>21 DEF End, QueueOK, Idle
  <2>2. CleanupOK'
    BY <1>21 DEF End, CleanupOK
  <2>3. WatcherOK'
    BY <1>21 DEF End, WatcherOK
  <2> QED
    BY <1>21, <2>1, <2>2, <2>3 DEF End, BooksOK, ShelvesOK
<1>22. CASE Start
  <2>1. CleanupOK'
    BY <1>22 DEF Start, StartCleanup, CleanupOK, BooksOK
  <2> QED
    BY <1>22, <2>1 DEF Start, StartCleanup, BooksOK, ShelvesOK, QueueOK, WatcherOK
<1>23. CASE Receive
  <2>1. WatcherOK'
    BY <1>23 DEF Receive, WatcherStep, WatcherOK, Input
  <2> QED
    BY <1>23, <2>1 DEF Receive, WatcherStep, BooksOK, ShelvesOK, QueueOK, CleanupOK
<1>24. ASSUME NEW l \in known, Scan(l) PROVE TypeOK'
  <2>1. CleanupOK'
    BY <1>24 DEF Scan, WatcherStep, Put, CleanupOK
  <2>2. l \in LocalSource
    BY DEF WatcherOK
  <2>3. WatcherOK'
    BY <1>24, <2>2 DEF Scan, WatcherStep, Put, WatcherOK, Event
  <2> QED
    BY <1>24, <2>1, <2>3 DEF Scan, WatcherStep, BooksOK, ShelvesOK, QueueOK
<1>25. CASE SendEvent
  <2>1. WatcherOK'
    BY <1>25 DEF SendEvent, WatcherStep, WatcherOK
  <2> QED
    BY <1>25, <2>1 DEF SendEvent, WatcherStep, BooksOK, ShelvesOK, QueueOK, CleanupOK
<1>26. CASE Leave
  <2>1. WatcherOK'
    BY <1>26 DEF Leave, WatcherStep, WatcherOK
  <2> QED
    BY <1>26, <2>1 DEF Leave, WatcherStep, BooksOK, ShelvesOK, QueueOK, CleanupOK
<1>27. ASSUME NEW r \in Slots, CopySource(r) PROVE TypeOK'
  <2>1. QueueOK'
    BY <1>27 DEF CopySource, ThreadStep, QueueOK
  <2> QED
    BY <1>27, <2>1 DEF CopySource, ThreadStep, BooksOK, ShelvesOK, CleanupOK, WatcherOK
<1>28. ASSUME NEW r \in Slots, PutImport(r) PROVE TypeOK'
  <2>1. QueueOK'
    BY <1>28 DEF PutImport, ThreadStep, Put, QueueOK
  <2>2. CleanupOK'
    BY <1>28 DEF PutImport, ThreadStep, Put, CleanupOK, QueueOK
  <2> QED
    BY <1>28, <2>1, <2>2 DEF PutImport, ThreadStep, Put, BooksOK, ShelvesOK, WatcherOK
<1>29. ASSUME NEW r \in Slots, VerifyFiles(r) PROVE TypeOK'
  <2>1. QueueOK'
    BY <1>29 DEF VerifyFiles, ThreadStep, QueueOK
  <2> QED
    BY <1>29, <2>1 DEF VerifyFiles, ThreadStep, BooksOK, ShelvesOK, CleanupOK, WatcherOK
<1>30. ASSUME NEW r \in Slots, CollectImport(r) PROVE TypeOK'
  <2>1. BooksOK'
    BY <1>30 DEF CollectImport, Commit, Over, BooksOK, QueueOK
  <2>2. QueueOK'
    <3>1. Over(r) /\ UNCHANGED <<removals, shelves, files, worker, watcher, channels, overtaken>>
      BY <1>30 DEF CollectImport
    <3> QED
      BY <3>1 DEF Over, QueueOK, Idle
  <2>3. fresh' \in BOOLEAN
    BY <1>30 DEF CollectImport, Commit
  <2> QED
    BY <1>30, <2>1, <2>2, <2>3 DEF CollectImport, ShelvesOK, CleanupOK, WatcherOK
<1>31. ASSUME NEW r \in Slots, CollectFailure(r) PROVE TypeOK'
  <2>1. QueueOK'
    BY <1>31 DEF CollectFailure, Over, QueueOK, Idle
  <2> QED
    BY <1>31, <2>1 DEF CollectFailure, Over, BooksOK, ShelvesOK, CleanupOK, WatcherOK
<1>32. CASE PollWatcher
  <2>1. input' \in Input \cup {None}
    BY <1>32, WatchedSources DEF PollWatcher, Input, WatcherOK
  <2>2. ASSUME event # None, CompleteWatch(event)
        PROVE  BooksOK' /\ entries' \in [Collections -> SUBSET Builds]
    <3>1. event.from \in LocalSource /\ event.got \in Builds /\ event.from.path \in Sources
      BY <2>2 DEF Event, LocalSource, WatcherOK
    <3>2. entries' \in [Collections -> SUBSET Builds]
      BY <2>2, <3>1 DEF CompleteWatch, Commit, ShelvesOK
    <3>3. BooksOK'
      BY <1>32, <2>2, <3>1 DEF PollWatcher, CompleteWatch, Commit, BooksOK
    <3> QED
      BY <3>2, <3>3
  <2>3. BooksOK' /\ ShelvesOK'
    BY <1>32, <2>2 DEF PollWatcher, BooksOK, ShelvesOK
  <2>4. fresh' \in BOOLEAN
    BY <1>32 DEF PollWatcher, CompleteWatch, Commit
  <2>5. CleanupOK' /\ QueueOK' /\ WatcherOK'
    BY <1>32, <2>1 DEF PollWatcher, CleanupOK, QueueOK, WatcherOK
  <2> QED
    BY <2>3, <2>4, <2>5
<1>33. CASE UNCHANGED vars
  BY <1>33 DEF BooksOK, ShelvesOK, QueueOK, CleanupOK, WatcherOK
<1> QED
  BY <1>1, <1>2, <1>3, <1>4, <1>5, <1>6, <1>7, <1>8, <1>9, <1>10, <1>11, <1>12, <1>13,
     <1>14, <1>15, <1>16, <1>17, <1>18, <1>19, <1>20, <1>21, <1>22, <1>23, <1>24, <1>25,
     <1>26, <1>27, <1>28, <1>29, <1>30, <1>31, <1>32, <1>33
  DEF Next, Player, Cleaning, WatcherThread, Thread, Collect

\* Steps in which the worker only answers, edits collections, or does nothing.
Quiet == UNCHANGED <<books, removals, status, files, worker, run, watcher, channels, overtaken>>

\* The steps, with those that only concern collections and the window taken together.
LEMMA Steps ==
  [Next]_vars =>
    \/ Quiet
    \/ \E b \in Builds, yes \in BOOLEAN : Uninstall(b, yes)
    \/ \E r \in Slots, p \in Sources : ImportLocal(r, p)
    \/ \E r \in Slots, b \in Builds : VerifyLocal(r, b)
    \/ \E r \in Slots : CancelImport(r)
    \/ RetryCleanup
    \/ \E b \in todo : CleanNext(b)
    \/ RemoveFiles
    \/ RemoveFails
    \/ FinishRemoval
    \/ CleanupEnds
    \/ PollWatcher
    \/ StopWatcher
    \/ RestartWatcher
    \/ Open
    \/ End
    \/ Start
    \/ WatcherThread
    \/ \E r \in Slots : Thread(r)
    \/ \E r \in Slots : CollectImport(r)
    \/ \E r \in Slots : CollectFailure(r)
<1> SUFFICES ASSUME [Next]_vars PROVE
    \/ Quiet
    \/ \E b \in Builds, yes \in BOOLEAN : Uninstall(b, yes)
    \/ \E r \in Slots, p \in Sources : ImportLocal(r, p)
    \/ \E r \in Slots, b \in Builds : VerifyLocal(r, b)
    \/ \E r \in Slots : CancelImport(r)
    \/ RetryCleanup
    \/ \E b \in todo : CleanNext(b)
    \/ RemoveFiles
    \/ RemoveFails
    \/ FinishRemoval
    \/ CleanupEnds
    \/ PollWatcher
    \/ StopWatcher
    \/ RestartWatcher
    \/ Open
    \/ End
    \/ Start
    \/ WatcherThread
    \/ \E r \in Slots : Thread(r)
    \/ \E r \in Slots : CollectImport(r)
    \/ \E r \in Slots : CollectFailure(r)
  OBVIOUS
<1>1. ASSUME UNCHANGED vars \/ View PROVE Quiet
  BY <1>1 DEF Quiet, View, vars, saved
<1>2. ASSUME NEW c \in Collections,
             \/ CreateCollection(c) \/ ImportCollection(c) \/ RenameOrReorder(c)
             \/ DeleteCollection(c) \/ SelectCollection(c)
      PROVE  Quiet
  BY <1>2 DEF CreateCollection, ImportCollection, RenameOrReorder, DeleteCollection,
     SelectCollection, CollectionsEdited, Quiet
<1>3. ASSUME NEW b \in Builds, NEW yes \in BOOLEAN, SetEnabled(b, yes) PROVE Quiet
  BY <1>3 DEF SetEnabled, CollectionsEdited, Quiet
<1> QED
  BY <1>1, <1>2, <1>3 DEF Next, Player, Cleaning, Collect

\* What the worker's place says: cleanup works on pending removals that are not in the
\* library, before the queue is open nothing runs, and an import excludes removals.
Phases ==
    /\ at = "turn" => ~booting
    /\ at = "open" => booting
    /\ booting => \A r \in Slots : run[r].at = "off"
    /\ todo \subseteq removals
    /\ at \in {"remove", "finish"} => current \in removals \ todo /\ source[current] = None
    /\ \A r \in Slots : run[r].at # "off" /\ run[r].path # None => removals = {}

\* Operations and threads agree, and the flag of an operation being cancelled is set.
QueueInv ==
    /\ OperationsHaveWorkers
    /\ \A r \in Slots : run[r].at # "off" /\ status[r] = "cancelling" => run[r].cancelled

\* What an import has put into place stays until it is collected; what the watcher has
\* verified is complete or known to be overtaken.
FilesInv ==
    /\ FilesExplained
    /\ \A r \in Slots : run[r].at = "done" /\ run[r].path # None /\ run[r].got # None
                          => files[run[r].got] = "complete"
    /\ \A r \in Slots : /\ run[r].at = "copy" => run[r].got = None
                        /\ run[r].at = "verify" => run[r].path = None
    /\ \A b \in Builds : InFlight(b) => files[b] = "complete" \/ b \in overtaken

\* Every step keeps what the places say.
LEMMA PhaseStep == TypeOK /\ Phases /\ [Next]_vars => Phases'
<1> SUFFICES ASSUME TypeOK /\ Phases, [Next]_vars PROVE Phases'
  OBVIOUS
<1> USE DEF TypeOK, BooksOK, QueueOK, CleanupOK, Phases, books, shelves, saved, worker,
            watcher, channels, vars
<1>1. CASE Quiet
  BY <1>1 DEF Quiet
<1>2. ASSUME NEW b \in Builds, NEW yes \in BOOLEAN, Uninstall(b, yes) PROVE Phases'
  BY <1>2 DEF Uninstall, Edit, StartCleanup, Ready, BusyHash, Active
<1>3. ASSUME NEW r \in Slots, NEW p \in Sources, ImportLocal(r, p) PROVE Phases'
  BY <1>3 DEF ImportLocal, Begin, Free, Ready, Active
<1>4. ASSUME NEW r \in Slots, NEW b \in Builds, VerifyLocal(r, b) PROVE Phases'
  BY <1>4 DEF VerifyLocal, Begin, Free, Ready, Active
<1>5. ASSUME NEW r \in Slots, CancelImport(r) PROVE Phases'
  BY <1>5 DEF CancelImport, Ready, Active
<1>6. CASE RetryCleanup
  BY <1>6 DEF RetryCleanup, StartCleanup, Ready
<1>7. ASSUME NEW b \in todo, CleanNext(b) PROVE Phases'
  BY <1>7 DEF CleanNext, Library
<1>8. CASE RemoveFiles
  BY <1>8 DEF RemoveFiles
<1>9. CASE RemoveFails
  BY <1>9 DEF RemoveFails
<1>10. CASE FinishRemoval
  BY <1>10 DEF FinishRemoval
<1>11. CASE CleanupEnds
  BY <1>11 DEF CleanupEnds
<1>12. CASE PollWatcher
  BY <1>12 DEF PollWatcher, Ready, CompleteWatch, Commit
<1>13. CASE StopWatcher
  BY <1>13 DEF StopWatcher, Ready
<1>14. CASE RestartWatcher
  BY <1>14 DEF RestartWatcher, NewWatcher, Ready
<1>15. CASE Open
  BY <1>15 DEF Open, NewWatcher
<1>16. CASE End
  BY <1>16 DEF End, Idle
<1>17. CASE Start
  BY <1>17 DEF Start, StartCleanup
<1>18. CASE WatcherThread
  BY <1>18 DEF WatcherThread, Receive, Scan, SendEvent, Leave,
     WatcherStep
<1>19. ASSUME NEW r \in Slots, Thread(r) PROVE Phases'
  BY <1>19 DEF Thread, CopySource, PutImport, VerifyFiles, ThreadStep
<1>20. ASSUME NEW r \in Slots, CollectImport(r) PROVE Phases'
  BY <1>20 DEF CollectImport, Over, Ready, Idle, Commit
<1>21. ASSUME NEW r \in Slots, CollectFailure(r) PROVE Phases'
  BY <1>21 DEF CollectFailure, Over, Ready, Idle
<1> QED
  BY Steps, <1>1, <1>2, <1>3, <1>4, <1>5, <1>6, <1>7, <1>8, <1>9, <1>10, <1>11, <1>12,
     <1>13, <1>14, <1>15, <1>16, <1>17, <1>18, <1>19, <1>20, <1>21

\* Every step keeps the artifacts on record explained.
LEMMA InventoryStep == TypeOK /\ Phases /\ InventoryExplained /\ [Next]_vars => InventoryExplained'
<1> SUFFICES ASSUME TypeOK /\ Phases /\ InventoryExplained, [Next]_vars PROVE InventoryExplained'
  OBVIOUS
<1> USE DEF TypeOK, BooksOK, QueueOK, CleanupOK, InventoryExplained, Library, books, shelves,
            saved, worker, watcher, channels, vars
<1>1. CASE Quiet
  BY <1>1 DEF Quiet
<1>2. ASSUME NEW b \in Builds, NEW yes \in BOOLEAN, Uninstall(b, yes) PROVE InventoryExplained'
  BY <1>2 DEF Uninstall, Edit, StartCleanup, Ready
<1>3. ASSUME NEW r \in Slots, NEW p \in Sources, ImportLocal(r, p) PROVE InventoryExplained'
  BY <1>3 DEF ImportLocal, Begin, Free, Ready
<1>4. ASSUME NEW r \in Slots, NEW b \in Builds, VerifyLocal(r, b) PROVE InventoryExplained'
  BY <1>4 DEF VerifyLocal, Begin, Free, Ready
<1>5. ASSUME NEW r \in Slots, CancelImport(r) PROVE InventoryExplained'
  BY <1>5 DEF CancelImport, Ready
<1>6. CASE RetryCleanup
  BY <1>6 DEF RetryCleanup, StartCleanup, Ready
<1>7. ASSUME NEW b \in todo, CleanNext(b) PROVE InventoryExplained'
  BY <1>7 DEF CleanNext
<1>8. CASE RemoveFiles
  BY <1>8 DEF RemoveFiles
<1>9. CASE RemoveFails
  BY <1>9 DEF RemoveFails
<1>10. CASE FinishRemoval
  BY <1>10 DEF FinishRemoval, Phases
<1>11. CASE CleanupEnds
  BY <1>11 DEF CleanupEnds
<1>12. CASE PollWatcher
  <2>1. CASE event = None \/ UNCHANGED books
    BY <1>12, <2>1 DEF PollWatcher
  <2>2. CASE event # None /\ event.from \in Watched /\ Commit(event.got, event.from.path)
    <3>1. event.got \in Builds /\ event.from.path # None
      BY <2>2, WatchedSources DEF WatcherOK, Event, LocalSource
    <3> QED
      BY <1>12, <2>2, <3>1 DEF PollWatcher, Commit
  <2> QED
    BY <1>12, <2>1, <2>2 DEF PollWatcher, CompleteWatch
<1>13. CASE StopWatcher
  BY <1>13 DEF StopWatcher, Ready
<1>14. CASE RestartWatcher
  BY <1>14 DEF RestartWatcher, NewWatcher, Ready
<1>15. CASE Open
  BY <1>15 DEF Open, NewWatcher
<1>16. CASE End
  BY <1>16 DEF End, Idle
<1>17. CASE Start
  BY <1>17 DEF Start, StartCleanup
<1>18. CASE WatcherThread
  BY <1>18 DEF WatcherThread, Receive, Scan, SendEvent, Leave,
     WatcherStep
<1>19. ASSUME NEW r \in Slots, Thread(r) PROVE InventoryExplained'
  BY <1>19 DEF Thread, CopySource, PutImport, VerifyFiles, ThreadStep
<1>20. ASSUME NEW r \in Slots, CollectImport(r) PROVE InventoryExplained'
  BY <1>20 DEF CollectImport, Over, Ready, Idle, Commit
<1>21. ASSUME NEW r \in Slots, CollectFailure(r) PROVE InventoryExplained'
  BY <1>21 DEF CollectFailure, Over, Ready, Idle
<1> QED
  BY Steps, <1>1, <1>2, <1>3, <1>4, <1>5, <1>6, <1>7, <1>8, <1>9, <1>10, <1>11, <1>12,
     <1>13, <1>14, <1>15, <1>16, <1>17, <1>18, <1>19, <1>20, <1>21

\* Every step keeps saved operations and threads in agreement.
LEMMA QueueStep == TypeOK /\ Phases /\ QueueInv /\ [Next]_vars => QueueInv'
<1> SUFFICES ASSUME TypeOK /\ Phases /\ QueueInv, [Next]_vars PROVE QueueInv'
  OBVIOUS
<1> USE DEF TypeOK, QueueOK, QueueInv, OperationsHaveWorkers, Active, Phases, books, shelves,
            saved, worker, watcher, channels, vars
<1>1. CASE Quiet
  BY <1>1 DEF Quiet
<1>2. ASSUME NEW b \in Builds, NEW yes \in BOOLEAN, Uninstall(b, yes) PROVE QueueInv'
  BY <1>2 DEF Uninstall, Edit, StartCleanup, Ready
<1>3. ASSUME NEW r \in Slots, NEW p \in Sources, ImportLocal(r, p) PROVE QueueInv'
  BY <1>3 DEF ImportLocal, Begin, Free, Ready
<1>4. ASSUME NEW r \in Slots, NEW b \in Builds, VerifyLocal(r, b) PROVE QueueInv'
  BY <1>4 DEF VerifyLocal, Begin, Free, Ready
<1>5. ASSUME NEW r \in Slots, CancelImport(r) PROVE QueueInv'
  BY <1>5 DEF CancelImport, Ready
<1>6. CASE RetryCleanup
  BY <1>6 DEF RetryCleanup, StartCleanup, Ready
<1>7. ASSUME NEW b \in todo, CleanNext(b) PROVE QueueInv'
  BY <1>7 DEF CleanNext
<1>8. CASE RemoveFiles
  BY <1>8 DEF RemoveFiles
<1>9. CASE RemoveFails
  BY <1>9 DEF RemoveFails
<1>10. CASE FinishRemoval
  BY <1>10 DEF FinishRemoval
<1>11. CASE CleanupEnds
  BY <1>11 DEF CleanupEnds
<1>12. CASE PollWatcher
  BY <1>12 DEF PollWatcher, Ready, CompleteWatch
<1>13. CASE StopWatcher
  BY <1>13 DEF StopWatcher, Ready
<1>14. CASE RestartWatcher
  BY <1>14 DEF RestartWatcher, NewWatcher, Ready
<1>15. CASE Open
  BY <1>15 DEF Open, NewWatcher
<1>16. CASE End
  BY <1>16 DEF End, Idle
<1>17. CASE Start
  BY <1>17 DEF Start, StartCleanup
<1>18. CASE WatcherThread
  BY <1>18 DEF WatcherThread, Receive, Scan, SendEvent, Leave,
     WatcherStep
<1>19. ASSUME NEW r \in Slots, Thread(r) PROVE QueueInv'
  BY <1>19 DEF Thread, CopySource, PutImport, VerifyFiles, ThreadStep
<1>20. ASSUME NEW r \in Slots, CollectImport(r) PROVE QueueInv'
  <2>1. Over(r) /\ booting' = booting
    BY <1>20 DEF CollectImport
  <2> QED
    BY <2>1 DEF Over, Idle
<1>21. ASSUME NEW r \in Slots, CollectFailure(r) PROVE QueueInv'
  BY <1>21 DEF CollectFailure, Over, Ready, Idle
<1> QED
  BY Steps, <1>1, <1>2, <1>3, <1>4, <1>5, <1>6, <1>7, <1>8, <1>9, <1>10, <1>11, <1>12,
     <1>13, <1>14, <1>15, <1>16, <1>17, <1>18, <1>19, <1>20, <1>21

\* Every step keeps room for the event of a watcher told to stop.
LEMMA StopStep == TypeOK /\ StoppedNeverBlocks /\ [Next]_vars => StoppedNeverBlocks'
<1> SUFFICES ASSUME TypeOK /\ StoppedNeverBlocks, [Next]_vars PROVE StoppedNeverBlocks'
  OBVIOUS
<1> USE DEF TypeOK, WatcherOK, StoppedNeverBlocks, books, shelves, saved,
            worker, watcher, channels, vars
<1>1. CASE Quiet
  BY <1>1 DEF Quiet
<1>2. ASSUME NEW b \in Builds, NEW yes \in BOOLEAN, Uninstall(b, yes) PROVE StoppedNeverBlocks'
  BY <1>2 DEF Uninstall, Edit, StartCleanup, Ready
<1>3. ASSUME NEW r \in Slots, NEW p \in Sources, ImportLocal(r, p) PROVE StoppedNeverBlocks'
  BY <1>3 DEF ImportLocal, Begin, Free, Ready
<1>4. ASSUME NEW r \in Slots, NEW b \in Builds, VerifyLocal(r, b) PROVE StoppedNeverBlocks'
  BY <1>4 DEF VerifyLocal, Begin, Free, Ready
<1>5. ASSUME NEW r \in Slots, CancelImport(r) PROVE StoppedNeverBlocks'
  BY <1>5 DEF CancelImport, Ready
<1>6. CASE RetryCleanup
  BY <1>6 DEF RetryCleanup, StartCleanup, Ready
<1>7. ASSUME NEW b \in todo, CleanNext(b) PROVE StoppedNeverBlocks'
  BY <1>7 DEF CleanNext
<1>8. CASE RemoveFiles
  BY <1>8 DEF RemoveFiles
<1>9. CASE RemoveFails
  BY <1>9 DEF RemoveFails
<1>10. CASE FinishRemoval
  BY <1>10 DEF FinishRemoval
<1>11. CASE CleanupEnds
  BY <1>11 DEF CleanupEnds
<1>12. CASE PollWatcher
  BY <1>12 DEF PollWatcher, Ready
<1>13. CASE StopWatcher
  BY <1>13 DEF StopWatcher, Ready
<1>14. CASE RestartWatcher
  BY <1>14 DEF RestartWatcher, NewWatcher, Ready
<1>15. CASE Open
  BY <1>15 DEF Open, NewWatcher
<1>16. CASE End
  BY <1>16 DEF End, Idle
<1>17. CASE Start
  BY <1>17 DEF Start, StartCleanup
<1>18. CASE WatcherThread
  BY <1>18 DEF WatcherThread, Receive, Scan, SendEvent, Leave,
     WatcherStep
<1>19. ASSUME NEW r \in Slots, Thread(r) PROVE StoppedNeverBlocks'
  BY <1>19 DEF Thread, CopySource, PutImport, VerifyFiles, ThreadStep
<1>20. ASSUME NEW r \in Slots, CollectImport(r) PROVE StoppedNeverBlocks'
  BY <1>20 DEF CollectImport, Over, Ready, Idle
<1>21. ASSUME NEW r \in Slots, CollectFailure(r) PROVE StoppedNeverBlocks'
  BY <1>21 DEF CollectFailure, Over, Ready, Idle
<1> QED
  BY Steps, <1>1, <1>2, <1>3, <1>4, <1>5, <1>6, <1>7, <1>8, <1>9, <1>10, <1>11, <1>12,
     <1>13, <1>14, <1>15, <1>16, <1>17, <1>18, <1>19, <1>20, <1>21

\* Every step keeps the files of the library.
LEMMA FilesStep == TypeOK /\ Phases /\ FilesInv /\ [Next]_vars => FilesInv'
<1> SUFFICES ASSUME TypeOK /\ Phases /\ FilesInv, [Next]_vars PROVE FilesInv'
  OBVIOUS
<1> USE DEF TypeOK, BooksOK, QueueOK, CleanupOK, FilesInv, FilesExplained, Library, InFlight,
            books, shelves, saved, worker, watcher, channels, vars
<1>1. CASE Quiet
  BY <1>1 DEF Quiet
<1>2. ASSUME NEW b \in Builds, NEW yes \in BOOLEAN, Uninstall(b, yes) PROVE FilesInv'
  BY <1>2 DEF Uninstall, Edit, StartCleanup, Ready
<1>3. ASSUME NEW r \in Slots, NEW p \in Sources, ImportLocal(r, p) PROVE FilesInv'
  BY <1>3 DEF ImportLocal, Begin, Free, Ready
<1>4. ASSUME NEW r \in Slots, NEW b \in Builds, VerifyLocal(r, b) PROVE FilesInv'
  BY <1>4 DEF VerifyLocal, Begin, Free, Ready
<1>5. ASSUME NEW r \in Slots, CancelImport(r) PROVE FilesInv'
  BY <1>5 DEF CancelImport, Ready
<1>6. CASE RetryCleanup
  BY <1>6 DEF RetryCleanup, StartCleanup, Ready
<1>7. ASSUME NEW b \in todo, CleanNext(b) PROVE FilesInv'
  BY <1>7 DEF CleanNext
<1>8. CASE RemoveFiles
  <2>1. /\ current \in Builds \ Library /\ UNCHANGED <<source, run, wpc, scan, event>>
        /\ \A r \in Slots : run[r].at = "done" => run[r].path = None
    BY <1>8 DEF RemoveFiles, Phases
  <2>2. files' \in [Builds -> {"absent", "partial", "complete"}]
        /\ \A b \in Builds : b # current => files'[b] = files[b]
    BY <1>8, <2>1 DEF RemoveFiles
  <2>3. overtaken \subseteq overtaken' /\ (InFlight(current) => current \in overtaken')
    BY <1>8, <2>1 DEF RemoveFiles
  <2>4. FilesExplained'
    BY <2>1, <2>2, <2>3
  <2>5. \A b \in Builds : InFlight(b)' => files'[b] = "complete" \/ b \in overtaken'
    BY <2>1, <2>2, <2>3
  <2> QED
    BY <2>1, <2>4, <2>5
<1>9. CASE RemoveFails
  BY <1>9 DEF RemoveFails
<1>10. CASE FinishRemoval
  BY <1>10 DEF FinishRemoval
<1>11. CASE CleanupEnds
  BY <1>11 DEF CleanupEnds
<1>12. CASE PollWatcher
  <2>1. /\ event' = None /\ UNCHANGED <<files, run, wpc, scan>>
        /\ overtaken' = {b \in overtaken : source'[b] # None \/ (wpc = "send" /\ scan.got = b)}
    BY <1>12 DEF PollWatcher
  <2>2. \A b \in Builds : InFlight(b)' => files'[b] = "complete" \/ b \in overtaken'
    BY <2>1
  <2>3. \A b \in Builds : source'[b] # None => b \in Library \/ InFlight(b)
    <3>1. CASE event = None \/ UNCHANGED books
      BY <1>12, <3>1 DEF PollWatcher
    <3>2. CASE event # None /\ event.from \in Watched /\ Commit(event.got, event.from.path)
      BY <3>2 DEF Commit
    <3> QED
      BY <1>12, <3>1, <3>2 DEF PollWatcher, CompleteWatch
  <2>4. FilesExplained'
    BY <2>1, <2>3
  <2> QED
    BY <2>1, <2>2, <2>4
<1>13. CASE StopWatcher
  BY <1>13 DEF StopWatcher, Ready
<1>14. CASE RestartWatcher
  BY <1>14 DEF RestartWatcher, NewWatcher, Ready
<1>15. CASE Open
  BY <1>15 DEF Open, NewWatcher
<1>16. CASE End
  BY <1>16 DEF End, Idle
<1>17. CASE Start
  BY <1>17 DEF Start, StartCleanup
<1>18. CASE WatcherThread
  <2>1. ASSUME NEW l \in known, Scan(l) PROVE FilesInv'
    <3>1. PICK b \in Builds \ {l.build} :
            Put(b) /\ (wpc' = "send" => scan'.got = b)
      BY <2>1 DEF Scan
    <3>2. UNCHANGED <<source, run, event>> /\ wpc # "send"
      BY <2>1 DEF Scan, WatcherStep
    <3> QED
      BY <3>1, <3>2 DEF Put
  <2>2. CASE SendEvent
    BY <2>2 DEF SendEvent, WatcherStep
  <2>3. CASE Receive \/ Leave
    <3>1. wpc' # "send" /\ UNCHANGED <<source, run, files, event, overtaken>>
      BY <2>3 DEF Receive, Leave, WatcherStep
    <3> QED
      BY <3>1
  <2> QED
    BY <1>18, <2>1, <2>2, <2>3 DEF WatcherThread
<1>19. ASSUME NEW r \in Slots, Thread(r) PROVE FilesInv'
  <2>1. UNCHANGED <<source, wpc, scan, event>>
    BY <1>19 DEF Thread, CopySource, PutImport, VerifyFiles, ThreadStep
  <2>2. CASE CopySource(r)
    <3>1. UNCHANGED <<files, overtaken>> /\ run[r].at = "copy"
      BY <2>2 DEF CopySource
    <3>2. run[r].got = None
      BY <3>1 DEF FilesInv
    <3>3. CASE run' = [run EXCEPT ![r].at = "done"]
      BY <2>1, <3>1, <3>2, <3>3
    <3>4. ASSUME NEW b \in Builds, run' = [run EXCEPT ![r].at = "put", ![r].got = b]
          PROVE  FilesInv'
      BY <2>1, <3>1, <3>2, <3>4
    <3> QED
      BY <2>2, <3>3, <3>4 DEF CopySource
  <2>3. CASE VerifyFiles(r)
    <3>1. UNCHANGED <<files, overtaken>> /\ run[r].at = "verify"
      BY <2>3 DEF VerifyFiles
    <3>2. run[r].path = None
      BY <3>1 DEF FilesInv
    <3>3. CASE run' = [run EXCEPT ![r].at = "done"]
      BY <2>1, <3>1, <3>2, <3>3
    <3>4. CASE run' = [run EXCEPT ![r].at = "done", ![r].got = None]
      BY <2>1, <3>1, <3>2, <3>4
    <3> QED
      BY <2>3, <3>3, <3>4 DEF VerifyFiles
  <2>4. CASE PutImport(r)
    <3>1. run[r].got \in Builds \cup {None}
      OBVIOUS
    <3>2. CASE Put(run[r].got) /\ run' = [run EXCEPT ![r].at = "done"]
      BY <2>1, <3>1, <3>2 DEF Put
    <3>3. CASE /\ Put(run[r].got) \/ UNCHANGED <<files, overtaken>>
               /\ run' = [run EXCEPT ![r].at = "done", ![r].got = None]
      BY <2>1, <3>1, <3>3 DEF Put
    <3> QED
      BY <2>4, <3>2, <3>3 DEF PutImport
  <2> QED
    BY <1>19, <2>2, <2>3, <2>4 DEF Thread
<1>20. ASSUME NEW r \in Slots, CollectImport(r) PROVE FilesInv'
  <2>1. /\ Over(r) /\ UNCHANGED <<files, overtaken, wpc, scan, event>>
        /\ run[r].at = "done" /\ run[r].got \in Builds
    BY <1>20 DEF CollectImport
  <2>2. CASE run[r].path # None /\ Commit(run[r].got, run[r].path)
    BY <2>1, <2>2 DEF Commit, Over, Idle
  <2>3. CASE UNCHANGED books
    BY <2>1, <2>3 DEF Over, Idle
  <2> QED
    BY <1>20, <2>2, <2>3 DEF CollectImport
<1>21. ASSUME NEW r \in Slots, CollectFailure(r) PROVE FilesInv'
  BY <1>21 DEF CollectFailure, Over, Ready, Idle
<1> QED
  BY Steps, <1>1, <1>2, <1>3, <1>4, <1>5, <1>6, <1>7, <1>8, <1>9, <1>10, <1>11, <1>12,
     <1>13, <1>14, <1>15, <1>16, <1>17, <1>18, <1>19, <1>20, <1>21


\* What is proved of every reachable state.
IInv ==
    TypeOK /\ Phases /\ InventoryExplained /\ QueueInv /\ StoppedNeverBlocks /\ FilesInv

\* The first start, with an empty folder.
LEMMA Initially == Init => IInv
<1> SUFFICES ASSUME Init PROVE IInv
  OBVIOUS
<1>1. TypeOK
  BY DEF Init, TypeOK, BooksOK, ShelvesOK, QueueOK, CleanupOK, WatcherOK, Idle
<1>2. Phases /\ InventoryExplained /\ QueueInv /\ StoppedNeverBlocks
  BY DEF Init, Phases, InventoryExplained, QueueInv, OperationsHaveWorkers, StoppedNeverBlocks,
     Library, Active, Idle
<1>3. FilesInv
  BY DEF Init, FilesInv, FilesExplained, InFlight, Library, Idle
<1> QED
  BY <1>1, <1>2, <1>3 DEF IInv

\* Every conjunct is kept with the help of the others; none of the named properties is
\* inductive alone.
THEOREM Invariance == Spec => []IInv
<1>1. IInv /\ [Next]_vars => IInv'
  BY TypeStep, PhaseStep, InventoryStep, QueueStep, StopStep, FilesStep DEF IInv
<1> QED
  BY <1>1, Initially, PTL DEF Spec

\* The types of Library are right.
THEOREM TypeCorrect == Spec => []TypeOK
  BY Invariance, PTL DEF IInv

\* Artifact records are those of the library and of pending removals, whatever fails and
\* whenever the process ends (storage/mods.rs:152-154, 177-178, storage/packages.rs:325).
THEOREM InventoryIsExplained == Spec => []InventoryExplained
  BY Invariance, PTL DEF IInv

\* Builds of the library have their files, but for those the watcher was overtaken with.
THEOREM LibraryKeepsFiles == Spec => []FilesExplained
<1>1. IInv => FilesExplained
  BY DEF IInv, FilesInv
<1> QED
  BY <1>1, Invariance, PTL

\* The operations saved as unfinished are those that have a thread.
THEOREM UnfinishedHaveWorkers == Spec => []OperationsHaveWorkers
<1>1. IInv => OperationsHaveWorkers
  BY DEF IInv, QueueInv
<1> QED
  BY <1>1, Invariance, PTL

\* Library, records, folder and threads agree, whatever is interrupted (the three above).
THEOREM RecordsAlwaysAgree == Spec => []RecordsAgree
<1>1. FilesInv => FilesExplained
  BY DEF FilesInv
<1>2. QueueInv => OperationsHaveWorkers
  BY DEF QueueInv
<1>3. IInv => RecordsAgree
  BY <1>1, <1>2 DEF IInv, RecordsAgree
<1> QED
  BY <1>3, Invariance, PTL

\* A watcher told to stop is never kept by a full channel.
THEOREM WatcherCanStop == Spec => []StoppedNeverBlocks
  BY Invariance, PTL DEF IInv

\* An import that was being cancelled is not committed.
THEOREM CancellationWins == Spec => CancelledNotCommitted
<1> DEFINE Kept == \A r \in Slots : status[r] = "cancelling" /\ status'[r] = "over"
                                      => UNCHANGED books
<1>1. IInv /\ [Next]_vars => [Kept]_vars
  <2> SUFFICES ASSUME IInv, [Next]_vars,
                      NEW r \in Slots, status[r] = "cancelling", status'[r] = "over"
               PROVE  UNCHANGED books
    OBVIOUS
  <2> USE DEF saved, books, worker, watcher, channels, vars
  <2>1. CASE Quiet
    BY <2>1 DEF Quiet
  <2>2. ASSUME NEW q \in Slots, CollectImport(q) PROVE UNCHANGED books
    <3>1. Over(q) /\ ~run[q].cancelled /\ run[q].at = "done"
      BY <2>2 DEF CollectImport
    <3>2. q = r
      BY <3>1 DEF Over, IInv, TypeOK, QueueOK
    <3> QED
      BY <3>1, <3>2 DEF IInv, QueueInv
  <2>3. CASE \/ \E q \in Slots : Thread(q) \/ CollectFailure(q)
             \/ Open \/ End \/ Start \/ StopWatcher \/ RestartWatcher \/ WatcherThread
    BY <2>3 DEF Thread, CopySource, PutImport, VerifyFiles, ThreadStep, CollectFailure,
       Open, End,
       Start, StopWatcher, RestartWatcher, WatcherThread, Receive, Scan, SendEvent, Leave,
       WatcherStep
  <2>4. CASE \/ \E b \in Builds, yes \in BOOLEAN : Uninstall(b, yes)
             \/ PollWatcher \/ FinishRemoval
    <3>1. UNCHANGED status
      BY <2>4 DEF Uninstall, PollWatcher, FinishRemoval
    <3> QED
      BY <3>1
  <2>5. CASE \/ \E q \in Slots : \/ \E p \in Sources : ImportLocal(q, p)
                                 \/ \E b \in Builds : VerifyLocal(q, b)
                                 \/ CancelImport(q)
             \/ RetryCleanup \/ (\E b \in todo : CleanNext(b)) \/ RemoveFiles \/ RemoveFails
             \/ CleanupEnds
    BY <2>5 DEF ImportLocal, VerifyLocal, Begin, CancelImport, RetryCleanup, CleanNext,
       RemoveFiles, RemoveFails, CleanupEnds
  <2> QED
    BY Steps, <2>1, <2>2, <2>3, <2>4, <2>5
<1>2. [Kept]_vars => [\A r \in Slots : status[r] = "cancelling" /\ status'[r] = "over"
                                          => UNCHANGED books]_vars
  OBVIOUS
<1> QED
  BY <1>1, Invariance, PTL DEF Spec, CancelledNotCommitted

\* Whatever commits an import or a rebuild makes the view stale, so the view a later edit is
\* accepted from shows the library and the collections as they are (storage/packages.rs:354,
\* mods.rs:250).
THEOREM AcceptedViewsAreCurrent == Spec => AcceptedViewIsCurrent
<1>1. [Next]_vars => [fresh /\ fresh' => UNCHANGED <<source, watch, shelves>>]_vars
  <2> SUFFICES ASSUME [Next]_vars, fresh, fresh' PROVE UNCHANGED <<source, watch, shelves>>
    OBVIOUS
  <2> USE DEF saved, books, shelves, worker, watcher, channels, vars
  <2>1. CASE View \/ StopWatcher \/ RestartWatcher \/ Open \/ End \/ Start
    BY <2>1 DEF View, StopWatcher, RestartWatcher, Open, End, Start
  <2>2. CASE Player
    <3>1. ASSUME NEW c \in Collections,
                 \/ CreateCollection(c) \/ ImportCollection(c) \/ RenameOrReorder(c)
                 \/ DeleteCollection(c) \/ SelectCollection(c)
          PROVE  ~fresh'
      BY <3>1 DEF CreateCollection, ImportCollection, RenameOrReorder, DeleteCollection,
         SelectCollection, Edit
    <3>2. ASSUME NEW b \in Builds, NEW yes \in BOOLEAN, SetEnabled(b, yes) \/ Uninstall(b, yes)
          PROVE  ~fresh'
      BY <3>2 DEF SetEnabled, Uninstall, Edit
    <3>3. ASSUME NEW r \in Slots,
                 \/ \E p \in Sources : ImportLocal(r, p)
                 \/ \E b \in Builds : VerifyLocal(r, b)
                 \/ CancelImport(r)
          PROVE  UNCHANGED <<source, watch, shelves>>
      BY <3>3 DEF ImportLocal, VerifyLocal, Begin, CancelImport
    <3>4. RetryCleanup => ~fresh'
      BY DEF RetryCleanup
    <3> QED
      BY <2>2, <3>1, <3>2, <3>3, <3>4 DEF Player
  <2>3. CASE Cleaning
    BY <2>3 DEF Cleaning, CleanNext, RemoveFiles, RemoveFails, FinishRemoval, CleanupEnds
  <2>4. CASE PollWatcher
    BY <2>4 DEF PollWatcher, CompleteWatch, Commit
  <2>5. CASE WatcherThread
    BY <2>5 DEF WatcherThread, Receive, Scan, SendEvent, Leave, WatcherStep
  <2>6. ASSUME NEW r \in Slots, Thread(r) \/ Collect(r)
        PROVE  UNCHANGED <<source, watch, shelves>>
    BY <2>6 DEF Thread, CopySource, PutImport, VerifyFiles, ThreadStep, Collect, CollectImport,
       CollectFailure, Commit
  <2>7. CASE UNCHANGED vars
    BY <2>7
  <2> QED
    BY <2>1, <2>2, <2>3, <2>4, <2>5, <2>6, <2>7 DEF Next
<1> QED
  BY <1>1, PTL DEF Spec, AcceptedViewIsCurrent
=============================================================================
