----------------------------- MODULE Deployment -----------------------------
(***************************************************************************)
(* The ownership journal of src-tauri/src/deployment.rs: how one game      *)
(* folder is switched from one set of Starframe files to another, file by  *)
(* file, while the process may stop, a call may fail, the game may start   *)
(* and other programs may edit the folder between any two steps.           *)
(*                                                                         *)
(* A "Files" value is the code's BTreeMap from path to hash, made total:   *)
(* a path without a key maps to Absent.  A content stands for its SHA-256. *)
(***************************************************************************)
EXTENDS Naturals

CONSTANTS
    Paths,      \* relative paths of the game folder
    Content,    \* contents a file can have, identified with their hashes
    Absent,     \* no file, no key
    NoPath,     \* no path is open
    Payloads,   \* the setups install / prepare_desktop may be asked for
    Folders,    \* what the game folder may hold before Starframe is used
    Plugins,    \* paths of DLLs below BepInEx/plugins and BepInEx/patchers
    Editable,   \* paths other programs may change
    EditTo,     \* what they may leave there
    MayClose    \* whether the player closes Starframe while it works

Files == [Paths -> Content \cup {Absent}]
Nothing == [p \in Paths |-> Absent]
Contents(f) == {f[p] : p \in Paths} \ {Absent}

ASSUME AbsentAssumption == Absent \notin Content
ASSUME NoPathAssumption == NoPath \notin Paths
ASSUME FilesAssumption == Payloads \subseteq Files /\ Folders \subseteq Files
ASSUME EditAssumption == Editable \subseteq Paths
                         /\ EditTo \subseteq Content \cup {Absent}
ASSUME PluginsAssumption == Plugins \subseteq Paths
ASSUME CloseAssumption == MayClose \in BOOLEAN

VARIABLES
    disk,      \* the game folder
    owned,     \* Record.owned, saved in SQLite
    pending,   \* Record.pending is Some, saved in SQLite
    next,      \* Journal.next; the running operation's own plan while ~pending
    borrowed,  \* Journal.borrowed; likewise
    retained,  \* deployment-content files and deployment_blobs rows
    pc,        \* where the operation stands
    op,        \* which operation runs, or ran last
    want,      \* the payload it was given
    forward,   \* Engine::replace is called by apply_sources, not by rollback
    todo,      \* changed paths the loop has not reached
    path,      \* the path Engine::replace works on
    game,      \* what guard_game observes
    closing,   \* Core::stopped, which prepare_desktop is given as `cancelled`
    user,      \* (auxiliary) the folder before Starframe was first used
    touched,   \* (auxiliary) paths another program has edited
    raced,     \* (auxiliary) path was edited after its last digest check
    overrun    \* (auxiliary) files changed since the game last started, up to 2

record  == <<owned, pending, next, borrowed>>
volatile == <<pc, op, want, forward, todo, path>>
outside == <<game, closing, user, touched>>
vars == <<disk, record, retained, volatile, outside, raced, overrun>>

Stopped == game = "Stopped"

\* Mutant: the game process is not looked at.
GuardIgnoresGame == TRUE

\* Preparations, and the rollback a failed one ends with, may be cancelled.
Cancellable == {"apply", "abort"}

\* guard_game: Ok only while the installation's process is observed stopped;
\* prepare_desktop's guard also refuses while Starframe closes.
Guard == Stopped /\ ~(closing /\ op \in Cancellable)

Mutating == {"opened", "staged", "swap"}

\* Mutant: paths the new setup drops are forgotten.
ChangedAdditions(before, after) == {p \in Paths : before[p] # after[p] /\ after[p] # Absent}

\* deployment.rs `changed`: the paths on which two file maps differ.
Changed(before, after) == {p \in Paths : before[p] # after[p]}

\* What Engine::replace expects to find at the open path, and what it puts there.
From == IF forward THEN owned[path] ELSE next[path]
To   == IF forward THEN next[path] ELSE owned[path]

Intact(f) == \A p \in Paths : f[p] # Absent => disk[p] = f[p]

Init ==
    /\ user \in Folders
    /\ disk = user
    /\ owned = Nothing /\ pending = FALSE /\ next = Nothing /\ borrowed = Nothing
    /\ retained = {}
    /\ pc = "idle" /\ op = "none" /\ want = Nothing /\ forward = FALSE
    /\ todo = {} /\ path = NoPath
    /\ game \in {"Stopped", "Running"} /\ closing = FALSE
    /\ touched = {} /\ raced = FALSE /\ overrun = 0

\* The call returns: its locals are dropped, the record stays.
Return ==
    /\ pc' = "idle" /\ want' = Nothing /\ forward' = FALSE /\ todo' = {} /\ path' = NoPath
    /\ raced' = FALSE

\* A plan that was never saved is gone with the call that made it.
DropPlan ==
    /\ next' = IF pending THEN next ELSE Nothing
    /\ borrowed' = IF pending THEN borrowed ELSE Nothing

\* The call returns an error (or refuses) without saving anything.
Fail == Return /\ DropPlan /\ UNCHANGED <<disk, owned, pending, retained, op, overrun>>

\* Where each operation goes once no journal is pending.
Continuation == [apply |-> "plan", remove |-> "scan", repair |-> "missing"]

\* Mutant: the open path outlives the failed replacement.
EnterRollbackKeepsPath ==
    pc' = "rollback" /\ forward' = FALSE /\ todo' = Changed(owned, next)
    /\ path' = path /\ raced' = FALSE

EnterRollback == pc' = "rollback" /\ forward' = FALSE /\ todo' = Changed(owned, next)
                 /\ path' = NoPath /\ raced' = FALSE

(***************************************************************************)
(* install, prepare_desktop, recover, remove and repair_missing: Engine's  *)
(* lock and guard, load, and the rollback each of them does first.         *)
(***************************************************************************)
Start(o, w) ==
    /\ pc = "idle" /\ Stopped
    /\ o = "apply" => ~closing
    /\ o = "recover" => pending
    /\ op' = o /\ want' = w
    /\ \/ pending /\ EnterRollback
       \/ /\ ~pending /\ pc' = Continuation[o]
          /\ UNCHANGED <<forward, todo, path, raced>>
    /\ UNCHANGED <<disk, record, retained, outside, overrun>>

Install(w) == Start("apply", w)
Recover == Start("recover", Nothing)
Remove == Start("remove", Nothing)
RepairMissing == Start("repair", Nothing)

(***************************************************************************)
(* rollback                                                                *)
(***************************************************************************)
RollbackSkip(p) ==
    /\ pc = "rollback" /\ p \in todo /\ disk[p] = owned[p]
    /\ todo' = todo \ {p}
    /\ UNCHANGED <<disk, record, retained, pc, op, want, forward, path,
                   outside, raced, overrun>>

\* Mutant: recovery takes every journalled path for one already switched.
RollbackUnknownUnlessSwitched(p) ==
    /\ pc = "rollback" /\ p \in todo /\ disk[p] # next[p]
    /\ Fail /\ UNCHANGED outside

RollbackUnknown(p) ==
    /\ pc = "rollback" /\ p \in todo /\ disk[p] \notin {owned[p], next[p]}
    /\ Fail /\ UNCHANGED outside

RollbackOpen(p) ==
    /\ pc = "rollback" /\ p \in todo /\ disk[p] # owned[p] /\ disk[p] = next[p]
    /\ pc' = "opened" /\ path' = p
    /\ UNCHANGED <<disk, record, retained, op, want, forward, todo,
                   outside, raced, overrun>>

RollbackVerify ==
    /\ pc = "rollback" /\ todo = {}
    /\ \/ /\ Intact(owned)
          /\ pc' = "restored"
          /\ UNCHANGED <<disk, record, retained, op, want, forward, todo, path,
                         raced, overrun>>
       \/ ~Intact(owned) /\ Fail
    /\ UNCHANGED outside

RollbackCommit ==
    /\ pc = "restored"
    /\ pending' = FALSE /\ next' = Nothing /\ borrowed' = Nothing
    /\ \/ op \in {"recover", "abort"} /\ Return
       \/ /\ op \notin {"recover", "abort"} /\ pc' = Continuation[op]
          /\ UNCHANGED <<want, forward, todo, path, raced>>
    /\ UNCHANGED <<disk, owned, retained, op, outside, overrun>>

(***************************************************************************)
(* Engine::replace: guard and digest, the temporary file, guard and digest *)
(* again, and the rename.  A removal has no temporary file and does not    *)
(* read the digest a second time.                                          *)
(***************************************************************************)
\* content::reader opens the retained copy; a missing or corrupt one is a Fault.
Stage ==
    /\ pc = "opened" /\ Guard /\ disk[path] = From
    /\ To # Absent => To \in retained
    /\ pc' = "staged"
    /\ UNCHANGED <<disk, record, retained, op, want, forward, todo, path,
                   outside, raced, overrun>>

\* Mutant: the digest is not read again after the temporary file is written.
StillExpectedUnread == TRUE

StillExpected == To # Absent => disk[path] = From

Recheck ==
    /\ pc = "staged" /\ Guard /\ StillExpected
    /\ pc' = "swap"
    /\ UNCHANGED <<disk, record, retained, op, want, forward, todo, path,
                   outside, raced, overrun>>

Swap ==
    /\ pc = "swap"
    /\ ~(To = Absent /\ disk[path] = Absent)   \* remove_file of a missing file fails
    /\ disk' = [disk EXCEPT ![path] = To]
    /\ overrun' = IF Stopped \/ overrun = 2 THEN overrun ELSE overrun + 1
    /\ pc' = IF forward THEN "apply" ELSE "rollback"
    /\ todo' = todo \ {path} /\ path' = NoPath /\ raced' = FALSE
    /\ UNCHANGED <<record, retained, op, want, forward, outside>>

\* Mutant: a rollback that meets an error starts over.
AbortStartsOver ==
    EnterRollback /\ op' = "recover" /\ UNCHANGED <<disk, record, retained, want, overrun>>

\* An error while files change: apply_sources rolls back, rollback gives up.
Abort ==
    IF forward
    THEN /\ EnterRollback
         /\ op' = IF op = "apply" THEN "abort" ELSE "recover"
         /\ UNCHANGED <<disk, record, retained, want, overrun>>
    ELSE Fail

ReplaceRefused ==
    /\ pc \in Mutating
    /\ \/ pc # "swap" /\ ~Guard
       \/ pc = "opened" /\ disk[path] # From
       \/ pc = "staged" /\ ~StillExpected
       \/ pc = "swap" /\ To = Absent /\ disk[path] = Absent
    /\ Abort /\ UNCHANGED outside

(***************************************************************************)
(* apply_sources once nothing is pending                                   *)
(***************************************************************************)
Conflict(p) == want[p] # Absent /\ owned[p] = Absent /\ disk[p] \notin {Absent, want[p]}

\* Mutant: a matching file is adopted.
BorrowsNothing(p) == FALSE

Borrows(p) == want[p] # Absent /\ owned[p] = Absent /\ disk[p] = want[p]

Plan ==
    /\ pc = "plan"
    /\ \/ /\ Guard /\ Intact(owned) /\ ~\E p \in Paths : Conflict(p)
          /\ borrowed' = [p \in Paths |-> IF Borrows(p) THEN want[p] ELSE Absent]
          /\ next' = [p \in Paths |-> IF Borrows(p) THEN Absent ELSE want[p]]
          /\ pc' = "journal" /\ want' = Nothing
          /\ UNCHANGED <<disk, owned, pending, retained, op, forward, todo, path,
                         raced, overrun>>
       \/ (~Guard \/ ~Intact(owned) \/ \E p \in Paths : Conflict(p)) /\ Fail
    /\ UNCHANGED outside

\* Mutant: only the content about to be replaced is retained.
BackupsOfOld == Contents(owned)

\* The content saved before the journal, or with it in one transaction.
Backups == Contents(owned) \cup Contents(next) \cup Contents(borrowed)

Journal ==
    /\ pc = "journal"
    /\ pending' = TRUE
    /\ retained' = retained \cup Backups
    /\ pc' = "apply" /\ forward' = TRUE /\ todo' = Changed(owned, next)
    /\ UNCHANGED <<disk, owned, next, borrowed, op, want, path, outside,
                   raced, overrun>>

ApplyOpen(p) ==
    /\ pc = "apply" /\ p \in todo
    /\ pc' = "opened" /\ path' = p
    /\ UNCHANGED <<disk, record, retained, op, want, forward, todo,
                   outside, raced, overrun>>

Verify ==
    /\ pc = "apply" /\ todo = {}
    /\ \/ /\ Intact(next) /\ Intact(borrowed) /\ Guard
          /\ pc' = "verified"
          /\ UNCHANGED <<disk, record, retained, op, want, forward, todo, path,
                         raced, overrun>>
       \/ ~(Intact(next) /\ Intact(borrowed) /\ Guard) /\ Abort
    /\ UNCHANGED outside

Commit ==
    /\ pc = "verified"
    /\ owned' = next /\ pending' = FALSE /\ next' = Nothing /\ borrowed' = Nothing
    /\ Return
    /\ UNCHANGED <<disk, retained, op, outside, overrun>>

(***************************************************************************)
(* remove: refused while a DLL Starframe does not own would lose its       *)
(* loader; otherwise apply_sources with nothing to install.                *)
(***************************************************************************)
ExternalDll == \E p \in Plugins : disk[p] # Absent /\ owned[p] = Absent

Scan ==
    /\ pc = "scan"
    /\ \/ ExternalDll /\ Fail
       \/ /\ ~ExternalDll
          /\ pc' = "plan"
          /\ UNCHANGED <<disk, record, retained, op, want, forward, todo, path,
                         raced, overrun>>
    /\ UNCHANGED outside

(***************************************************************************)
(* repair_missing: forget the owned files that are gone.                   *)
(***************************************************************************)
Missing ==
    /\ pc = "missing"
    /\ \/ /\ \A p \in Paths : disk[p] \in {Absent, owned[p]} \/ owned[p] = Absent
          /\ next' = [p \in Paths |-> IF disk[p] = owned[p] THEN owned[p] ELSE Absent]
          /\ pc' = "forget"
          /\ UNCHANGED <<disk, owned, pending, borrowed, retained, op, want, forward,
                         todo, path, raced, overrun>>
       \/ /\ \E p \in Paths : owned[p] # Absent /\ disk[p] \notin {Absent, owned[p]}
          /\ Fail
    /\ UNCHANGED outside

Forget ==
    /\ pc = "forget"
    /\ owned' = next /\ next' = Nothing
    /\ Return
    /\ UNCHANGED <<disk, pending, borrowed, retained, op, outside, overrun>>

(***************************************************************************)
(* What the worker does not choose                                         *)
(***************************************************************************)
\* A file, space or database call fails.
Fault ==
    /\ pc # "idle"
    /\ IF pc \in Mutating \cup {"apply"} THEN Abort ELSE Fail
    /\ UNCHANGED outside

\* The process ends without any cleanup, in the middle of an operation or because
\* it was closed; the next one starts afresh.
Crash ==
    /\ pc # "idle" \/ closing
    /\ Return /\ op' = "none" /\ DropPlan /\ closing' = FALSE
    /\ UNCHANGED <<disk, owned, pending, retained, game, user, touched, overrun>>

\* The close handler sets Core::stopped; the worker goes on.
Close ==
    /\ MayClose /\ ~closing /\ closing' = TRUE
    /\ UNCHANGED <<disk, record, retained, volatile, game, user, touched, raced, overrun>>

GameStarts ==
    /\ Stopped /\ game' = "Running" /\ overrun' = 0
    /\ UNCHANGED <<disk, record, retained, volatile, closing, user, touched, raced>>

GameStops ==
    /\ ~Stopped /\ game' = "Stopped"
    /\ UNCHANGED <<disk, record, retained, volatile, closing, user, touched, raced, overrun>>

\* The last digest check of the open path lies behind.
Unguarded == pc = "swap" \/ (pc = "staged" /\ To = Absent)

Edit(p, c) ==
    /\ disk[p] # c /\ disk' = [disk EXCEPT ![p] = c]
    /\ touched' = touched \cup {p}
    /\ raced' = (raced \/ (p = path /\ Unguarded))
    /\ UNCHANGED <<record, retained, volatile, game, closing, user, overrun>>

Step ==
    \/ \E p \in Paths : RollbackSkip(p) \/ RollbackUnknown(p) \/ RollbackOpen(p)
                        \/ ApplyOpen(p)
    \/ RollbackVerify \/ RollbackCommit
    \/ Stage \/ Recheck \/ Swap \/ ReplaceRefused
    \/ Plan \/ Journal \/ Verify \/ Commit
    \/ Scan \/ Missing \/ Forget

Request == (\E w \in Payloads : Install(w)) \/ Recover \/ Remove \/ RepairMissing

OutsideEdit == \E p \in Editable, c \in EditTo : Edit(p, c)

Environment == Crash \/ Close \/ Fault \/ GameStarts \/ GameStops \/ OutsideEdit

Next == Step \/ Request \/ Environment

Spec == Init /\ [][Next]_vars

\* The worker runs the operation it started.
FairSpec == Spec /\ WF_vars(Step)

-----------------------------------------------------------------------------
Operations == {"apply", "abort", "recover", "remove", "repair"}
Places == {"idle", "rollback", "restored", "plan", "journal", "apply", "verified",
           "scan", "missing", "forget"} \cup Mutating

TypeOK ==
    /\ disk \in Files /\ owned \in Files /\ next \in Files /\ borrowed \in Files
    /\ want \in Files /\ user \in Files
    /\ pending \in BOOLEAN /\ forward \in BOOLEAN /\ raced \in BOOLEAN
    /\ closing \in BOOLEAN /\ retained \subseteq Content
    /\ pc \in Places /\ op \in Operations \cup {"none"}
    /\ todo \subseteq Paths /\ touched \subseteq Paths
    /\ path \in Paths \cup {NoPath}
    /\ path # NoPath <=> pc \in Mutating
    /\ pc # "idle" => op # "none"
    /\ game \in {"Stopped", "Running"} /\ overrun \in 0..2

(***************************************************************************)
(* Properties                                                              *)
(***************************************************************************)
\* The content a file map leaves at a path: its own, or what was there before
\* Starframe was used.
Base(f, p) == IF f[p] # Absent THEN f[p] ELSE user[p]

\* Whatever crashes, failures and game starts happen, a path no other program
\* edited holds exactly what the saved record accounts for: the recorded file or
\* the player's original, and while a journal is pending one of the two sides of
\* the switch.  So removing the deployment gives the original folder back.
FolderIsAccounted ==
    \A p \in Paths \ touched :
        \/ disk[p] = Base(owned, p)
        \/ pending /\ disk[p] = Base(next, p)

\* Before any game file changes, the previous and the next content of every
\* journalled path is retained, so rollback never lacks the bytes it must restore.
BackupsRetained == pending => (Contents(owned) \cup Contents(next)) \subseteq retained

\* The guard is asked before every replacement, so at most one file changes after
\* the game has started, however long the operation still runs.
GameStartStopsWriting == overrun <= 1

\* Engine::replace destroys only content the record names for that path (an edit
\* that slips in behind the last digest check is the one exception), and never
\* touches a path outside the journal.
UnknownContentKept ==
    [][\A p \in Paths :
          pc = "swap" /\ pc' # "swap" /\ disk'[p] # disk[p] =>
              /\ pending /\ owned[p] # next[p]
              /\ disk[p] \in {Absent, owned[p], next[p]} \/ raced]_vars

\* Every operation returns, whatever other programs and the game do meanwhile.
EveryOperationReturns == pc # "idle" ~> pc = "idle"

\* The folder with an unfinished switch counted as not begun.
Folder == [p \in Paths |-> IF pending /\ owned[p] # next[p] THEN Base(owned, p) ELSE disk[p]]

Atomic == INSTANCE AtomicDeployment WITH files <- Folder, original <- user

\* The journal implements the one-step switch: through crashes, failing calls and
\* rollbacks the folder is only ever seen to go from one complete setup to another,
\* and files outside every setup are left to their owners.
SwitchIsAtomic == Atomic!Spec

-----------------------------------------------------------------------------
(***************************************************************************)
(* The inductive invariant behind the safety properties.                   *)
(***************************************************************************)
Applying == pc \in {"apply", "verified"} \/ (pc \in Mutating /\ forward)
RollingBack == pc \in {"rollback", "restored"} \/ (pc \in Mutating /\ ~forward)

\* Where an operation stands decides whether a journal is saved, which way
\* Engine::replace works and what is left to do.
PhaseInv ==
    /\ Applying => pending /\ forward
    /\ RollingBack => pending /\ ~forward
    /\ pc \in {"plan", "journal", "scan", "missing", "forget"} => ~pending
    /\ todo \subseteq Changed(owned, next)
    /\ todo # {} => Applying \/ RollingBack
    /\ pc \in {"verified", "restored"} => todo = {}
    /\ pc \in Mutating => path \in todo

\* Starframe only claims paths that were free.
ClaimInv ==
    \A p \in Paths \ touched :
        /\ owned[p] # Absent => user[p] = Absent
        /\ (pending \/ pc = "journal") /\ next[p] # Absent => user[p] = Absent
        /\ pc = "forget" => next[p] = owned[p]

\* A path the loop has dealt with is on the side the loop works towards.
ProgressInv ==
    \A p \in Paths \ (touched \cup todo) :
        /\ Applying => disk[p] = Base(next, p)
        /\ RollingBack => disk[p] = Base(owned, p)

\* Behind its last check the open path holds what the check saw.
CheckedInv == Unguarded => raced \/ disk[path] = From

OverrunInv == overrun <= 1 /\ (~Stopped /\ overrun = 1 => pc # "swap")

IInv == TypeOK /\ PhaseInv /\ ClaimInv /\ FolderIsAccounted /\ ProgressInv
        /\ BackupsRetained /\ CheckedInv /\ OverrunInv
=============================================================================
