--------------------------- MODULE RegistryQueue ---------------------------
(***************************************************************************)
(* The queue of approved registry downloads and installations              *)
(* (packages/registry.rs), the rows and receipt claims it saves            *)
(* (storage/packages.rs, storage/registry.rs) and the archives, partial    *)
(* stages and artifacts it leaves on disk.                                 *)
(*                                                                         *)
(* A worker thread or task carries out each step and sends one result; the *)
(* storage worker collects it in poll_registry, saves, and starts the next *)
(* step.  Cancel, sign-out, a changed approval, a storage call that fails, *)
(* a worker that dies and the end of the process come between any two.     *)
(***************************************************************************)
EXTENDS Naturals, FiniteSets

CONSTANTS
  Ops,          \* operation ids; the download of an operation has its id too
  Hashes,       \* archives; one release and one artifact for each
  Requests,     \* bound: the <<operation, kind, archive>> a player may ask for
  Slots,        \* at most this many operations at once: three
  MaxFaults,    \* bound: storage calls that fail, workers that die, spoilt archives
  MaxRestarts,  \* bound: ends of the process
  None

Kinds == {"archive", "install", "verification"}
Steps == {"cached", "transfer", "promote", "receipt", "install", "verify"}
Results == {"running", "ok", "unconfirmed", "failed", "cancelled", "dead"}
Unfinished == {"preparing", "cancelling"}
Statuses == Unfinished \cup {"completed", "failed", "cancelled"}

Operations == [kind : Kinds, hash : Hashes, status : Statuses, receipt : BOOLEAN]
Actives == [kind : Kinds, hash : Hashes, status : Statuses, receipt : BOOLEAN,
            step : Steps, result : Results, approved : BOOLEAN,
            cancel : BOOLEAN, abort : BOOLEAN, signedOut : BOOLEAN]

ASSUME RequestAssumption == Requests \subseteq Ops \X Kinds \X Hashes
ASSUME SlotsAssumption == Slots \in Nat \ {0}
ASSUME BoundAssumption == {MaxFaults, MaxRestarts} \subseteq Nat
ASSUME NoneAssumption == None \notin Operations \cup Actives

VARIABLES
  row,        \* package_operations
  claims,     \* registry_receipt_attempts
  active,     \* Packages.active and registry_active
  retries,    \* registry_receipts: acknowledgements that are tried again
  archive,    \* registry-archives/<hash>.zip: "none", "good" or "bad"
  stages,     \* registry-archives/<operation>.part
  files,      \* artifacts/<hash>
  library,    \* registry_library: installed releases
  removals,   \* pending removals
  faults, restarts,
  lost,       \* auxiliary: operations a failing storage call dropped
  left,       \* auxiliary: operations the end of the process dropped
  installs,   \* auxiliary: operations whose installation was committed
  recorded,   \* auxiliary: operations whose claim was saved
  acked       \* auxiliary: downloads whose receipt the registry has

durable == <<row, claims, archive, stages, files, library, removals>>
queue == <<active, retries>>
aux == <<left, installs, recorded, acked>>
vars == <<durable, queue, restarts, faults, lost, aux>>

-----------------------------------------------------------------------------
(* The queue *)

Active == {o \in Ops : active[o] # None}
\* Mutant of BusyHash: registry operations are not looked at.
BusyHashLocal(h) == \E o \in Active : active[o].hash = h /\ active[o].kind = "verification"

BusyHash(h) == \E o \in Active : active[o].hash = h

CanStart(h) == Cardinality(Active) < Slots /\ ~BusyHash(h)

\* The part of an operation that is saved.
Saved(a) == [kind |-> a.kind, hash |-> a.hash, status |-> a.status, receipt |-> a.receipt]

\* Mutant of Wanted: only a sign-out is looked at.
WantedIgnoresCancel(a) == ~a.abort

\* cancel.check() and the flag of the session.
Wanted(a) == ~a.cancel /\ ~a.abort
Refused(a) == IF a.cancel THEN "cancelled" ELSE "failed"

\* A storage call fails in the middle of a poll: `?` leaves the operation out of the map.
StorageFails(o) ==
  /\ faults < MaxFaults
  /\ faults' = faults + 1
  /\ lost' = lost \cup {o}

\* The operation is over: it is saved one last time on top of the rows so far.
EndWith(o, rows, a) ==
  /\ active' = [active EXCEPT ![o] = None]
  /\ \/ row' = [rows EXCEPT ![o] = Saved(a)] /\ UNCHANGED <<faults, lost>>
     \/ row' = rows /\ StorageFails(o)

\* The operation goes on with its next step once it is saved.
GoOn(o, rows, a) ==
  \/ /\ row' = [rows EXCEPT ![o] = Saved(a)]
     /\ active' = [active EXCEPT ![o] = a]
     /\ UNCHANGED <<faults, lost>>
  \/ row' = rows /\ active' = [active EXCEPT ![o] = None] /\ StorageFails(o)

New(kind, h, step) ==
  [kind |-> kind, hash |-> h, status |-> "preparing", receipt |-> FALSE,
   step |-> step, result |-> "running", approved |-> TRUE,
   cancel |-> FALSE, abort |-> FALSE, signedOut |-> FALSE]

Begin(o, a) ==
  /\ row' = [row EXCEPT ![o] = Saved(a)]
  /\ active' = [active EXCEPT ![o] = a]

\* recover_stages: partial files of operations that are not active are removed.
RecoveredStages == stages \cap Active

\* start_registry_inner, with a session and an approved release: an archive that is
\* saved is only checked again.
StartRegistry(o, kind, h) ==
  /\ <<o, kind, h>> \in Requests
  /\ row[o] = None
  /\ h \notin removals
  /\ CanStart(h)
  /\ \/ archive[h] # "none" /\ Begin(o, New(kind, h, "cached")) /\ stages' = RecoveredStages
     \/ /\ archive[h] = "none"
        /\ Begin(o, New(kind, h, "transfer"))
        /\ stages' = RecoveredStages \cup {o}
  /\ UNCHANGED <<claims, archive, files, library, removals, retries, restarts, faults, lost, aux>>

\* verify_registry_installed: needs neither a session nor a fresh approval.
VerifyInstalled(o, h) ==
  /\ <<o, "verification", h>> \in Requests
  /\ row[o] = None
  /\ CanStart(h)
  /\ h \in library
  /\ Begin(o, New("verification", h, "verify"))
  /\ UNCHANGED <<claims, archive, stages, files, library, removals, retries, restarts, faults, lost, aux>>

CancelOperation(o) ==
  /\ active[o] # None
  /\ ~active[o].cancel
  /\ LET a == [active[o] EXCEPT !.cancel = TRUE, !.status = "cancelling"] IN
       active' = [active EXCEPT ![o] = a] /\ row' = [row EXCEPT ![o] = Saved(a)]
  /\ UNCHANGED <<claims, archive, stages, files, library, removals, retries, restarts, faults, lost, aux>>

-----------------------------------------------------------------------------
(* Workers *)

Answer(o, r) == active' = [active EXCEPT ![o].result = r]
Runs(o, step) == active[o] # None /\ active[o].step = step /\ active[o].result = "running"

CachedDone(o) ==
  /\ Runs(o, "cached")
  /\ Answer(o, IF active[o].cancel THEN "cancelled"
               ELSE IF active[o].abort \/ archive[active[o].hash] # "good" THEN "failed"
               ELSE "ok")
  /\ UNCHANGED <<durable, retries, restarts, faults, lost, aux>>

\* download_with_renewal, then confirm_download_session, which may refuse.
TransferDone(o) ==
  /\ Runs(o, "transfer")
  /\ \E r \in {"ok", "unconfirmed", "failed", "cancelled"} :
       (r = "cancelled" => active[o].abort) /\ Answer(o, r)
  /\ UNCHANGED <<durable, retries, restarts, faults, lost, aux>>

\* promote: the stage becomes the archive unless a good one is there already.
PromoteDone(o) ==
  /\ Runs(o, "promote")
  /\ LET h == active[o].hash IN
     \/ /\ active[o].cancel \/ active[o].abort \/ archive[h] = "bad"
        /\ Answer(o, Refused(active[o]))
        /\ UNCHANGED <<archive, stages>>
     \/ /\ Wanted(active[o])
        /\ archive[h] # "bad"
        /\ archive' = [archive EXCEPT ![h] = "good"]
        /\ stages' = stages \ {o}
        /\ Answer(o, "ok")
  /\ UNCHANGED <<row, claims, files, library, removals, retries, restarts, faults, lost, aux>>

\* retry_receipt; an answer that is lost is a failure.
ReceiptDone(o) ==
  /\ Runs(o, "receipt")
  /\ \/ Answer(o, "ok") /\ acked' = acked \cup {o}
     \/ Answer(o, "failed") /\ UNCHANGED acked
  /\ UNCHANGED <<durable, retries, restarts, faults, lost, left, installs, recorded>>

\* prepare_registry_archive: the verified content becomes the artifact.
InstallDone(o) ==
  /\ Runs(o, "install")
  /\ \/ active[o].cancel /\ Answer(o, "cancelled") /\ UNCHANGED files
     \/ Answer(o, "failed") /\ UNCHANGED files
     \/ /\ archive[active[o].hash] = "good"
        /\ files' = files \cup {active[o].hash}
        /\ Answer(o, "ok")
  /\ UNCHANGED <<row, claims, archive, stages, library, removals, retries, restarts, faults, lost, aux>>

VerifyDone(o) ==
  /\ Runs(o, "verify")
  /\ \/ active[o].cancel /\ Answer(o, "cancelled")
     \/ Answer(o, IF active[o].hash \in files THEN "ok" ELSE "failed")
  /\ UNCHANGED <<durable, retries, restarts, faults, lost, aux>>

WorkerDies(o) ==
  /\ active[o] # None
  /\ active[o].result = "running"
  /\ faults < MaxFaults
  /\ faults' = faults + 1
  /\ Answer(o, "dead")
  /\ UNCHANGED <<durable, retries, restarts, lost, aux>>

\* The task that watches cancel and sign-out for a transfer. The cached check looks
\* at the session's own flag.
Abort(o) ==
  /\ active[o] # None
  /\ active[o].cancel \/ active[o].signedOut
  /\ ~active[o].abort
  /\ active' = [active EXCEPT ![o].abort = TRUE]
  /\ UNCHANGED <<durable, retries, restarts, faults, lost, aux>>

-----------------------------------------------------------------------------
(* poll_registry *)

\* Mutant of Collected: a worker that died sends no result to collect.
CollectedSent(o, step) ==
  active[o] # None /\ active[o].step = step /\ active[o].result \notin {"running", "dead"}

\* A result was received, or the worker is finished without one.
Collected(o, step) == active[o] # None /\ active[o].step = step /\ active[o].result # "running"

Ended(a) == [a EXCEPT !.status = IF a.result = "cancelled" THEN "cancelled" ELSE "failed"]

\* begin_installation, or its refusal; space may be short.
BeginInstallation(o, rows, a) ==
  \/ /\ Wanted(a)
     /\ a.approved
     /\ row' = [rows EXCEPT ![o] = [Saved(a) EXCEPT !.status = "preparing"]]
     /\ active' = [active EXCEPT ![o] =
          [a EXCEPT !.status = "preparing", !.step = "install", !.result = "running"]]
     /\ UNCHANGED <<faults, lost>>
  \/ EndWith(o, rows, [a EXCEPT !.status = Refused(a)])

\* Mutant of Complete: an installation is done when its archive is.
CompleteAlways(o, rows, a) == EndWith(o, rows, a)

\* A completed download: an installation goes on, an archive is done.
Complete(o, rows, a) ==
  IF a.kind = "install" THEN BeginInstallation(o, rows, a) ELSE EndWith(o, rows, a)

PollCached(o) ==
  /\ Collected(o, "cached")
  /\ IF active[o].result = "ok"
       THEN Complete(o, row, [active[o] EXCEPT !.status = "completed"])
       ELSE EndWith(o, row, Ended(active[o]))
  /\ UNCHANGED <<claims, archive, stages, files, library, removals, retries, restarts, aux>>

\* The claim and its link are saved in one transaction before anything is decided.
PollTransferred(o) ==
  LET a == [active[o] EXCEPT !.receipt = TRUE]
      rows == [row EXCEPT ![o] = Saved(a)]
  IN
  /\ Collected(o, "transfer")
  /\ active[o].result \in {"ok", "unconfirmed"}
  /\ \/ /\ claims' = claims \cup {o}
        /\ recorded' = recorded \cup {o}
        /\ IF Wanted(a) /\ a.result = "ok" /\ a.approved
             THEN GoOn(o, rows, [a EXCEPT !.step = "promote", !.result = "running"]) /\ UNCHANGED stages
             ELSE EndWith(o, rows, [a EXCEPT !.status = Refused(a)]) /\ stages' = stages \ {o}
     \/ /\ StorageFails(o)
        /\ active' = [active EXCEPT ![o] = None]
        /\ UNCHANGED <<row, claims, recorded, stages>>
  /\ UNCHANGED <<archive, files, library, removals, retries, restarts, left, installs, acked>>

\* Mutant of PollTransferFailed: the partial file of a failed transfer is kept.
PollTransferFailedKeeps(o) ==
  /\ Collected(o, "transfer")
  /\ active[o].result \in {"failed", "cancelled", "dead"}
  /\ EndWith(o, row, Ended(active[o]))
  /\ UNCHANGED <<claims, archive, stages, files, library, removals, retries, restarts, aux>>

PollTransferFailed(o) ==
  /\ Collected(o, "transfer")
  /\ active[o].result \in {"failed", "cancelled", "dead"}
  /\ EndWith(o, row, Ended(active[o]))
  /\ stages' = stages \ {o}
  /\ UNCHANGED <<claims, archive, files, library, removals, retries, restarts, aux>>

PollPromoted(o) ==
  /\ Collected(o, "promote")
  /\ IF active[o].result = "ok"
       THEN /\ GoOn(o, row, [active[o] EXCEPT
                 !.status = IF active[o].kind = "install" THEN "preparing" ELSE "completed",
                 !.step = "receipt", !.result = "running"])
            /\ UNCHANGED stages
       ELSE EndWith(o, row, Ended(active[o])) /\ stages' = stages \ {o}
  /\ UNCHANGED <<claims, archive, files, library, removals, retries, restarts, aux>>

\* finish_registry_receipt clears claim and link in one transaction. The row says
\* completed then, before an installation has begun.
PollAcknowledged(o) ==
  LET a == [active[o] EXCEPT !.status = "completed", !.receipt = FALSE]
  IN
  /\ Collected(o, "receipt")
  /\ active[o].result = "ok"
  /\ \/ claims' = claims \ {o} /\ Complete(o, [row EXCEPT ![o] = Saved(a)], a)
     \/ /\ StorageFails(o)
        /\ active' = [active EXCEPT ![o] = None]
        /\ UNCHANGED <<row, claims>>
  /\ UNCHANGED <<archive, stages, files, library, removals, retries, restarts, aux>>

\* The archive is saved, the claim stays for a later session.
PollUnacknowledged(o) ==
  /\ Collected(o, "receipt")
  /\ \/ active[o].result = "failed"
     \/ active[o].result = "dead" /\ active[o].status = "completed"
  /\ Complete(o, row, [active[o] EXCEPT !.status = "completed"])
  /\ UNCHANGED <<claims, archive, stages, files, library, removals, retries, restarts, aux>>

\* A dead receipt worker of an installation is taken for a dead archive worker.
PollReceiptDead(o) ==
  /\ Collected(o, "receipt")
  /\ active[o].result = "dead"
  /\ active[o].status # "completed"
  /\ EndWith(o, row, Ended(active[o]))
  /\ UNCHANGED <<claims, archive, stages, files, library, removals, retries, restarts, aux>>

\* complete_registry_install saves release, artifact record and operation at once.
PollInstalled(o) ==
  LET a == active[o] IN
  /\ Collected(o, "install")
  /\ \/ /\ a.result = "ok" /\ Wanted(a) /\ a.approved /\ a.hash \notin removals
        /\ library' = library \cup {a.hash}
        /\ installs' = installs \cup {o}
        /\ row' = [row EXCEPT ![o] = [Saved(a) EXCEPT !.status = "completed"]]
        /\ active' = [active EXCEPT ![o] = None]
        /\ UNCHANGED <<faults, lost>>
     \/ /\ EndWith(o, row, [a EXCEPT !.status = IF a.result = "cancelled" THEN "cancelled" ELSE Refused(a)])
        /\ UNCHANGED <<library, installs>>
  /\ UNCHANGED <<claims, archive, stages, files, removals, retries, restarts, left, recorded, acked>>

\* Packages::poll: the release may have been blocked or uninstalled meanwhile. The
\* operation stays in the map when its result cannot be saved.
PollVerified(o) ==
  LET a == active[o] IN
  /\ Collected(o, "verify")
  /\ \E status \in {"completed", "cancelled", "failed"} :
       /\ status = "completed" => ~a.cancel /\ a.result = "ok" /\ a.hash \in library
       /\ status = "cancelled" => a.cancel
       /\ status = "failed" => ~a.cancel /\ (a.result # "ok" \/ a.hash \notin library \/ ~a.approved)
       /\ row' = [row EXCEPT ![o] = [Saved(a) EXCEPT !.status = status]]
  /\ active' = [active EXCEPT ![o] = None]
  /\ UNCHANGED <<claims, archive, stages, files, library, removals, retries, restarts, faults, lost, aux>>

Poll(o) ==
  \/ PollCached(o) \/ PollTransferred(o) \/ PollTransferFailed(o) \/ PollPromoted(o)
  \/ PollAcknowledged(o) \/ PollUnacknowledged(o) \/ PollReceiptDead(o)
  \/ PollInstalled(o) \/ PollVerified(o)

-----------------------------------------------------------------------------
(* Receipts that are tried again *)

\* Mutant of Retriable: the claim of an operation in progress is tried too.
RetriableActive(o) == o \in claims /\ retries[o] = "none"

\* resume_registry_receipts passes over claims that are being dealt with.
Retriable(o) == o \in claims /\ retries[o] = "none" /\ ~(active[o] # None /\ o \in recorded)

ResumeReceipts ==
  /\ \E o \in Ops : Retriable(o)
  /\ retries' = [o \in Ops |-> IF Retriable(o) THEN "running" ELSE retries[o]]
  /\ UNCHANGED <<durable, active, restarts, faults, lost, aux>>

RetryDone(o) ==
  /\ retries[o] = "running"
  /\ \/ retries' = [retries EXCEPT ![o] = "ok"] /\ acked' = acked \cup {o}
     \/ retries' = [retries EXCEPT ![o] = "failed"] /\ UNCHANGED acked
  /\ UNCHANGED <<durable, active, restarts, faults, lost, left, installs, recorded>>

\* Mutant of PollRetry: a retry that is over clears its claim.
PollRetryAlways(o) ==
  /\ retries[o] \in {"ok", "failed"}
  /\ retries' = [retries EXCEPT ![o] = "none"]
  /\ claims' = claims \ {o}
  /\ row' = [row EXCEPT ![o].receipt = FALSE]
  /\ UNCHANGED <<archive, stages, files, library, removals, active, restarts, faults, lost, aux>>

PollRetry(o) ==
  /\ retries[o] \in {"ok", "failed"}
  /\ retries' = [retries EXCEPT ![o] = "none"]
  /\ \/ /\ retries[o] = "ok"
        /\ claims' = claims \ {o}
        /\ row' = [row EXCEPT ![o].receipt = FALSE]
        /\ UNCHANGED <<faults, lost>>
     \/ retries[o] = "failed" /\ UNCHANGED <<claims, row, faults, lost>>
     \/ /\ faults < MaxFaults
        /\ faults' = faults + 1
        /\ UNCHANGED <<claims, row, lost>>
  /\ UNCHANGED <<archive, stages, files, library, removals, active, restarts, aux>>

-----------------------------------------------------------------------------
(* The library, the session, the approval and the process *)

\* backend::mod_action: not while the archive is busy.
Uninstall(h) ==
  /\ h \in library
  /\ ~BusyHash(h)
  /\ library' = library \ {h}
  /\ removals' = removals \cup {h}
  /\ UNCHANGED <<row, claims, archive, stages, files, queue, restarts, faults, lost, aux>>

\* remove_artifact and finish_removal.
Cleanup(h) ==
  /\ h \in removals
  /\ files' = files \ {h}
  /\ removals' = removals \ {h}
  /\ UNCHANGED <<row, claims, archive, stages, library, queue, restarts, faults, lost, aux>>

\* Every operation holds the flag of the session it was started with; the player may
\* sign in again for the next one.
SignOut ==
  /\ \E o \in Active : ~active[o].signedOut
  /\ active' = [o \in Ops |-> IF active[o] = None THEN None
                              ELSE [active[o] EXCEPT !.signedOut = TRUE]]
  /\ UNCHANGED <<durable, retries, restarts, faults, lost, aux>>

\* RegistryTrust: the saved documents no longer derive the identity the operation
\* began with.
ApprovalChanges(o) ==
  /\ active[o] # None
  /\ active[o].approved
  /\ active' = [active EXCEPT ![o].approved = FALSE]
  /\ UNCHANGED <<durable, retries, restarts, faults, lost, aux>>

ArchiveSpoilt(h) ==
  /\ archive[h] = "good"
  /\ faults < MaxFaults
  /\ faults' = faults + 1
  /\ archive' = [archive EXCEPT ![h] = "bad"]
  /\ UNCHANGED <<row, claims, stages, files, library, removals, queue, restarts, lost, aux>>

\* Mutant of Recovered: an operation that was being cancelled is left as it is.
RecoveredPreparing(r) ==
  IF r # None /\ r.status = "preparing" THEN [r EXCEPT !.status = "failed"] ELSE r

\* recover_packages fails what is saved as unfinished.
Recovered(r) ==
  IF r # None /\ r.status \in Unfinished THEN [r EXCEPT !.status = "failed"] ELSE r

\* The process ends, at any time, and starts again.
Restart ==
  /\ restarts < MaxRestarts
  /\ restarts' = restarts + 1
  /\ left' = left \cup Active
  /\ active' = [o \in Ops |-> None]
  /\ retries' = [o \in Ops |-> "none"]
  /\ row' = [o \in Ops |-> Recovered(row[o])]
  /\ UNCHANGED <<claims, archive, stages, files, library, removals, faults, lost, installs, recorded, acked>>

Init ==
  /\ row = [o \in Ops |-> None]
  /\ claims = {}
  /\ active = [o \in Ops |-> None]
  /\ retries = [o \in Ops |-> "none"]
  /\ archive = [h \in Hashes |-> "none"]
  /\ stages = {}
  /\ files = {}
  /\ library = {}
  /\ removals = {}
  /\ faults = 0
  /\ restarts = 0
  /\ lost = {}
  /\ left = {}
  /\ installs = {}
  /\ recorded = {}
  /\ acked = {}

Worker(o) ==
  \/ CachedDone(o) \/ TransferDone(o) \/ PromoteDone(o) \/ ReceiptDone(o)
  \/ InstallDone(o) \/ VerifyDone(o)

Next ==
  \/ \E o \in Ops :
       \/ \E h \in Hashes :
            \/ \E k \in {"archive", "install"} : StartRegistry(o, k, h)
            \/ VerifyInstalled(o, h)
       \/ CancelOperation(o) \/ Worker(o) \/ WorkerDies(o) \/ Abort(o)
       \/ Poll(o) \/ RetryDone(o) \/ PollRetry(o) \/ ApprovalChanges(o)
  \/ ResumeReceipts
  \/ \E h \in Hashes : Uninstall(h) \/ Cleanup(h) \/ ArchiveSpoilt(h)
  \/ SignOut \/ Restart

Spec == Init /\ [][Next]_vars

\* Workers end: a request for a grant, a session or a receipt has its timeout. The content
\* of an archive has none (transport.rs:217), so a transfer ends only once it is aborted.
\* The storage worker keeps polling.
Ends(o) == Worker(o) /\ (active[o].step = "transfer" => active[o].abort)
Fairness == \A o \in Ops : WF_vars(Ends(o) \/ Poll(o) \/ Abort(o))
FairSpec == Spec /\ Fairness

-----------------------------------------------------------------------------
(* Properties *)

\* Types; and at most Slots operations, each on an archive of its own (packages.rs:247).
TypeOK ==
  /\ row \in [Ops -> Operations \cup {None}]
  /\ claims \subseteq Ops
  /\ active \in [Ops -> Actives \cup {None}]
  /\ retries \in [Ops -> {"none", "running", "ok", "failed"}]
  /\ archive \in [Hashes -> {"none", "good", "bad"}]
  /\ stages \subseteq Ops
  /\ files \subseteq Hashes
  /\ library \subseteq Hashes
  /\ removals \subseteq Hashes
  /\ faults \in 0..MaxFaults
  /\ restarts \in 0..MaxRestarts
  /\ lost \subseteq Ops
  /\ left \subseteq Ops
  /\ installs \subseteq Ops
  /\ recorded \subseteq Ops
  /\ acked \subseteq Ops
  /\ Cardinality(Active) <= Slots
  /\ \A o, u \in Active : active[o].hash = active[u].hash => o = u

\* A claim leaves only when the registry has the receipt, whatever is cancelled, restarted or
\* fails to be saved (packages/registry.rs:804), and until then a row is linked to it: "saves
\* its receipt claim and operation link in one storage transaction. A completed
\* acknowledgement clears both", with retries, cancels and polls that save the same row.
ReceiptsAreKept ==
  /\ recorded \subseteq claims \cup acked
  /\ \A o \in Ops : o \in claims <=> row[o] # None /\ row[o].receipt

\* An operation saved as unfinished is worked on, or a storage call failed under it
\* (packages/registry.rs:608 takes it out of the map before calls that return early).
UnfinishedIsActive ==
  \A o \in Ops : row[o] # None /\ row[o].status \in Unfinished => active[o] # None \/ o \in lost

\* "Failed or cancelled transfers remove their partial staging file after the worker
\* stops": a partial file belongs to an operation in progress or to one that was dropped.
StagesExplained == \A o \in stages : active[o] # None \/ o \in lost \cup left

\* Uninstall, cleanup, install and verification of one archive exclude each other so
\* that an installed release has its files (packages.rs:250, backend.rs:16).
InstalledHasFiles == library \subseteq files /\ library \cap removals = {}

\* An installation saved as completed was committed, unless its last save failed after
\* the acknowledgement had saved it as completed (packages/registry.rs:804).
CompletedIsInstalled ==
  \A o \in Ops :
    row[o] # None /\ row[o].kind = "install" /\ row[o].status = "completed"
      => o \in installs \cup lost

\* What the saved rows say is so: "preparing" is worked on, "completed" was committed, and no
\* partial file is left of anything else.
RowsAreTrue == UnfinishedIsActive /\ CompletedIsInstalled /\ StagesExplained

\* What is installed was approved when its download began and still is, was not
\* cancelled meanwhile, and came from bytes that were verified (packages/registry.rs:819).
InstallsAreWanted ==
  [][\A o \in Ops : o \in installs' \ installs =>
       /\ ~active[o].cancel
       /\ active[o].approved
       /\ active[o].hash \in files
       /\ row[o].status = "preparing"]_vars

\* A transfer nobody has stopped waits for its server for as long as that takes.
Waits(o) ==
  /\ active[o].step = "transfer"
  /\ active[o].result = "running"
  /\ ~active[o].cancel
  /\ ~active[o].signedOut

\* Every other operation comes to an end and frees its slot: none is held for ever by a
\* worker that died, a transfer that was cancelled or signed out, or a result that nobody
\* collects (packages/registry.rs:612).
OperationsEnd == []<>(\A o \in Active : Waits(o))

=============================================================================
