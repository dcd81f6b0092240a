------------------------ MODULE RegistryQueueProofs ------------------------
(***************************************************************************)
(* The queue of registry downloads (RegistryQueue): one inductive          *)
(* invariant for any operations, archives, slots, faults and restarts.     *)
(* Most of it is said of each operation by itself (Held); what relates two *)
(* of them is that no two in progress are on one archive (Exclusive).      *)
(***************************************************************************)
EXTENDS RegistryQueue, FiniteSetTheorems, TLAPS

USE RequestAssumption, SlotsAssumption, BoundAssumption, NoneAssumption

Rows == [Ops -> Operations \cup {None}]
Queues == [Ops -> Actives \cup {None}]
Retries == [Ops -> {"none", "running", "ok", "failed"}]

\* An operation in progress is saved as it is, and what its step says of it is so.
Working(o) ==
  active[o] # None =>
    /\ row[o] = Saved(active[o])
    /\ active[o].status \in Unfinished \cup {"completed"}
    /\ active[o].status = "cancelling" => active[o].cancel
    /\ active[o].status = "completed" => active[o].kind = "archive" /\ active[o].step = "receipt"
    /\ active[o].step = "verify" <=> active[o].kind = "verification"
    /\ active[o].step = "receipt" /\ active[o].result = "ok" => o \in acked
    /\ active[o].step = "install" /\ active[o].result = "ok" => active[o].hash \in files
    /\ o \in stages => \/ active[o].step = "transfer"
                       \/ active[o].step = "promote" /\ active[o].result # "ok"
    /\ active[o].hash \notin removals

\* What is saved of an operation, or lies on the disk for it, is explained.
Explained(o) ==
  /\ o \in stages \cup lost \cup left => row[o] # None
  /\ row[o] # None /\ row[o].status \in Unfinished => active[o] # None \/ o \in lost
  /\ row[o] # None /\ row[o].kind = "install" /\ row[o].status = "completed" =>
       o \in installs \cup lost
  /\ o \in stages => active[o] # None \/ o \in lost \cup left

\* A claim is kept until it is acknowledged, and sent again only when its operation is over.
Claimed(o) ==
  /\ o \in recorded => o \in claims \cup acked
  /\ o \in claims => o \in recorded
  /\ o \in claims <=> row[o] # None /\ row[o].receipt
  /\ retries[o] # "none" => active[o] = None /\ row[o] # None
  /\ retries[o] = "ok" => o \in acked

Held(o) == Working(o) /\ Explained(o) /\ Claimed(o)

\* The operations in progress are few, on archives of their own.
Exclusive ==
  /\ IsFiniteSet(Active) /\ Cardinality(Active) <= Slots
  /\ \A o, u \in Active : active[o].hash = active[u].hash => o = u

Types ==
  /\ row \in Rows /\ active \in Queues /\ retries \in Retries
  /\ archive \in [Hashes -> {"none", "good", "bad"}]
  /\ claims \cup stages \cup lost \cup left \cup installs \cup recorded \cup acked \subseteq Ops
  /\ files \cup library \cup removals \subseteq Hashes
  /\ faults \in 0..MaxFaults /\ restarts \in 0..MaxRestarts

IInv == Types /\ Exclusive /\ InstalledHasFiles /\ \A o \in Ops : Held(o)

(***************************************************************************)
(* Steps of one operation.                                                 *)
(***************************************************************************)
\* What a step of the operation o leaves alone.
Local(o) ==
  /\ row' \in Rows /\ active' \in Queues /\ retries' \in Retries
  /\ \A u \in Ops \ {o} : row'[u] = row[u] /\ active'[u] = active[u] /\ retries'[u] = retries[u]
  /\ active'[o] # None => active[o] # None /\ active'[o].hash = active[o].hash
  /\ claims' \in {claims, claims \cup {o}, claims \ {o}}
  /\ recorded' \in {recorded, recorded \cup {o}}
  /\ acked' \in {acked, acked \cup {o}}
  /\ stages' \in {stages, stages \ {o}}
  /\ lost' \in {lost, lost \cup {o}}
  /\ installs' \in {installs, installs \cup {o}}
  /\ files \subseteq files' /\ files' \subseteq Hashes
  /\ library' \subseteq library \cup (files' \ removals) /\ library' \subseteq Hashes
  /\ archive' \in [Hashes -> {"none", "good", "bad"}]
  /\ faults' \in 0..MaxFaults
  /\ UNCHANGED <<left, removals, restarts>>

\* Operations that end make room.
LEMMA Shrinks ==
  ASSUME Exclusive, Active' \subseteq Active, \A u \in Active' : active'[u].hash = active[u].hash
  PROVE  Exclusive'
<1>1. IsFiniteSet(Active') /\ Cardinality(Active') <= Cardinality(Active)
  BY FS_Subset DEF Exclusive
<1>2. Cardinality(Active') \in Nat /\ Cardinality(Active) \in Nat
  BY <1>1, FS_CardinalityType DEF Exclusive
<1>3. Cardinality(Active') <= Slots
  BY <1>1, <1>2 DEF Exclusive
<1> QED
  BY <1>1, <1>3 DEF Exclusive

\* A step of one operation keeps the invariant if it keeps it for this operation.
LEMMA LocalStep ==
  ASSUME IInv, NEW o \in Ops, Local(o), Held(o)'
  PROVE  IInv'
<1>1. Types'
  BY DEF IInv, Types, Local
<1>2. Exclusive'
  <2>1. \A u \in Active' : u \in Active /\ active'[u].hash = active[u].hash
    BY DEF Local, Active
  <2> QED
    BY <2>1, Shrinks DEF IInv
<1>3. InstalledHasFiles'
  BY DEF IInv, InstalledHasFiles, Local
<1>4. ASSUME NEW u \in Ops, u # o PROVE Held(u)'
  <2>0. Held(u)
    BY DEF IInv
  <2>1. /\ row'[u] = row[u] /\ active'[u] = active[u] /\ retries'[u] = retries[u]
        /\ u \in claims' <=> u \in claims
        /\ u \in recorded' <=> u \in recorded
        /\ u \in acked' <=> u \in acked
        /\ u \in stages' <=> u \in stages
        /\ u \in lost' <=> u \in lost
        /\ u \in installs' <=> u \in installs
    BY <1>4 DEF Local
  <2>2. files \subseteq files' /\ removals' = removals /\ left' = left
    BY DEF Local
  <2>3. Working(u)'
    BY <2>0, <2>1, <2>2 DEF Held, Working
  <2>4. Explained(u)'
    BY <2>0, <2>1, <2>2 DEF Held, Explained
  <2>5. Claimed(u)'
    BY <2>0, <2>1, <2>2 DEF Held, Claimed
  <2> QED
    BY <2>3, <2>4, <2>5 DEF Held
<1> QED
  BY <1>1, <1>2, <1>3, <1>4 DEF IInv

\* What is saved of an operation is a row.
LEMMA SavedType ==
  ASSUME NEW a \in Actives
  PROVE  /\ Saved(a) \in Operations /\ Saved(a) # None /\ a # None
         /\ Saved(a).kind = a.kind /\ Saved(a).hash = a.hash
         /\ Saved(a).status = a.status /\ Saved(a).receipt = a.receipt
BY DEF Saved, Actives, Operations

\* An operation that ends is saved, or dropped.
LEMMA EndEffect ==
  ASSUME Types, NEW o \in Ops, NEW rows \in Rows, NEW a \in Actives, EndWith(o, rows, a)
  PROVE  /\ row' \in Rows /\ active' \in Queues /\ active'[o] = None
         /\ \A u \in Ops \ {o} : row'[u] = rows[u] /\ active'[u] = active[u]
         /\ faults' \in 0..MaxFaults
         /\ \/ row'[o] = Saved(a) /\ lost' = lost
            \/ row'[o] = rows[o] /\ lost' = lost \cup {o}
<1>1. Saved(a) \in Operations
  BY SavedType
<1>2. active' = [active EXCEPT ![o] = None]
  BY DEF EndWith
<1>3. CASE row' = [rows EXCEPT ![o] = Saved(a)] /\ UNCHANGED <<faults, lost>>
  BY <1>1, <1>2, <1>3 DEF Types, Rows, Queues
<1>4. CASE row' = rows /\ StorageFails(o)
  BY <1>2, <1>4 DEF Types, Rows, Queues, StorageFails
<1> QED
  BY <1>3, <1>4 DEF EndWith

\* An operation that goes on is saved as it goes on, or dropped.
LEMMA GoOnEffect ==
  ASSUME Types, NEW o \in Ops, NEW rows \in Rows, NEW a \in Actives, GoOn(o, rows, a)
  PROVE  /\ row' \in Rows /\ active' \in Queues
         /\ \A u \in Ops \ {o} : row'[u] = rows[u] /\ active'[u] = active[u]
         /\ faults' \in 0..MaxFaults
         /\ \/ row'[o] = Saved(a) /\ active'[o] = a /\ lost' = lost
            \/ row'[o] = rows[o] /\ active'[o] = None /\ lost' = lost \cup {o}
<1>1. Saved(a) \in Operations
  BY SavedType
<1>2. CASE row' = [rows EXCEPT ![o] = Saved(a)] /\ active' = [active EXCEPT ![o] = a] /\ UNCHANGED <<faults, lost>>
  BY <1>1, <1>2 DEF Types, Rows, Queues
<1>3. CASE row' = rows /\ active' = [active EXCEPT ![o] = None] /\ StorageFails(o)
  BY <1>3 DEF Types, Rows, Queues, StorageFails
<1> QED
  BY <1>2, <1>3 DEF GoOn

\* The operation whose archive is complete: its installation begins, or it is over.
LEMMA CompleteEffect ==
  ASSUME Types, NEW o \in Ops, NEW rows \in Rows, NEW a \in Actives, a.status = "completed",
         Complete(o, rows, a)
  PROVE  /\ row' \in Rows /\ active' \in Queues
         /\ \A u \in Ops \ {o} : row'[u] = rows[u] /\ active'[u] = active[u]
         /\ faults' \in 0..MaxFaults
         /\ \/ /\ a.kind = "install" /\ lost' = lost
               /\ active'[o] = [a EXCEPT !.status = "preparing", !.step = "install", !.result = "running"]
               /\ row'[o] = Saved(active'[o])
            \/ /\ active'[o] = None /\ lost' = lost
               /\ row'[o] \in Operations /\ row'[o].kind = a.kind /\ row'[o].receipt = a.receipt
               /\ row'[o].status \notin Unfinished
               /\ row'[o].status = "completed" => a.kind # "install"
            \/ active'[o] = None /\ lost' = lost \cup {o} /\ row'[o] = rows[o]
<1>1. CASE a.kind # "install"
  <2>1. EndWith(o, rows, a)
    BY <1>1 DEF Complete
  <2> QED
    BY <1>1, <2>1, EndEffect, SavedType DEF Unfinished
<1>2. CASE a.kind = "install" /\ EndWith(o, rows, [a EXCEPT !.status = Refused(a)])
  <2> DEFINE b == [a EXCEPT !.status = Refused(a)]
  <2>1. /\ b \in Actives /\ b.kind = a.kind /\ b.receipt = a.receipt
        /\ b.status \notin Unfinished /\ b.status # "completed"
    BY DEF Refused, Actives, Statuses, Unfinished
  <2>2. EndWith(o, rows, b)
    BY <1>2
  <2> HIDE DEF b
  <2> QED
    BY <2>1, <2>2, EndEffect, SavedType
<1>3. ASSUME a.kind = "install",
             row' = [rows EXCEPT ![o] = [Saved(a) EXCEPT !.status = "preparing"]],
             active' = [active EXCEPT ![o] =
               [a EXCEPT !.status = "preparing", !.step = "install", !.result = "running"]],
             UNCHANGED <<faults, lost>>
      PROVE  /\ row' \in Rows /\ active' \in Queues
             /\ \A u \in Ops \ {o} : row'[u] = rows[u] /\ active'[u] = active[u]
             /\ faults' \in 0..MaxFaults
             /\ a.kind = "install" /\ lost' = lost
             /\ active'[o] = [a EXCEPT !.status = "preparing", !.step = "install", !.result = "running"]
             /\ row'[o] = Saved(active'[o])
  <2> DEFINE b == [a EXCEPT !.status = "preparing", !.step = "install", !.result = "running"]
  <2>1. b \in Actives
    BY DEF Actives, Statuses, Unfinished, Steps, Results
  <2>2. [Saved(a) EXCEPT !.status = "preparing"] = Saved(b)
    BY DEF Saved, Actives
  <2>3. Saved(b) \in Operations
    BY <2>1, SavedType
  <2> HIDE DEF b
  <2>4. row' = [rows EXCEPT ![o] = Saved(b)] /\ active' = [active EXCEPT ![o] = b]
    BY <1>3, <2>2 DEF b
  <2>5. row' \in Rows /\ active' \in Queues /\ row'[o] = Saved(b) /\ active'[o] = b
    BY <2>1, <2>3, <2>4 DEF Types, Rows, Queues
  <2>6. \A u \in Ops \ {o} : row'[u] = rows[u] /\ active'[u] = active[u]
    BY <2>4 DEF Types, Rows, Queues
  <2> QED
    BY <1>3, <2>5, <2>6 DEF b, Types
<1> QED
  BY <1>1, <1>2, <1>3 DEF Complete, BeginInstallation

\* An operation that is new finds nothing of its own.
LEMMA NothingYet ==
  ASSUME IInv, NEW o \in Ops, row[o] = None
  PROVE  /\ active[o] = None /\ retries[o] = "none"
         /\ o \notin stages \cup lost \cup left /\ o \notin claims
<1>1. Held(o) /\ active \in Queues
  BY DEF IInv, Types
<1>2. active[o] = None
  <2> SUFFICES ASSUME active[o] # None PROVE FALSE
    OBVIOUS
  <2>1. active[o] \in Actives
    BY <1>1 DEF Queues
  <2> QED
    BY <1>1, <2>1, SavedType DEF Held, Working
<1> QED
  BY <1>1, <1>2 DEF Held, Explained, Claimed

\* A new operation with a free archive.
LEMMA Started ==
  ASSUME IInv, NEW o \in Ops, NEW kind \in Kinds, NEW h \in Hashes, NEW step \in {"cached", "transfer", "verify"},
         Begin(o, New(kind, h, step)), row[o] = None, CanStart(h), h \notin removals,
         step = "verify" <=> kind = "verification",
         stages' \subseteq stages \cup {o}, o \in stages' => step = "transfer",
         UNCHANGED <<claims, archive, files, library, removals, retries, restarts, faults, lost, aux>>
  PROVE  IInv'
<1> DEFINE a == New(kind, h, step)
<1>1. /\ a \in Actives /\ a.kind = kind /\ a.hash = h /\ a.step = step /\ a.status = "preparing"
      /\ a.result = "running" /\ ~a.receipt
  BY DEF New, Actives, Statuses, Unfinished, Steps, Results
<1>2. Saved(a) \in Operations /\ Saved(a) # None /\ a # None /\ Saved(a).receipt = FALSE
      /\ Saved(a).kind = kind /\ Saved(a).status = "preparing"
  BY <1>1, SavedType
<1>3. row' = [row EXCEPT ![o] = Saved(a)] /\ active' = [active EXCEPT ![o] = a]
  BY DEF Begin
<1> HIDE DEF a
<1>4. row \in Rows /\ active \in Queues
  BY DEF IInv, Types
<1>5. row' \in Rows /\ active' \in Queues /\ row'[o] = Saved(a) /\ active'[o] = a
      /\ \A u \in Ops \ {o} : row'[u] = row[u] /\ active'[u] = active[u]
  BY <1>1, <1>2, <1>3, <1>4 DEF Rows, Queues
<1>6. active[o] = None /\ o \notin lost \cup left /\ o \notin claims /\ retries[o] = "none"
  BY NothingYet
<1>7. Types'
  BY <1>5 DEF IInv, Types, aux
<1>8. Exclusive'
  <2>1. Active' = Active \cup {o} /\ o \notin Active
    BY <1>1, <1>2, <1>5, <1>6 DEF Active
  <2>2. IsFiniteSet(Active') /\ Cardinality(Active') = Cardinality(Active) + 1
    BY <2>1, FS_AddElement DEF IInv, Exclusive
  <2>3. Cardinality(Active) \in Nat
    BY FS_CardinalityType DEF IInv, Exclusive
  <2>4. Cardinality(Active') <= Slots
    BY <2>2, <2>3 DEF CanStart
  <2>5. \A u \in Active : active'[u].hash = active[u].hash /\ active'[u].hash # h
    BY <1>5, <2>1 DEF CanStart, BusyHash, Active
  <2>6. \A u, v \in Active' : active'[u].hash = active'[v].hash => u = v
    BY <1>1, <1>5, <2>1, <2>5 DEF IInv, Exclusive
  <2> QED
    BY <2>2, <2>4, <2>6 DEF Exclusive
<1>9. InstalledHasFiles'
  BY DEF IInv, InstalledHasFiles
<1>10. Held(o)'
  <2>1. Working(o)'
    BY <1>1, <1>5 DEF Working, Unfinished
  <2>2. Explained(o)'
    BY <1>1, <1>2, <1>5 DEF Explained
  <2>3. Claimed(o)'
    BY <1>2, <1>5, <1>6 DEF Claimed, aux, IInv, Held
  <2> QED
    BY <2>1, <2>2, <2>3 DEF Held
<1>11. ASSUME NEW u \in Ops, u # o PROVE Held(u)'
  <2>0. Held(u) /\ row'[u] = row[u] /\ active'[u] = active[u] /\ (u \in stages' => u \in stages)
    BY <1>5, <1>11 DEF IInv
  <2>1. Working(u)'
    BY <2>0 DEF Held, Working, aux
  <2>2. Explained(u)'
    BY <2>0 DEF Held, Explained, aux
  <2>3. Claimed(u)'
    BY <2>0 DEF Held, Claimed, aux
  <2> QED
    BY <2>1, <2>2, <2>3 DEF Held
<1> QED
  BY <1>7, <1>8, <1>9, <1>10, <1>11 DEF IInv

\* The player's requests.
LEMMA PlayerSteps ==
  ASSUME IInv, NEW o \in Ops, NEW h \in Hashes
  PROVE  /\ \A k \in {"archive", "install"} : StartRegistry(o, k, h) => IInv'
         /\ VerifyInstalled(o, h) => IInv'
<1>1. ASSUME NEW k \in {"archive", "install"}, StartRegistry(o, k, h) PROVE IInv'
  <2>1. active[o] = None /\ o \notin stages
    BY <1>1, NothingYet DEF StartRegistry
  <2>2. CASE Begin(o, New(k, h, "cached")) /\ stages' = RecoveredStages
    <3>1. stages' \subseteq stages \cup {o} /\ o \notin stages'
      BY <2>1, <2>2 DEF RecoveredStages
    <3> QED
      BY <1>1, <2>2, <3>1, Started DEF StartRegistry, Kinds
  <2>3. CASE Begin(o, New(k, h, "transfer")) /\ stages' = RecoveredStages \cup {o}
    <3>1. stages' \subseteq stages \cup {o}
      BY <2>3 DEF RecoveredStages
    <3> QED
      BY <1>1, <2>3, <3>1, Started DEF StartRegistry, Kinds
  <2> QED
    BY <1>1, <2>2, <2>3 DEF StartRegistry
<1>2. ASSUME VerifyInstalled(o, h) PROVE IInv'
  <2>1. o \notin stages /\ h \notin removals
    BY <1>2, NothingYet DEF VerifyInstalled, IInv, InstalledHasFiles, Types
  <2> QED
    BY <1>2, <2>1, Started DEF VerifyInstalled, Kinds
<1> QED
  BY <1>1, <1>2

\* The entry of an operation is replaced, and what is saved of it stays.
LEMMA Answers ==
  ASSUME IInv, NEW o \in Ops, active[o] # None, NEW a \in Actives, active' = [active EXCEPT ![o] = a],
         Saved(a) = Saved(active[o]), a.step = active[o].step, a.cancel = active[o].cancel,
         a.step = "receipt" /\ a.result = "ok" => o \in acked',
         a.step = "install" /\ a.result = "ok" => a.hash \in files',
         o \in stages' => a.step = "transfer" \/ (a.step = "promote" /\ a.result # "ok"),
         acked' \in {acked, acked \cup {o}}, stages' \in {stages, stages \ {o}},
         files \subseteq files', files' \subseteq Hashes,
         archive' \in [Hashes -> {"none", "good", "bad"}], faults' \in 0..MaxFaults,
         UNCHANGED <<row, claims, library, removals, retries, restarts, lost, left, installs, recorded>>
  PROVE  IInv'
<1>0. Types /\ Held(o)
  BY DEF IInv
<1>1. active[o] \in Actives
  BY <1>0 DEF Types, Queues
<1>2. a.hash = active[o].hash /\ a.kind = active[o].kind /\ a.status = active[o].status /\ a # None
  BY <1>1, SavedType
<1>3. active' \in Queues /\ active'[o] = a /\ \A u \in Ops \ {o} : active'[u] = active[u]
  BY <1>0 DEF Types, Queues
<1>4. Local(o)
  <2>1. library \subseteq files'
    BY DEF IInv, InstalledHasFiles
  <2> QED
    BY <1>0, <1>2, <1>3 DEF Local, Types
<1>5. Working(o)'
  BY <1>0, <1>2, <1>3 DEF Held, Working
<1>6. Explained(o)'
  BY <1>0, <1>2, <1>3 DEF Held, Explained
<1>7. Claimed(o)'
  BY <1>0, <1>2, <1>3 DEF Held, Claimed
<1> QED
  BY <1>4, <1>5, <1>6, <1>7, LocalStep DEF Held

\* A worker's answer changes the result of its entry only.
LEMMA Reply ==
  ASSUME IInv, NEW o \in Ops, active[o] # None, NEW r \in Results,
         active' = [active EXCEPT ![o].result = r],
         active[o].step = "receipt" /\ r = "ok" => o \in acked',
         active[o].step = "install" /\ r = "ok" => active[o].hash \in files',
         o \in stages' => \/ active[o].step = "transfer"
                          \/ active[o].step = "promote" /\ r # "ok",
         acked' \in {acked, acked \cup {o}}, stages' \in {stages, stages \ {o}},
         files \subseteq files', files' \subseteq Hashes,
         archive' \in [Hashes -> {"none", "good", "bad"}], faults' \in 0..MaxFaults,
         UNCHANGED <<row, claims, library, removals, retries, restarts, lost, left, installs, recorded>>
  PROVE  IInv'
<1> DEFINE a == [active[o] EXCEPT !.result = r]
<1>1. active[o] \in Actives
  BY DEF IInv, Types, Queues
<1>2. /\ a \in Actives /\ a.step = active[o].step /\ a.result = r /\ a.hash = active[o].hash
      /\ a.cancel = active[o].cancel /\ Saved(a) = Saved(active[o])
  BY <1>1 DEF Actives, Saved
<1>3. active' = [active EXCEPT ![o] = a]
  OBVIOUS
<1> HIDE DEF a
<1> QED
  BY <1>2, <1>3, Answers

\* The workers of each step answer, or die.
LEMMA WorkerSteps ==
  ASSUME IInv, NEW o \in Ops, Worker(o) \/ WorkerDies(o)
  PROVE  IInv'
<1>0. Types /\ Held(o)
  BY DEF IInv
<1>1. ASSUME CachedDone(o) PROVE IInv'
  <2>1. PICK r \in Results : active' = [active EXCEPT ![o].result = r]
    BY <1>1 DEF CachedDone, Answer, Results
  <2> QED
    BY <1>0, <1>1, <2>1, Reply DEF CachedDone, Runs, durable, aux, Types, Held, Working
<1>2. ASSUME TransferDone(o) PROVE IInv'
  <2>1. PICK r \in Results : active' = [active EXCEPT ![o].result = r]
    BY <1>2 DEF TransferDone, Answer, Results
  <2> QED
    BY <1>0, <1>2, <2>1, Reply DEF TransferDone, Runs, durable, aux, Types, Held, Working
<1>3. ASSUME PromoteDone(o) PROVE IInv'
  <2>1. active[o] # None /\ active[o].step = "promote" /\ active[o] \in Actives
    BY <1>0, <1>3 DEF PromoteDone, Runs, Types, Queues
  <2>2. CASE Answer(o, Refused(active[o])) /\ UNCHANGED <<archive, stages>>
    <3>1. Refused(active[o]) \in Results /\ Refused(active[o]) # "ok"
      BY DEF Refused, Results
    <3> QED
      BY <1>0, <1>3, <2>1, <2>2, <3>1, Reply DEF PromoteDone, Answer, aux, Types, Held, Working
  <2>3. CASE /\ archive' = [archive EXCEPT ![active[o].hash] = "good"]
             /\ stages' = stages \ {o} /\ Answer(o, "ok")
    <3>1. archive' \in [Hashes -> {"none", "good", "bad"}]
      BY <1>0, <2>3 DEF Types
    <3> QED
      BY <1>0, <1>3, <2>1, <2>3, <3>1, Reply DEF PromoteDone, Answer, aux, Types, Results
  <2> QED
    BY <1>3, <2>2, <2>3 DEF PromoteDone
<1>4. ASSUME ReceiptDone(o) PROVE IInv'
  BY <1>0, <1>4, Reply DEF ReceiptDone, Answer, Runs, durable, Types, Held, Working, Results
<1>5. ASSUME InstallDone(o) PROVE IInv'
  <2>1. active[o] # None /\ active[o].step = "install" /\ active[o].hash \in Hashes
    BY <1>0, <1>5 DEF InstallDone, Runs, Types, Queues, Actives
  <2> QED
    BY <1>0, <1>5, <2>1, Reply DEF InstallDone, Answer, aux, Types, Held, Working, Results
<1>6. ASSUME VerifyDone(o) PROVE IInv'
  <2>1. PICK r \in Results : active' = [active EXCEPT ![o].result = r]
    BY <1>6 DEF VerifyDone, Answer, Results
  <2> QED
    BY <1>0, <1>6, <2>1, Reply DEF VerifyDone, Runs, durable, aux, Types, Held, Working
<1>7. ASSUME WorkerDies(o) PROVE IInv'
  <2>1. faults' \in 0..MaxFaults
    BY <1>0, <1>7 DEF WorkerDies, Types
  <2> QED
    BY <1>0, <1>7, <2>1, Reply DEF WorkerDies, Answer, durable, aux, Types, Held, Working, Results
<1> QED
  BY <1>1, <1>2, <1>3, <1>4, <1>5, <1>6, <1>7 DEF Worker

\* The flags of an operation: the watching task, an approval that changes, the player's cancel.
LEMMA FlagSteps ==
  ASSUME IInv, NEW o \in Ops, Abort(o) \/ ApprovalChanges(o) \/ CancelOperation(o)
  PROVE  IInv'
<1>0. /\ Types /\ Held(o) /\ active[o] # None /\ active[o] \in Actives /\ active \in Queues
  BY DEF IInv, Types, Queues, Abort, ApprovalChanges, CancelOperation
<1>1. ASSUME Abort(o) PROVE IInv'
  <2> DEFINE a == [active[o] EXCEPT !.abort = TRUE]
  <2>1. /\ a \in Actives /\ a.step = active[o].step /\ a.result = active[o].result
        /\ a.hash = active[o].hash /\ a.cancel = active[o].cancel /\ Saved(a) = Saved(active[o])
        /\ active' = [active EXCEPT ![o] = a]
    BY <1>0, <1>1 DEF Abort, Actives, Saved
  <2> HIDE DEF a
  <2> QED
    <3>1. /\ active[o].step = "receipt" /\ active[o].result = "ok" => o \in acked
          /\ active[o].step = "install" /\ active[o].result = "ok" => active[o].hash \in files
          /\ o \in stages => \/ active[o].step = "transfer"
                             \/ active[o].step = "promote" /\ active[o].result # "ok"
      BY <1>0 DEF Held, Working
    <3>2. UNCHANGED <<durable, retries, restarts, faults, lost, aux>>
      BY <1>1 DEF Abort
    <3> QED
      BY <1>0, <2>1, <3>1, <3>2, Answers DEF durable, aux, Types
<1>2. ASSUME ApprovalChanges(o) PROVE IInv'
  <2> DEFINE a == [active[o] EXCEPT !.approved = FALSE]
  <2>1. /\ a \in Actives /\ a.step = active[o].step /\ a.result = active[o].result
        /\ a.hash = active[o].hash /\ a.cancel = active[o].cancel /\ Saved(a) = Saved(active[o])
        /\ active' = [active EXCEPT ![o] = a]
    BY <1>0, <1>2 DEF ApprovalChanges, Actives, Saved
  <2> HIDE DEF a
  <2> QED
    <3>1. /\ active[o].step = "receipt" /\ active[o].result = "ok" => o \in acked
          /\ active[o].step = "install" /\ active[o].result = "ok" => active[o].hash \in files
          /\ o \in stages => \/ active[o].step = "transfer"
                             \/ active[o].step = "promote" /\ active[o].result # "ok"
      BY <1>0 DEF Held, Working
    <3>2. UNCHANGED <<durable, retries, restarts, faults, lost, aux>>
      BY <1>2 DEF ApprovalChanges
    <3> QED
      BY <1>0, <2>1, <3>1, <3>2, Answers DEF durable, aux, Types
<1>3. ASSUME CancelOperation(o) PROVE IInv'
  <2> DEFINE a == [active[o] EXCEPT !.cancel = TRUE, !.status = "cancelling"]
  <2>1. /\ a \in Actives /\ a.step = active[o].step /\ a.result = active[o].result
        /\ a.hash = active[o].hash /\ a.kind = active[o].kind /\ a.cancel
        /\ a.receipt = active[o].receipt /\ a.status = "cancelling"
    BY <1>0 DEF Actives, Statuses, Unfinished
  <2>2. active' = [active EXCEPT ![o] = a] /\ row' = [row EXCEPT ![o] = Saved(a)]
    BY <1>3 DEF CancelOperation
  <2> HIDE DEF a
  <2>3. /\ Saved(a) \in Operations /\ Saved(a) # None /\ a # None /\ Saved(a).receipt = a.receipt
        /\ Saved(a).kind = a.kind /\ Saved(a).status = "cancelling"
    BY <2>1, SavedType
  <2>4. /\ row' \in Rows /\ active' \in Queues /\ row'[o] = Saved(a) /\ active'[o] = a
        /\ \A u \in Ops \ {o} : row'[u] = row[u] /\ active'[u] = active[u]
    BY <1>0, <2>1, <2>2, <2>3 DEF Types, Rows, Queues
  <2>5. Saved(active[o]).receipt = active[o].receipt /\ row[o] = Saved(active[o]) /\ row[o] # None
    BY <1>0, SavedType DEF Held, Working
  <2>6. Local(o)
    <3>1. library \subseteq files /\ library \cap removals = {}
      BY DEF IInv, InstalledHasFiles
    <3> QED
      BY <1>0, <1>3, <2>1, <2>4, <3>1 DEF Local, CancelOperation, aux, Types
  <2>7. Working(o)'
    BY <1>0, <1>3, <2>1, <2>4 DEF Held, Working, CancelOperation, aux, Unfinished
  <2>8. Explained(o)'
    BY <1>0, <1>3, <2>3, <2>4, <2>5 DEF Held, Explained, CancelOperation, aux
  <2>9. Claimed(o)'
    BY <1>0, <1>3, <2>1, <2>3, <2>4, <2>5 DEF Held, Claimed, CancelOperation, aux
  <2> QED
    BY <2>6, <2>7, <2>8, <2>9, LocalStep DEF Held
<1> QED
  BY <1>1, <1>2, <1>3

(***************************************************************************)
(* The polls.                                                              *)
(***************************************************************************)
\* What every poll leaves alone.
Polled(o) ==
  /\ row' \in Rows /\ active' \in Queues /\ faults' \in 0..MaxFaults
  /\ \A u \in Ops \ {o} : row'[u] = row[u] /\ active'[u] = active[u]
  /\ claims' \in {claims, claims \cup {o}, claims \ {o}}
  /\ recorded' \in {recorded, recorded \cup {o}}
  /\ stages' \in {stages, stages \ {o}} /\ lost' \in {lost, lost \cup {o}}
  /\ UNCHANGED <<archive, files, removals, retries, restarts, left, acked>>

\* A poll after which the operation is over.
LEMMA Closed ==
  ASSUME IInv, NEW o \in Ops, active[o] # None, Polled(o), active'[o] = None,
         row'[o] # None, o \in claims' <=> row'[o].receipt,
         o \in recorded' => o \in claims' \cup acked, o \in claims' => o \in recorded',
         row'[o].status \in Unfinished => o \in lost',
         row'[o].kind = "install" /\ row'[o].status = "completed" => o \in installs' \cup lost',
         o \in stages' => o \in lost',
         installs' \in {installs, installs \cup {o}},
         library' \subseteq library \cup (files \ removals)
  PROVE  IInv'
<1>0. Types /\ Held(o) /\ InstalledHasFiles
  BY DEF IInv
<1>1. Local(o)
  <2>1. library \subseteq files /\ library \cap removals = {}
    BY <1>0 DEF InstalledHasFiles
  <2> QED
    BY <1>0, <2>1 DEF Local, Polled, Types
<1>2. Working(o)'
  BY DEF Working
<1>3. Explained(o)'
  BY <1>0 DEF Explained, Polled
<1>4. Claimed(o)'
  BY <1>0 DEF Held, Claimed, Polled
<1> QED
  BY <1>1, <1>2, <1>3, <1>4, LocalStep DEF Held

\* A poll after which the operation goes on with its next step.
LEMMA Continues ==
  ASSUME IInv, NEW o \in Ops, active[o] # None, Polled(o), NEW a \in Actives,
         active'[o] = a, row'[o] = Saved(a), a.hash = active[o].hash,
         a.step \in {"promote", "receipt", "install"}, a.result = "running",
         a.kind # "verification", a.status \in Unfinished \cup {"completed"},
         a.status = "cancelling" => a.cancel,
         a.status = "completed" => a.kind = "archive" /\ a.step = "receipt",
         o \in stages' => a.step = "promote",
         o \in claims' <=> a.receipt,
         o \in recorded' => o \in claims' \cup acked, o \in claims' => o \in recorded',
         UNCHANGED <<installs, library>>
  PROVE  IInv'
<1>0. Types /\ Held(o) /\ InstalledHasFiles
  BY DEF IInv
<1>1. /\ a # None /\ Saved(a) # None /\ Saved(a).receipt = a.receipt
      /\ Saved(a).kind = a.kind /\ Saved(a).status = a.status
  BY SavedType
<1>2. Local(o)
  <2>1. library \subseteq files /\ library \cap removals = {}
    BY <1>0 DEF InstalledHasFiles
  <2> QED
    BY <1>0, <2>1 DEF Local, Polled, Types
<1>3. Working(o)'
  BY <1>0, <1>1 DEF Held, Working, Polled
<1>4. Explained(o)'
  BY <1>1 DEF Explained
<1>5. Claimed(o)'
  BY <1>0, <1>1 DEF Held, Claimed, Polled
<1> QED
  BY <1>2, <1>3, <1>4, <1>5, LocalStep DEF Held

\* What is known of an operation that is polled.
LEMMA InProgress ==
  ASSUME IInv, NEW o \in Ops, active[o] # None
  PROVE  /\ Types /\ active[o] \in Actives
         /\ row[o] = Saved(active[o]) /\ row[o] # None /\ row[o] \in Operations
         /\ row[o].kind = active[o].kind /\ row[o].status = active[o].status
         /\ row[o].receipt = active[o].receipt
         /\ o \in claims <=> active[o].receipt
         /\ o \in recorded => o \in claims \cup acked
         /\ o \in claims => o \in recorded
         /\ active[o].step = "verify" <=> active[o].kind = "verification"
         /\ active[o].step = "receipt" /\ active[o].result = "ok" => o \in acked
         /\ o \in stages => \/ active[o].step = "transfer"
                            \/ active[o].step = "promote" /\ active[o].result # "ok"
<1>1. Types /\ Held(o)
  BY DEF IInv
<1>2. active[o] \in Actives
  BY <1>1 DEF Types, Queues
<1>3. row[o] = Saved(active[o])
  BY <1>1 DEF Held, Working
<1>4. o \in claims <=> active[o].receipt
  BY <1>1, <1>2, <1>3, SavedType DEF Held, Claimed
<1>5. o \in recorded => o \in claims \cup acked
  BY <1>1 DEF Held, Claimed
<1>6. o \in claims => o \in recorded
  BY <1>1 DEF Held, Claimed
<1>7. /\ active[o].step = "verify" <=> active[o].kind = "verification"
      /\ active[o].step = "receipt" /\ active[o].result = "ok" => o \in acked
      /\ o \in stages => \/ active[o].step = "transfer"
                         \/ active[o].step = "promote" /\ active[o].result # "ok"
  BY <1>1 DEF Held, Working
<1> QED
  BY <1>1, <1>2, <1>3, <1>4, <1>5, <1>6, <1>7, SavedType

\* An operation that ends is saved as ended, or dropped with what was saved before.
LEMMA EndStep ==
  ASSUME IInv, NEW o \in Ops, active[o] # None, NEW rows \in Rows, NEW a \in Actives,
         EndWith(o, rows, a), \A u \in Ops \ {o} : rows[u] = row[u],
         rows[o] # None, rows[o].receipt = a.receipt,
         a.status \notin Unfinished, a.status = "completed" => a.kind # "install",
         o \in claims' <=> a.receipt, claims' \in {claims, claims \cup {o}, claims \ {o}},
         o \in recorded' => o \in claims' \cup acked, o \in claims' => o \in recorded',
         recorded' \in {recorded, recorded \cup {o}},
         o \notin stages', stages' \in {stages, stages \ {o}},
         UNCHANGED <<archive, files, library, removals, retries, restarts, left, installs, acked>>
  PROVE  IInv'
<1>1. Types
  BY DEF IInv
<1>2. /\ row' \in Rows /\ active' \in Queues /\ active'[o] = None /\ faults' \in 0..MaxFaults
      /\ \A u \in Ops \ {o} : row'[u] = rows[u] /\ active'[u] = active[u]
      /\ \/ row'[o] = Saved(a) /\ lost' = lost
         \/ row'[o] = rows[o] /\ lost' = lost \cup {o}
  BY <1>1, EndEffect
<1>3. /\ Saved(a) # None /\ Saved(a).receipt = a.receipt /\ Saved(a).kind = a.kind
      /\ Saved(a).status = a.status
  BY SavedType
<1>4. Polled(o)
  BY <1>2 DEF Polled
<1>5. row'[o] # None /\ row'[o].receipt = a.receipt
  BY <1>2, <1>3
<1>6. row'[o].status \in Unfinished => o \in lost'
  BY <1>2, <1>3
<1>7. row'[o].kind = "install" /\ row'[o].status = "completed" => o \in installs' \cup lost'
  BY <1>2, <1>3
<1> QED
  BY <1>2, <1>4, <1>5, <1>6, <1>7, Closed

\* An operation whose archive is complete is over, or goes on with its installation.
LEMMA CompleteStep ==
  ASSUME IInv, NEW o \in Ops, active[o] # None, NEW rows \in Rows, NEW a \in Actives,
         Complete(o, rows, a), \A u \in Ops \ {o} : rows[u] = row[u],
         rows[o] # None, rows[o].receipt = a.receipt,
         a.status = "completed", a.kind # "verification", a.hash = active[o].hash,
         o \in claims' <=> a.receipt, claims' \in {claims, claims \cup {o}, claims \ {o}},
         o \in recorded => o \in claims' \cup acked, o \in claims' => o \in recorded,
         o \notin stages,
         UNCHANGED <<archive, stages, files, library, removals, retries, restarts, left, installs,
                     recorded, acked>>
  PROVE  IInv'
<1>1. Types
  BY DEF IInv
<1>2. /\ row' \in Rows /\ active' \in Queues
      /\ \A u \in Ops \ {o} : row'[u] = rows[u] /\ active'[u] = active[u]
      /\ faults' \in 0..MaxFaults
      /\ \/ /\ a.kind = "install" /\ lost' = lost
            /\ active'[o] = [a EXCEPT !.status = "preparing", !.step = "install", !.result = "running"]
            /\ row'[o] = Saved(active'[o])
         \/ /\ active'[o] = None /\ lost' = lost
            /\ row'[o] \in Operations /\ row'[o].kind = a.kind /\ row'[o].receipt = a.receipt
            /\ row'[o].status \notin Unfinished
            /\ row'[o].status = "completed" => a.kind # "install"
         \/ active'[o] = None /\ lost' = lost \cup {o} /\ row'[o] = rows[o]
  BY <1>1, CompleteEffect
<1>3. Polled(o)
  BY <1>2 DEF Polled
<1> DEFINE b == [a EXCEPT !.status = "preparing", !.step = "install", !.result = "running"]
<1>4. CASE a.kind = "install" /\ lost' = lost /\ active'[o] = b /\ row'[o] = Saved(active'[o])
  <2>1. /\ b \in Actives /\ b.hash = active[o].hash /\ b.step = "install" /\ b.result = "running"
        /\ b.kind = a.kind /\ b.status = "preparing" /\ b.receipt = a.receipt
    BY DEF Actives, Statuses, Unfinished, Steps, Results
  <2> HIDE DEF b
  <2> QED
    BY <1>3, <1>4, <2>1, Continues DEF Unfinished
<1>5. CASE /\ active'[o] = None /\ lost' = lost
           /\ row'[o] \in Operations /\ row'[o].kind = a.kind /\ row'[o].receipt = a.receipt
           /\ row'[o].status \notin Unfinished
           /\ row'[o].status = "completed" => a.kind # "install"
  <2>1. row'[o] # None
    BY <1>5
  <2> QED
    BY <1>3, <1>5, <2>1, Closed
<1>6. CASE active'[o] = None /\ lost' = lost \cup {o} /\ row'[o] = rows[o]
  BY <1>3, <1>6, Closed
<1> QED
  BY <1>2, <1>4, <1>5, <1>6

\* The entry with another status.
LEMMA StatusType ==
  ASSUME NEW b \in Actives, NEW status \in Statuses
  PROVE  LET a == [b EXCEPT !.status = status]
         IN  /\ a \in Actives /\ a.status = status /\ a.kind = b.kind /\ a.hash = b.hash
             /\ a.receipt = b.receipt
BY DEF Actives

\* The entry that goes on with its next step.
LEMMA StepType ==
  ASSUME NEW b \in Actives, NEW status \in Statuses, NEW step \in Steps
  PROVE  LET a == [b EXCEPT !.status = status, !.step = step, !.result = "running"]
         IN  /\ a \in Actives /\ a.status = status /\ a.step = step /\ a.result = "running"
             /\ a.kind = b.kind /\ a.hash = b.hash /\ a.receipt = b.receipt /\ a.cancel = b.cancel
BY DEF Actives, Results

\* An operation that failed or was cancelled ends with its claim as it is.
LEMMA FailedStep ==
  ASSUME IInv, NEW o \in Ops, active[o] # None, NEW status \in {"failed", "cancelled"},
         EndWith(o, row, [active[o] EXCEPT !.status = status]),
         o \notin stages', stages' \in {stages, stages \ {o}},
         UNCHANGED <<claims, archive, files, library, removals, retries, restarts, aux>>
  PROVE  IInv'
<1> DEFINE a == [active[o] EXCEPT !.status = status]
<1>1. /\ Types /\ active[o] \in Actives /\ row[o] # None /\ row[o].receipt = active[o].receipt
      /\ o \in claims <=> active[o].receipt
      /\ o \in recorded => o \in claims \cup acked
      /\ o \in claims => o \in recorded
  BY InProgress
<1>2. status \in Statuses
  BY DEF Statuses
<1>3. /\ a \in Actives /\ a.status = status /\ a.kind = active[o].kind
      /\ a.receipt = active[o].receipt
  BY <1>1, <1>2, StatusType
<1>4. EndWith(o, row, a)
  OBVIOUS
<1> HIDE DEF a
<1>5. a.status \notin Unfinished /\ a.status # "completed"
  BY <1>3 DEF Unfinished
<1>6. row \in Rows
  BY <1>1 DEF Types
<1> QED
  BY <1>1, <1>3, <1>4, <1>5, <1>6, EndStep DEF aux

\* The polls of the check of a saved archive and of a transfer that failed.
LEMMA EarlyPolls ==
  ASSUME IInv, NEW o \in Ops, PollCached(o) \/ PollTransferFailed(o)
  PROVE  IInv'
<1>1. ASSUME PollCached(o) PROVE IInv'
  <2>1. active[o] # None /\ active[o].step = "cached"
        /\ UNCHANGED <<claims, archive, stages, files, library, removals, retries, restarts, aux>>
    BY <1>1 DEF PollCached, Collected
  <2>2. /\ Types /\ active[o] \in Actives /\ row[o] # None /\ row[o].receipt = active[o].receipt
        /\ o \in claims <=> active[o].receipt
        /\ o \in recorded => o \in claims \cup acked
        /\ o \in claims => o \in recorded
        /\ active[o].kind # "verification" /\ o \notin stages
    BY <2>1, InProgress
  <2>3. CASE EndWith(o, row, Ended(active[o]))
    <3>1. PICK status \in {"failed", "cancelled"} :
            EndWith(o, row, [active[o] EXCEPT !.status = status])
      BY <2>3 DEF Ended
    <3> QED
      BY <2>1, <2>2, <3>1, FailedStep
  <2>4. CASE Complete(o, row, [active[o] EXCEPT !.status = "completed"])
    <3> DEFINE a == [active[o] EXCEPT !.status = "completed"]
    <3>1. /\ a \in Actives /\ a.status = "completed" /\ a.kind = active[o].kind
          /\ a.hash = active[o].hash /\ a.receipt = active[o].receipt
      BY <2>2, StatusType DEF Statuses
    <3>2. Complete(o, row, a) /\ row \in Rows
      BY <2>2, <2>4 DEF Types
    <3> HIDE DEF a
    <3> QED
      BY <2>1, <2>2, <3>1, <3>2, CompleteStep DEF aux
  <2> QED
    BY <1>1, <2>3, <2>4 DEF PollCached
<1>2. ASSUME PollTransferFailed(o) PROVE IInv'
  <2>1. PICK status \in {"failed", "cancelled"} :
          EndWith(o, row, [active[o] EXCEPT !.status = status])
    BY <1>2 DEF PollTransferFailed, Ended
  <2> QED
    BY <1>2, <2>1, FailedStep DEF PollTransferFailed, Collected
<1> QED
  BY <1>1, <1>2

\* The claim of a transfer is saved with its link, before anything is decided.
LEMMA TransferredPoll ==
  ASSUME IInv, NEW o \in Ops, PollTransferred(o)
  PROVE  IInv'
<1> DEFINE a == [active[o] EXCEPT !.receipt = TRUE]
           rows == [row EXCEPT ![o] = Saved(a)]
<1>1. /\ active[o] # None /\ active[o].step = "transfer"
      /\ UNCHANGED <<archive, files, library, removals, retries, restarts, left, installs, acked>>
  BY DEF PollTransferred, Collected
<1>2. /\ Types /\ active[o] \in Actives /\ row[o] # None /\ row[o].status = active[o].status
      /\ row[o] \in Operations /\ row[o].kind = active[o].kind
      /\ row[o].receipt = active[o].receipt
      /\ o \in claims <=> active[o].receipt
      /\ o \in recorded => o \in claims \cup acked
      /\ o \in claims => o \in recorded
      /\ active[o].kind # "verification"
  BY <1>1, InProgress
<1>3. /\ a \in Actives /\ a.receipt /\ a.hash = active[o].hash /\ a.kind = active[o].kind
      /\ a.status = active[o].status /\ a.cancel = active[o].cancel
  BY <1>2 DEF Actives
<1>4. /\ Saved(a) \in Operations /\ Saved(a) # None /\ Saved(a).receipt
  BY <1>3, SavedType
<1>5. /\ rows \in Rows /\ rows[o] = Saved(a) /\ \A u \in Ops \ {o} : rows[u] = row[u]
  BY <1>2, <1>4 DEF Types, Rows
<1>6. active[o].status \in Unfinished /\ (active[o].status = "cancelling" => active[o].cancel)
  BY <1>1 DEF IInv, Held, Working
<1>7. CASE /\ claims' = claims \cup {o} /\ recorded' = recorded \cup {o} /\ UNCHANGED stages
           /\ GoOn(o, rows, [a EXCEPT !.step = "promote", !.result = "running"])
  <2> DEFINE b == [a EXCEPT !.step = "promote", !.result = "running"]
  <2>1. /\ b \in Actives /\ b.receipt /\ b.hash = active[o].hash /\ b.kind = active[o].kind
        /\ b.status = active[o].status /\ b.cancel = active[o].cancel /\ b.step = "promote"
        /\ b.result = "running"
    BY <1>3 DEF Actives, Steps, Results
  <2>2. GoOn(o, rows, b)
    BY <1>7
  <2> HIDE DEF b, rows
  <2>3. /\ row' \in Rows /\ active' \in Queues
        /\ \A u \in Ops \ {o} : row'[u] = rows[u] /\ active'[u] = active[u]
        /\ faults' \in 0..MaxFaults
        /\ \/ row'[o] = Saved(b) /\ active'[o] = b /\ lost' = lost
           \/ row'[o] = rows[o] /\ active'[o] = None /\ lost' = lost \cup {o}
    BY <1>2, <1>5, <2>1, <2>2, GoOnEffect
  <2>4. Polled(o)
    BY <1>1, <1>5, <1>7, <2>3 DEF Polled
  <2>5. CASE row'[o] = Saved(b) /\ active'[o] = b /\ lost' = lost
    <3>1. b.status \in Unfinished /\ (b.status = "cancelling" => b.cancel) /\ b.status # "completed"
      BY <1>6, <2>1 DEF Unfinished
    <3>2. (o \in claims' <=> b.receipt) /\ (o \in claims' <=> o \in recorded')
      BY <1>2, <1>7, <2>1
    <3>3. o \in recorded' => o \in claims' \cup acked
      BY <1>7
    <3>4. UNCHANGED <<installs, library>>
      BY <1>1
    <3>5. b.step \in {"promote", "receipt", "install"} /\ b.kind # "verification"
      BY <1>2, <2>1
    <3> QED
      BY <1>1, <2>1, <2>4, <2>5, <3>1, <3>2, <3>3, <3>4, <3>5, Continues
  <2>6. CASE row'[o] = rows[o] /\ active'[o] = None /\ lost' = lost \cup {o}
    BY <1>1, <1>4, <1>5, <1>7, <2>4, <2>6, Closed
  <2> QED
    BY <2>3, <2>5, <2>6
<1>8. CASE /\ claims' = claims \cup {o} /\ recorded' = recorded \cup {o} /\ stages' = stages \ {o}
           /\ EndWith(o, rows, [a EXCEPT !.status = Refused(a)])
  <2> DEFINE b == [a EXCEPT !.status = Refused(a)]
  <2>1. /\ b \in Actives /\ b.receipt /\ b.status \notin Unfinished /\ b.status # "completed"
    BY <1>3 DEF Actives, Refused, Statuses, Unfinished
  <2>2. EndWith(o, rows, b)
    BY <1>8
  <2> HIDE DEF b, rows
  <2> QED
    BY <1>1, <1>4, <1>5, <1>8, <2>1, <2>2, EndStep
<1>9. CASE StorageFails(o) /\ active' = [active EXCEPT ![o] = None]
           /\ UNCHANGED <<row, claims, recorded, stages>>
  <2>1. /\ active' \in Queues /\ active'[o] = None /\ faults' \in 0..MaxFaults /\ row' \in Rows
        /\ \A u \in Ops \ {o} : active'[u] = active[u]
        /\ lost' = lost \cup {o}
    BY <1>2, <1>9 DEF Types, Queues, StorageFails
  <2>2. Polled(o)
    BY <1>1, <1>9, <2>1 DEF Polled
  <2> QED
    BY <1>1, <1>2, <1>9, <2>1, <2>2, Closed
<1> QED
  BY <1>7, <1>8, <1>9 DEF PollTransferred

\* The archive is in its place: the receipt is next.
LEMMA PromotedPoll ==
  ASSUME IInv, NEW o \in Ops, PollPromoted(o)
  PROVE  IInv'
<1>1. /\ active[o] # None /\ active[o].step = "promote"
      /\ UNCHANGED <<claims, archive, files, library, removals, retries, restarts, aux>>
  BY DEF PollPromoted, Collected
<1>2. /\ Types /\ active[o] \in Actives /\ row[o] # None
      /\ row[o].status = active[o].status /\ row[o].kind = active[o].kind
      /\ row[o].receipt = active[o].receipt
      /\ o \in claims <=> active[o].receipt
      /\ o \in recorded => o \in claims \cup acked
      /\ o \in claims => o \in recorded
      /\ active[o].kind # "verification"
      /\ active[o].result = "ok" => o \notin stages
  BY <1>1, InProgress
<1>3. active[o].status \in Unfinished
  BY <1>1 DEF IInv, Held, Working
<1> DEFINE status == IF active[o].kind = "install" THEN "preparing" ELSE "completed"
           a == [active[o] EXCEPT !.status = status, !.step = "receipt", !.result = "running"]
<1>4. CASE active[o].result = "ok" /\ GoOn(o, row, a) /\ UNCHANGED stages
  <2>0. /\ active[o].kind = "install" => status = "preparing"
        /\ active[o].kind # "install" => status = "completed"
    OBVIOUS
  <2>1. status \in Statuses
    BY DEF Statuses, Unfinished
  <2>2. GoOn(o, row, a)
    BY <1>4
  <2> HIDE DEF status
  <2>3. /\ a \in Actives /\ a.status = status /\ a.step = "receipt" /\ a.result = "running"
        /\ a.kind = active[o].kind /\ a.hash = active[o].hash /\ a.receipt = active[o].receipt
    BY <1>2, <2>1 DEF Steps, Actives, Results
  <2>4. a.kind \in {"archive", "install"}
    BY <1>2, <2>3 DEF Actives, Kinds
  <2>5. /\ a.status \in Unfinished \cup {"completed"} /\ a.status # "cancelling"
        /\ a.status = "completed" => a.kind = "archive"
    BY <2>0, <2>3, <2>4 DEF Unfinished
  <2> HIDE DEF a
  <2>6. row \in Rows
    BY <1>2 DEF Types
  <2>7. /\ row' \in Rows /\ active' \in Queues
        /\ \A u \in Ops \ {o} : row'[u] = row[u] /\ active'[u] = active[u]
        /\ faults' \in 0..MaxFaults
        /\ \/ row'[o] = Saved(a) /\ active'[o] = a /\ lost' = lost
           \/ row'[o] = row[o] /\ active'[o] = None /\ lost' = lost \cup {o}
    BY <1>2, <2>2, <2>3, <2>6, GoOnEffect
  <2>8. Polled(o)
    BY <1>1, <1>4, <2>7 DEF Polled, aux
  <2>9. CASE row'[o] = Saved(a) /\ active'[o] = a /\ lost' = lost
    <3>1. /\ o \in claims' <=> a.receipt
          /\ o \in recorded' => o \in claims' \cup acked
          /\ o \in claims' => o \in recorded'
      BY <1>1, <1>2, <2>3 DEF aux
    <3>2. UNCHANGED <<installs, library>> /\ o \notin stages'
      BY <1>1, <1>2, <1>4 DEF aux
    <3> QED
      BY <1>1, <2>3, <2>4, <2>5, <2>8, <2>9, <3>1, <3>2, Continues
  <2>10. CASE row'[o] = row[o] /\ active'[o] = None /\ lost' = lost \cup {o}
    BY <1>1, <1>2, <1>3, <2>8, <2>10, Closed DEF aux
  <2> QED
    BY <2>7, <2>9, <2>10
<1>5. CASE EndWith(o, row, Ended(active[o])) /\ stages' = stages \ {o}
  <2>1. PICK s \in {"failed", "cancelled"} : EndWith(o, row, [active[o] EXCEPT !.status = s])
    BY <1>5 DEF Ended
  <2> QED
    BY <1>1, <1>5, <2>1, FailedStep
<1> QED
  BY <1>4, <1>5 DEF PollPromoted

\* The polls of the receipt.
LEMMA ReceiptPolls ==
  ASSUME IInv, NEW o \in Ops, PollAcknowledged(o) \/ PollUnacknowledged(o) \/ PollReceiptDead(o)
  PROVE  IInv'
<1>1. /\ active[o] # None /\ active[o].step = "receipt"
      /\ UNCHANGED <<archive, stages, files, library, removals, retries, restarts, aux>>
  BY DEF PollAcknowledged, PollUnacknowledged, PollReceiptDead, Collected
<1>2. /\ Types /\ active[o] \in Actives /\ row[o] # None /\ row[o] \in Operations
      /\ row[o].status = active[o].status /\ row[o].kind = active[o].kind
      /\ row[o].receipt = active[o].receipt
      /\ o \in claims <=> active[o].receipt
      /\ o \in recorded => o \in claims \cup acked
      /\ o \in claims => o \in recorded
      /\ active[o].kind # "verification" /\ o \notin stages
      /\ active[o].result = "ok" => o \in acked
  BY <1>1, InProgress
<1>3. row \in Rows
  BY <1>2 DEF Types
<1>4. ASSUME PollAcknowledged(o) PROVE IInv'
  <2> DEFINE a == [active[o] EXCEPT !.status = "completed", !.receipt = FALSE]
             rows == [row EXCEPT ![o] = Saved(a)]
  <2>1. active[o].result = "ok"
    BY <1>4 DEF PollAcknowledged
  <2>2. /\ a \in Actives /\ a.status = "completed" /\ ~a.receipt /\ a.kind = active[o].kind
        /\ a.hash = active[o].hash
    BY <1>2 DEF Actives, Statuses
  <2>3. Saved(a) \in Operations /\ Saved(a) # None /\ ~Saved(a).receipt /\ Saved(a).receipt = a.receipt
    BY <2>2, SavedType
  <2>4. rows \in Rows /\ rows[o] = Saved(a) /\ \A u \in Ops \ {o} : rows[u] = row[u]
    BY <1>3, <2>3 DEF Rows
  <2>5. CASE claims' = claims \ {o} /\ Complete(o, rows, a)
    <3>1. /\ o \in claims' <=> a.receipt
          /\ o \in recorded => o \in claims' \cup acked
          /\ o \in claims' => o \in recorded
      BY <1>2, <2>1, <2>2, <2>5
    <3>2. UNCHANGED <<archive, stages, files, library, removals, retries, restarts, left, installs,
                      recorded, acked>>
      BY <1>1 DEF aux
    <3>3. Complete(o, rows, a)
      BY <2>5
    <3> HIDE DEF a, rows
    <3> QED
      BY <1>1, <1>2, <2>2, <2>3, <2>4, <2>5, <3>1, <3>2, <3>3, CompleteStep
  <2>6. CASE StorageFails(o) /\ active' = [active EXCEPT ![o] = None] /\ UNCHANGED <<row, claims>>
    <3>1. /\ active' \in Queues /\ active'[o] = None /\ faults' \in 0..MaxFaults /\ row' \in Rows
          /\ \A u \in Ops \ {o} : active'[u] = active[u]
          /\ lost' = lost \cup {o}
      BY <1>2, <1>3, <2>6 DEF Types, Queues, StorageFails
    <3>2. Polled(o)
      BY <1>1, <2>6, <3>1 DEF Polled, aux
    <3> QED
      BY <1>1, <1>2, <2>6, <3>1, <3>2, Closed DEF aux
  <2> QED
    BY <1>4, <2>5, <2>6 DEF PollAcknowledged
<1>5. ASSUME PollUnacknowledged(o) PROVE IInv'
  <2> DEFINE a == [active[o] EXCEPT !.status = "completed"]
  <2>1. /\ a \in Actives /\ a.status = "completed" /\ a.kind = active[o].kind
        /\ a.hash = active[o].hash /\ a.receipt = active[o].receipt
    BY <1>2, StatusType DEF Statuses
  <2>2. Complete(o, row, a) /\ UNCHANGED claims
    BY <1>5 DEF PollUnacknowledged
  <2> HIDE DEF a
  <2> QED
    BY <1>1, <1>2, <1>3, <2>1, <2>2, CompleteStep DEF aux
<1>6. ASSUME PollReceiptDead(o) PROVE IInv'
  <2>1. PICK s \in {"failed", "cancelled"} : EndWith(o, row, [active[o] EXCEPT !.status = s])
    BY <1>6 DEF PollReceiptDead, Ended
  <2> QED
    BY <1>1, <1>2, <1>6, <2>1, FailedStep DEF PollReceiptDead
<1> QED
  BY <1>4, <1>5, <1>6

\* The poll of an installation.
LEMMA InstalledPoll ==
  ASSUME IInv, NEW o \in Ops, PollInstalled(o)
  PROVE  IInv'
<1>1. /\ active[o] # None /\ active[o].step = "install"
      /\ UNCHANGED <<claims, archive, stages, files, removals, retries, restarts, left, recorded, acked>>
  BY DEF PollInstalled, Collected
<1>2. /\ Types /\ active[o] \in Actives /\ row[o] # None
      /\ row[o].receipt = active[o].receipt
      /\ o \in claims <=> active[o].receipt
      /\ o \in recorded => o \in claims \cup acked
      /\ o \in claims => o \in recorded
      /\ o \notin stages
  BY <1>1, InProgress
<1>3. CASE /\ active[o].result = "ok" /\ active[o].hash \notin removals
           /\ library' = library \cup {active[o].hash} /\ installs' = installs \cup {o}
           /\ row' = [row EXCEPT ![o] = [Saved(active[o]) EXCEPT !.status = "completed"]]
           /\ active' = [active EXCEPT ![o] = None] /\ UNCHANGED <<faults, lost>>
  <2> DEFINE r == [Saved(active[o]) EXCEPT !.status = "completed"]
  <2>1. r \in Operations /\ r.status = "completed" /\ r.receipt = active[o].receipt
    BY <1>2, SavedType DEF Saved, Operations, Statuses, Actives
  <2>2. row' = [row EXCEPT ![o] = r]
    BY <1>3
  <2> HIDE DEF r
  <2>3. /\ row' \in Rows /\ active' \in Queues /\ row'[o] = r /\ active'[o] = None
        /\ \A u \in Ops \ {o} : row'[u] = row[u] /\ active'[u] = active[u]
    BY <1>2, <1>3, <2>1, <2>2 DEF Types, Rows, Queues
  <2>4. Polled(o)
    BY <1>1, <1>2, <1>3, <2>3 DEF Polled, Types
  <2>5. active[o].hash \in files
    BY <1>1, <1>3 DEF IInv, Held, Working
  <2>6. library' \subseteq library \cup (files \ removals)
    BY <1>3, <2>5
  <2>7. r # None /\ r.status \notin Unfinished
    BY <2>1 DEF Unfinished
  <2> QED
    BY <1>1, <1>2, <1>3, <2>1, <2>3, <2>4, <2>6, <2>7, Closed
<1>4. CASE /\ EndWith(o, row, [active[o] EXCEPT !.status =
                IF active[o].result = "cancelled" THEN "cancelled" ELSE Refused(active[o])])
           /\ UNCHANGED <<library, installs>>
  <2>1. PICK s \in {"failed", "cancelled"} : EndWith(o, row, [active[o] EXCEPT !.status = s])
    BY <1>4 DEF Refused
  <2> QED
    BY <1>1, <1>2, <1>4, <2>1, FailedStep DEF aux
<1> QED
  BY <1>3, <1>4 DEF PollInstalled

\* The poll of a verification.
LEMMA VerifiedPoll ==
  ASSUME IInv, NEW o \in Ops, PollVerified(o)
  PROVE  IInv'
<1>1. /\ active[o] # None /\ active[o].step = "verify"
      /\ active' = [active EXCEPT ![o] = None]
      /\ UNCHANGED <<claims, archive, stages, files, library, removals, retries, restarts, faults, lost, aux>>
  BY DEF PollVerified, Collected
<1>2. /\ Types /\ active[o] \in Actives /\ row[o] # None
      /\ row[o].receipt = active[o].receipt
      /\ o \in claims <=> active[o].receipt
      /\ o \in recorded => o \in claims \cup acked
      /\ o \in claims => o \in recorded
      /\ o \notin stages /\ active[o].kind = "verification"
  BY <1>1, InProgress
<1>3. PICK status \in {"completed", "cancelled", "failed"} :
        row' = [row EXCEPT ![o] = [Saved(active[o]) EXCEPT !.status = status]]
  BY DEF PollVerified
<1> DEFINE r == [Saved(active[o]) EXCEPT !.status = status]
<1>4. /\ r \in Operations /\ r.status = status /\ r.receipt = active[o].receipt
      /\ r.kind = "verification"
  BY <1>2, SavedType DEF Saved, Operations, Statuses, Actives
<1>5. row' = [row EXCEPT ![o] = r]
  BY <1>3
<1> HIDE DEF r
<1>6. /\ row' \in Rows /\ active' \in Queues /\ row'[o] = r /\ active'[o] = None
      /\ \A u \in Ops \ {o} : row'[u] = row[u] /\ active'[u] = active[u]
  BY <1>1, <1>2, <1>4, <1>5 DEF Types, Rows, Queues
<1>7. Polled(o)
  BY <1>1, <1>2, <1>6 DEF Polled, Types, aux
<1>8. r # None /\ r.status \notin Unfinished
  BY <1>4 DEF Unfinished
<1> QED
  BY <1>1, <1>2, <1>4, <1>6, <1>7, <1>8, Closed DEF aux

LEMMA PollSteps ==
  ASSUME IInv, NEW o \in Ops, Poll(o)
  PROVE  IInv'
BY EarlyPolls, TransferredPoll, PromotedPoll, ReceiptPolls, InstalledPoll, VerifiedPoll DEF Poll

(***************************************************************************)
(* Receipts that are tried again, the library, the session, the process.   *)
(***************************************************************************)
\* A retry answers, and the storage worker collects it.
LEMMA RetrySteps ==
  ASSUME IInv, NEW o \in Ops, RetryDone(o) \/ PollRetry(o)
  PROVE  IInv'
<1>0. Types /\ Held(o) /\ library \subseteq files /\ library \cap removals = {}
  BY DEF IInv, InstalledHasFiles
<1>1. /\ retries[o] # "none" /\ active[o] = None /\ row[o] # None /\ row[o] \in Operations
      /\ UNCHANGED <<archive, stages, files, library, removals, active, restarts, lost, left,
                     installs, recorded>>
  BY <1>0 DEF RetryDone, PollRetry, Held, Claimed, Types, Rows, durable, aux
<1>2. ASSUME RetryDone(o) PROVE IInv'
  <2>1. /\ \/ retries' = [retries EXCEPT ![o] = "ok"] /\ acked' = acked \cup {o}
           \/ retries' = [retries EXCEPT ![o] = "failed"] /\ acked' = acked
        /\ UNCHANGED <<row, claims, faults>>
    BY <1>2 DEF RetryDone, durable
  <2>2. /\ retries' \in Retries /\ \A u \in Ops \ {o} : retries'[u] = retries[u]
        /\ retries'[o] = "ok" => o \in acked'
    BY <1>0, <2>1 DEF Types, Retries
  <2>3. Local(o)
    BY <1>0, <1>1, <2>1, <2>2 DEF Local, Types
  <2>4. Working(o)' /\ Explained(o)'
    BY <1>0, <1>1, <2>1 DEF Held, Working, Explained
  <2>5. Claimed(o)'
    BY <1>0, <1>1, <2>1, <2>2 DEF Held, Claimed
  <2> QED
    BY <2>3, <2>4, <2>5, LocalStep DEF Held
<1>3. ASSUME PollRetry(o) PROVE IInv'
  <2>1. retries' = [retries EXCEPT ![o] = "none"] /\ acked' = acked
    BY <1>3 DEF PollRetry, aux
  <2>2. /\ retries' \in Retries /\ retries'[o] = "none"
        /\ \A u \in Ops \ {o} : retries'[u] = retries[u]
    BY <1>0, <2>1 DEF Types, Retries
  <2>3. CASE /\ retries[o] = "ok" /\ claims' = claims \ {o}
             /\ row' = [row EXCEPT ![o].receipt = FALSE] /\ faults' = faults
    <3> DEFINE r == [row[o] EXCEPT !.receipt = FALSE]
    <3>1. /\ r \in Operations /\ ~r.receipt /\ r.kind = row[o].kind /\ r.status = row[o].status
          /\ r # None
      BY <1>1 DEF Operations
    <3>2. row' = [row EXCEPT ![o] = r]
      BY <2>3
    <3> HIDE DEF r
    <3>3. row' \in Rows /\ row'[o] = r /\ \A u \in Ops \ {o} : row'[u] = row[u]
      BY <1>0, <3>1, <3>2 DEF Types, Rows
    <3>4. Local(o)
      BY <1>0, <1>1, <2>1, <2>2, <2>3, <3>3 DEF Local, Types
    <3>5. Working(o)'
      BY <1>1 DEF Working
    <3>6. Explained(o)'
      BY <1>0, <1>1, <3>1, <3>3 DEF Held, Explained
    <3>7. o \in acked
      BY <1>0, <2>3 DEF Held, Claimed
    <3>8. Claimed(o)'
      BY <1>0, <1>1, <2>1, <2>2, <2>3, <3>1, <3>3, <3>7 DEF Held, Claimed
    <3> QED
      BY <3>4, <3>5, <3>6, <3>8, LocalStep DEF Held
  <2>4. CASE UNCHANGED <<claims, row>> /\ faults' \in 0..MaxFaults
    <3>1. Local(o)
      BY <1>0, <1>1, <2>1, <2>2, <2>4 DEF Local, Types
    <3>2. Working(o)' /\ Explained(o)'
      BY <1>0, <1>1, <2>4 DEF Held, Working, Explained
    <3>3. Claimed(o)'
      BY <1>0, <1>1, <2>1, <2>2, <2>4 DEF Held, Claimed
    <3> QED
      BY <3>1, <3>2, <3>3, LocalStep DEF Held
  <2>5. \/ faults' = faults
        \/ faults < MaxFaults /\ faults' = faults + 1
    BY <1>3 DEF PollRetry
  <2>6. faults' \in 0..MaxFaults
    BY <1>0, <2>5 DEF Types
  <2> QED
    BY <1>3, <2>3, <2>4, <2>6 DEF PollRetry
<1> QED
  BY <1>2, <1>3

\* Only claims of operations that are over are tried again.
LEMMA ResumeStep ==
  ASSUME IInv, ResumeReceipts
  PROVE  IInv'
<1>0. Types
  BY DEF IInv
<1>1. UNCHANGED <<durable, active, restarts, faults, lost, aux>>
  BY DEF ResumeReceipts
<1>2. retries' = [o \in Ops |-> IF Retriable(o) THEN "running" ELSE retries[o]]
  BY DEF ResumeReceipts
<1>3. Types'
  <2>1. retries' \in Retries
    BY <1>0, <1>2 DEF Types, Retries
  <2> QED
    BY <1>0, <1>1, <2>1 DEF Types, durable, aux
<1>4. Exclusive' /\ InstalledHasFiles'
  BY <1>1 DEF IInv, Exclusive, Active, InstalledHasFiles, durable
<1>5. ASSUME NEW o \in Ops PROVE Held(o)'
  <2>1. Held(o)
    BY DEF IInv
  <2>2. Working(o)' /\ Explained(o)'
    BY <1>1, <2>1 DEF Held, Working, Explained, durable, aux
  <2>3. Retriable(o) => active[o] = None /\ row[o] # None
    BY <2>1 DEF Retriable, Held, Claimed
  <2>4. retries'[o] = IF Retriable(o) THEN "running" ELSE retries[o]
    BY <1>2
  <2>5. Claimed(o)'
    BY <1>1, <2>1, <2>3, <2>4 DEF Held, Claimed, durable, aux
  <2> QED
    BY <2>2, <2>5 DEF Held
<1> QED
  BY <1>3, <1>4, <1>5 DEF IInv

\* Uninstalling and removing files keeps away from archives that are busy.
LEMMA LibrarySteps ==
  ASSUME IInv, NEW h \in Hashes, Uninstall(h) \/ Cleanup(h) \/ ArchiveSpoilt(h)
  PROVE  IInv'
<1>0. Types /\ InstalledHasFiles
  BY DEF IInv
<1>1. UNCHANGED <<row, claims, stages, active, retries, restarts, lost, left, installs, recorded, acked>>
  BY DEF Uninstall, Cleanup, ArchiveSpoilt, queue, aux
<1>2. Types' /\ InstalledHasFiles'
  <2>1. ASSUME Uninstall(h) PROVE Types' /\ InstalledHasFiles'
    BY <1>0, <1>1, <2>1 DEF Uninstall, Types, InstalledHasFiles, queue, aux
  <2>2. ASSUME Cleanup(h) PROVE Types' /\ InstalledHasFiles'
    BY <1>0, <1>1, <2>2 DEF Cleanup, Types, InstalledHasFiles, queue, aux
  <2>3. ASSUME ArchiveSpoilt(h) PROVE Types' /\ InstalledHasFiles'
    <3>1. archive' \in [Hashes -> {"none", "good", "bad"}] /\ faults' \in 0..MaxFaults
      BY <1>0, <2>3 DEF ArchiveSpoilt, Types
    <3> QED
      BY <1>0, <1>1, <2>3, <3>1 DEF ArchiveSpoilt, Types, InstalledHasFiles, queue, aux
  <2> QED
    BY <2>1, <2>2, <2>3
<1>3. Exclusive'
  BY <1>1 DEF IInv, Exclusive, Active
<1>4. ASSUME NEW o \in Ops PROVE Held(o)'
  <2>1. Held(o)
    BY DEF IInv
  <2>2. ASSUME active[o] # None
        PROVE  /\ active[o].hash \notin removals'
               /\ active[o].hash \in files => active[o].hash \in files'
    <3>1. active[o].hash \notin removals
      BY <2>1, <2>2 DEF Held, Working
    <3>2. CASE Uninstall(h)
      BY <2>2, <3>1, <3>2 DEF Uninstall, BusyHash, Active
    <3>3. CASE Cleanup(h)
      BY <3>1, <3>3 DEF Cleanup
    <3>4. CASE ArchiveSpoilt(h)
      BY <3>1, <3>4 DEF ArchiveSpoilt
    <3> QED
      BY <3>2, <3>3, <3>4
  <2>3. Working(o)'
    BY <1>1, <2>1, <2>2 DEF Held, Working
  <2>4. Explained(o)' /\ Claimed(o)'
    BY <1>1, <2>1 DEF Held, Explained, Claimed
  <2> QED
    BY <2>3, <2>4 DEF Held
<1> QED
  BY <1>2, <1>3, <1>4 DEF IInv

\* A sign-out sets the flag of every operation.
LEMMA SignOutStep ==
  ASSUME IInv, SignOut
  PROVE  IInv'
<1>0. Types
  BY DEF IInv
<1>1. UNCHANGED <<durable, retries, restarts, faults, lost, aux>>
  BY DEF SignOut
<1>2. ASSUME NEW o \in Ops
      PROVE  /\ active'[o] \in Actives \cup {None}
             /\ active[o] = None => active'[o] = None
             /\ active[o] # None =>
                  /\ active'[o] # None /\ Saved(active'[o]) = Saved(active[o])
                  /\ active'[o].status = active[o].status /\ active'[o].kind = active[o].kind
                  /\ active'[o].step = active[o].step /\ active'[o].result = active[o].result
                  /\ active'[o].hash = active[o].hash /\ active'[o].cancel = active[o].cancel
  <2> DEFINE b == [active[o] EXCEPT !.signedOut = TRUE]
  <2>1. active'[o] = IF active[o] = None THEN None ELSE b
    BY DEF SignOut
  <2>2. ASSUME active[o] # None
        PROVE  /\ b \in Actives /\ b # None /\ Saved(b) = Saved(active[o])
               /\ b.status = active[o].status /\ b.kind = active[o].kind
               /\ b.step = active[o].step /\ b.result = active[o].result
               /\ b.hash = active[o].hash /\ b.cancel = active[o].cancel
    <3>1. active[o] \in Actives
      BY <1>0, <2>2 DEF Types, Queues
    <3>2. b \in Actives
      BY <3>1 DEF Actives
    <3> QED
      BY <3>1, <3>2, SavedType DEF Actives, Saved
  <2> HIDE DEF b
  <2> QED
    BY <2>1, <2>2
<1>3. active' \in Queues
  BY <1>2 DEF SignOut, Queues
<1>4. Types' /\ InstalledHasFiles'
  BY <1>0, <1>1, <1>3 DEF IInv, Types, InstalledHasFiles, durable, aux
<1>5. Exclusive'
  BY <1>2, Shrinks DEF IInv, Active
<1>6. ASSUME NEW o \in Ops PROVE Held(o)'
  <2>1. Held(o)
    BY DEF IInv
  <2>2. Working(o)'
    BY <1>1, <1>2, <2>1 DEF Held, Working, durable, aux
  <2>3. Explained(o)' /\ Claimed(o)'
    BY <1>1, <1>2, <2>1 DEF Held, Explained, Claimed, durable, aux
  <2> QED
    BY <2>2, <2>3 DEF Held
<1> QED
  BY <1>4, <1>5, <1>6 DEF IInv

\* After the end of the process the next one fails what was saved as unfinished.
LEMMA RestartStep ==
  ASSUME IInv, Restart
  PROVE  IInv'
<1>0. Types
  BY DEF IInv
<1>1. /\ left' = left \cup Active /\ active' = [o \in Ops |-> None]
      /\ retries' = [o \in Ops |-> "none"] /\ row' = [o \in Ops |-> Recovered(row[o])]
      /\ UNCHANGED <<claims, archive, stages, files, library, removals, faults, lost, installs,
                     recorded, acked>>
  BY DEF Restart
<1>2. ASSUME NEW o \in Ops
      PROVE  /\ row'[o] \in Operations \cup {None}
             /\ row'[o] = None <=> row[o] = None
             /\ row[o] # None =>
                  /\ row'[o].receipt = row[o].receipt /\ row'[o].kind = row[o].kind
                  /\ row'[o].status \notin Unfinished
                  /\ row'[o].status = "completed" => row[o].status = "completed"
  <2> DEFINE r == [row[o] EXCEPT !.status = "failed"]
  <2>1. row'[o] = IF row[o] # None /\ row[o].status \in Unfinished THEN r ELSE row[o]
    BY <1>1 DEF Recovered
  <2>2. row[o] \in Operations \cup {None}
    BY <1>0 DEF Types, Rows
  <2>3. ASSUME row[o] # None
        PROVE  /\ r \in Operations /\ r # None /\ r.receipt = row[o].receipt /\ r.kind = row[o].kind
               /\ r.status = "failed"
    <3>1. r \in Operations
      BY <2>2, <2>3 DEF Operations, Statuses
    <3> QED
      BY <2>2, <2>3, <3>1 DEF Operations
  <2> HIDE DEF r
  <2> QED
    BY <2>1, <2>2, <2>3 DEF Unfinished
<1>3. active' \in Queues /\ retries' \in Retries /\ \A o \in Ops : active'[o] = None /\ retries'[o] = "none"
  BY <1>1 DEF Queues, Retries
<1>4. Types' /\ InstalledHasFiles'
  <2>1. row' \in Rows
    BY <1>1, <1>2 DEF Rows
  <2>2. restarts' \in 0..MaxRestarts
    BY <1>0 DEF Restart, Types
  <2>3. left' \subseteq Ops
    BY <1>0, <1>1 DEF Types, Active
  <2> QED
    BY <1>0, <1>1, <1>3, <2>1, <2>2, <2>3 DEF IInv, Types, InstalledHasFiles
<1>5. Exclusive'
  BY <1>3, Shrinks DEF IInv, Active
<1>6. ASSUME NEW o \in Ops PROVE Held(o)'
  <2>1. Held(o)
    BY DEF IInv
  <2>2. Working(o)'
    BY <1>3 DEF Working
  <2>3. o \in Active => row[o] # None
    <3>1. ASSUME active[o] # None PROVE row[o] # None
      BY <3>1, InProgress
    <3> QED
      BY <3>1 DEF Active
  <2>4. Explained(o)'
    BY <1>1, <1>2, <2>1, <2>3 DEF Held, Explained, Active
  <2>5. Claimed(o)'
    BY <1>1, <1>2, <1>3, <2>1 DEF Held, Claimed
  <2> QED
    BY <2>2, <2>4, <2>5 DEF Held
<1> QED
  BY <1>4, <1>5, <1>6 DEF IInv

(***************************************************************************)
(* The theorems.                                                           *)
(***************************************************************************)
LEMMA InitIInv ==
  Init => IInv
<1> SUFFICES ASSUME Init PROVE IInv
  OBVIOUS
<1>1. Types
  <2>1. row \in Rows /\ active \in Queues /\ retries \in Retries
    BY DEF Init, Rows, Queues, Retries
  <2>2. archive \in [Hashes -> {"none", "good", "bad"}]
    BY DEF Init
  <2>3. faults \in 0..MaxFaults /\ restarts \in 0..MaxRestarts
    BY DEF Init
  <2> QED
    BY <2>1, <2>2, <2>3 DEF Init, Types
<1>2. Exclusive
  <2>1. Active = {}
    BY DEF Init, Active
  <2>2. IsFiniteSet(Active) /\ Cardinality(Active) = 0
    BY <2>1, FS_EmptySet
  <2> QED
    BY <2>1, <2>2 DEF Exclusive
<1>3. \A o \in Ops : Held(o)
  BY DEF Init, Held, Working, Explained, Claimed
<1> QED
  BY <1>1, <1>2, <1>3 DEF IInv, InstalledHasFiles, Init

LEMMA StepIInv ==
  IInv /\ [Next]_vars => IInv'
<1> SUFFICES ASSUME IInv, [Next]_vars PROVE IInv'
  OBVIOUS
<1>1. ASSUME NEW o \in Ops, NEW h \in Hashes,
             VerifyInstalled(o, h) \/ \E k \in {"archive", "install"} : StartRegistry(o, k, h)
      PROVE  IInv'
  BY <1>1, PlayerSteps
<1>2. ASSUME NEW o \in Ops,
             CancelOperation(o) \/ Worker(o) \/ WorkerDies(o) \/ Abort(o)
               \/ Poll(o) \/ RetryDone(o) \/ PollRetry(o) \/ ApprovalChanges(o)
      PROVE  IInv'
  BY <1>2, FlagSteps, WorkerSteps, PollSteps, RetrySteps
<1>3. ASSUME NEW h \in Hashes, Uninstall(h) \/ Cleanup(h) \/ ArchiveSpoilt(h) PROVE IInv'
  BY <1>3, LibrarySteps
<1>4. CASE UNCHANGED vars
  <2>1. UNCHANGED <<row, claims, active, retries, archive, stages, files, library, removals, faults,
                    restarts, lost, left, installs, recorded, acked>>
    BY <1>4 DEF vars, durable, queue, aux
  <2>2. Types' /\ Exclusive' /\ InstalledHasFiles'
    BY <2>1 DEF IInv, Types, Exclusive, Active, InstalledHasFiles
  <2>3. ASSUME NEW o \in Ops PROVE Held(o)'
    BY <2>1 DEF IInv, Held, Working, Explained, Claimed
  <2> QED
    BY <2>2, <2>3 DEF IInv
<1> QED
  BY <1>1, <1>2, <1>3, <1>4, ResumeStep, SignOutStep, RestartStep DEF Next

\* The types; and never more than Slots operations at once, no two of them on the same
\* archive (packages.rs:247).
THEOREM QueueTypes == Spec => []TypeOK
<1>1. IInv => TypeOK
  BY DEF IInv, Types, Exclusive, TypeOK, Rows, Queues, Retries
<1> QED
  BY <1>1, InitIInv, StepIInv, PTL DEF Spec

\* A receipt claim is kept until the registry has the receipt, and the row of its operation
\* is linked to it for as long, whatever is cancelled, dropped or restarted
\* (packages/registry.rs:804).
THEOREM ClaimsAreKept == Spec => []ReceiptsAreKept
<1>1. IInv => ReceiptsAreKept
  <2> SUFFICES ASSUME IInv PROVE ReceiptsAreKept
    OBVIOUS
  <2>1. recorded \subseteq Ops
    BY DEF IInv, Types
  <2>2. \A o \in Ops : Claimed(o)
    BY DEF IInv, Held
  <2> QED
    BY <2>1, <2>2 DEF ReceiptsAreKept, Claimed
<1> QED
  BY <1>1, InitIInv, StepIInv, PTL DEF Spec

\* The saved rows and the partial files say what is so: unfinished is worked on, completed was
\* committed, a partial file belongs to an operation in progress or to a dropped one
\* (packages/registry.rs:608, 804).
THEOREM RowsSayWhatIsSo == Spec => []RowsAreTrue
<1>1. IInv => RowsAreTrue
  <2> SUFFICES ASSUME IInv PROVE RowsAreTrue
    OBVIOUS
  <2>1. stages \subseteq Ops
    BY DEF IInv, Types
  <2>2. \A o \in Ops : Explained(o)
    BY DEF IInv, Held
  <2> QED
    BY <2>1, <2>2 DEF RowsAreTrue, UnfinishedIsActive, CompletedIsInstalled, StagesExplained, Explained
<1> QED
  BY <1>1, InitIInv, StepIInv, PTL DEF Spec

\* An installed release has its files, however installations, verifications, uninstalls and
\* cleanups of one archive interleave (packages.rs:250, backend.rs:16).
THEOREM FilesOutliveReleases == Spec => []InstalledHasFiles
<1>1. IInv => InstalledHasFiles
  BY DEF IInv
<1> QED
  BY <1>1, InitIInv, StepIInv, PTL DEF Spec

\* Nothing is committed to the library for an operation that was cancelled, whose approval
\* changed, or whose content was not verified (packages/registry.rs:819).
THEOREM OnlyWantedInstalls == Spec => InstallsAreWanted
<1>1. ASSUME IInv, [Next]_vars, NEW o \in Ops, o \in installs' \ installs
      PROVE  /\ ~active[o].cancel
             /\ active[o].approved
             /\ active[o].hash \in files
             /\ row[o].status = "preparing"
  <2>1. \E u \in Ops : PollInstalled(u) /\ o \in installs' \ installs
    BY <1>1, ZenonT(40) DEF Next, vars, durable, queue, aux, StartRegistry, VerifyInstalled, CancelOperation,
       Worker, CachedDone, TransferDone, PromoteDone, ReceiptDone, InstallDone, VerifyDone, WorkerDies,
       Abort, Poll, PollCached, PollTransferred, PollTransferFailed, PollPromoted, PollAcknowledged,
       PollUnacknowledged, PollReceiptDead, PollVerified, RetryDone, PollRetry, ApprovalChanges,
       ResumeReceipts, Uninstall, Cleanup, ArchiveSpoilt, SignOut, Restart
  <2>2. /\ PollInstalled(o) /\ active[o].result = "ok" /\ Wanted(active[o]) /\ active[o].approved
    BY <2>1 DEF PollInstalled
  <2>3. active[o] # None /\ active[o].step = "install"
    BY <2>2 DEF PollInstalled, Collected
  <2>4. /\ Working(o) /\ active[o] \in Actives /\ row[o].status = active[o].status
    BY <1>1, <2>3, InProgress DEF IInv, Held
  <2> QED
    BY <2>2, <2>3, <2>4 DEF Working, Wanted, Unfinished
<1>2. IInv /\ [Next]_vars =>
      [\A o \in Ops : o \in installs' \ installs =>
         /\ ~active[o].cancel
         /\ active[o].approved
         /\ active[o].hash \in files
         /\ row[o].status = "preparing"]_vars
  BY <1>1
<1> QED
  BY <1>2, InitIInv, StepIInv, PTL DEF Spec, InstallsAreWanted
=============================================================================
