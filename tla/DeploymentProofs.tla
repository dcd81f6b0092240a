-------------------------- MODULE DeploymentProofs --------------------------
(***************************************************************************)
(* The safety properties of Deployment, for every folder, every set of     *)
(* setups and every pattern of crashes, failures, edits and game starts;   *)
(* and that it implements AtomicDeployment.                                *)
(***************************************************************************)
EXTENDS Deployment, TLAPS

USE AbsentAssumption, NoPathAssumption, FilesAssumption, EditAssumption

\* The map without any file is a file map.
LEMMA NothingIsFiles == Nothing \in Files
  BY DEF Nothing, Files

\* After the initial rollback an operation goes where it works without a journal.
LEMMA ContinuationPlaces ==
  \A o \in Operations \ {"recover", "abort"} : Continuation[o] \in {"plan", "scan", "missing"}
  BY DEF Operations, Continuation

\* Types hold initially.
LEMMA TypeInit == Init => TypeOK
<1> SUFFICES ASSUME Init PROVE TypeOK
  OBVIOUS
<1>1. user \in Files
  BY FilesAssumption DEF Init
<1>2. disk \in Files /\ owned \in Files /\ next \in Files /\ borrowed \in Files
      /\ want \in Files
  BY <1>1, NothingIsFiles DEF Init
<1>3. pc = "idle" /\ op = "none" /\ overrun = 0
  BY DEF Init
<1>4. path \in Paths \cup {NoPath} /\ (path # NoPath <=> pc \in Mutating)
  BY DEF Init, Mutating
<1>5. pending \in BOOLEAN /\ forward \in BOOLEAN /\ raced \in BOOLEAN
  BY DEF Init
<1>6. retained \subseteq Content /\ todo \subseteq Paths /\ touched \subseteq Paths
  BY DEF Init
<1>7. pc \in Places /\ op \in Operations \cup {"none"} /\ overrun \in 0..2
  BY <1>3 DEF Places
<1>8. game \in {"Stopped", "Running"} /\ closing \in BOOLEAN
  BY DEF Init
<1> QED
  BY <1>1, <1>2, <1>3, <1>4, <1>5, <1>6, <1>7, <1>8 DEF TypeOK

\* Every step keeps the types.
LEMMA TypeStep == TypeOK /\ [Next]_vars => TypeOK'
<1> SUFFICES ASSUME TypeOK, [Next]_vars PROVE TypeOK'
  OBVIOUS
<1> USE DEF TypeOK, Files, Nothing, Places, Operations, Mutating, record, volatile, outside

<1>1. ASSUME NEW o \in Operations \ {"abort"}, NEW w \in Files, Start(o, w) PROVE TypeOK'
  BY <1>1, ContinuationPlaces DEF Start, EnterRollback, Changed
<1>2. ASSUME NEW p \in Paths, RollbackSkip(p) PROVE TypeOK'
  BY <1>2 DEF RollbackSkip
<1>3. ASSUME NEW p \in Paths, RollbackUnknown(p) PROVE TypeOK'
  BY <1>3 DEF RollbackUnknown, Fail, Return, DropPlan
<1>4. ASSUME NEW p \in Paths, RollbackOpen(p) PROVE TypeOK'
  BY <1>4 DEF RollbackOpen
<1>5. ASSUME NEW p \in Paths, ApplyOpen(p) PROVE TypeOK'
  BY <1>5 DEF ApplyOpen
<1>6. CASE RollbackVerify
  BY <1>6 DEF RollbackVerify, Fail, Return, DropPlan
<1>7. CASE RollbackCommit
  BY <1>7, ContinuationPlaces DEF RollbackCommit, Return
<1>8. CASE Stage
  BY <1>8 DEF Stage
<1>9. CASE Recheck
  BY <1>9 DEF Recheck
<1>10. CASE Swap
  <2>1. path \in Paths /\ To \in Content \cup {Absent}
    BY <1>10 DEF Swap, To
  <2>2. disk' \in Files
    BY <1>10, <2>1 DEF Swap
  <2>3. overrun' \in 0..2
    BY <1>10 DEF Swap
  <2> QED
    BY <1>10, <2>2, <2>3 DEF Swap
<1>11. CASE ReplaceRefused
  BY <1>11 DEF ReplaceRefused, Abort, EnterRollback, Changed, Fail, Return, DropPlan
<1>12. CASE Plan
  BY <1>12 DEF Plan, Fail, Return, DropPlan, Borrows
<1>13. CASE Journal
  BY <1>13 DEF Journal, Backups, Contents, Changed
<1>14. CASE Verify
  BY <1>14 DEF Verify, Abort, EnterRollback, Changed, Fail, Return, DropPlan
<1>15. CASE Commit
  BY <1>15 DEF Commit, Return
<1>16. CASE Scan
  BY <1>16 DEF Scan, Fail, Return, DropPlan
<1>17. CASE Missing
  BY <1>17 DEF Missing, Fail, Return, DropPlan
<1>18. CASE Forget
  BY <1>18 DEF Forget, Return
<1>19. CASE Crash
  BY <1>19 DEF Crash, Return, DropPlan
<1>20. CASE Fault
  BY <1>20 DEF Fault, Abort, EnterRollback, Changed, Fail, Return, DropPlan
<1>21. CASE GameStarts
  BY <1>21 DEF GameStarts
<1>22. CASE GameStops
  BY <1>22 DEF GameStops
<1>25. CASE Close
  BY <1>25 DEF Close
<1>23. ASSUME NEW p \in Editable, NEW c \in EditTo, Edit(p, c) PROVE TypeOK'
  BY <1>23 DEF Edit
<1>24. CASE UNCHANGED vars
  BY <1>24 DEF vars
<1> QED
  BY <1>1, <1>2, <1>3, <1>4, <1>5, <1>6, <1>7, <1>8, <1>9, <1>10, <1>11, <1>12, <1>13,
     <1>14, <1>15, <1>16, <1>17, <1>18, <1>19, <1>20, <1>21, <1>22, <1>23, <1>24, <1>25
  DEF Next, Step, Request, Environment, OutsideEdit,
     Install, Recover, Remove, RepairMissing

\* Every step moves the operation to a place whose journal and direction fit.
LEMMA PhaseStep == TypeOK /\ PhaseInv /\ [Next]_vars => PhaseInv'
<1> SUFFICES ASSUME TypeOK, PhaseInv, [Next]_vars PROVE PhaseInv'
  OBVIOUS
<1> USE DEF PhaseInv, Applying, RollingBack, Mutating, record, volatile, outside
<1>1. ASSUME NEW o \in Operations \ {"abort"}, NEW w \in Files, Start(o, w) PROVE PhaseInv'
  BY <1>1, ContinuationPlaces DEF Start, EnterRollback, TypeOK, Changed, Nothing
<1>2. ASSUME NEW p \in Paths, RollbackSkip(p) PROVE PhaseInv'
  BY <1>2, ContinuationPlaces DEF RollbackSkip, TypeOK, Changed, Nothing
<1>3. ASSUME NEW p \in Paths, RollbackUnknown(p) PROVE PhaseInv'
  BY <1>3, ContinuationPlaces DEF RollbackUnknown, Fail, Return, DropPlan, TypeOK, Changed,
       Nothing
<1>4. ASSUME NEW p \in Paths, RollbackOpen(p) PROVE PhaseInv'
  BY <1>4, ContinuationPlaces DEF RollbackOpen, TypeOK, Changed, Nothing
<1>5. ASSUME NEW p \in Paths, ApplyOpen(p) PROVE PhaseInv'
  BY <1>5, ContinuationPlaces DEF ApplyOpen, TypeOK, Changed, Nothing
<1>6. CASE RollbackVerify
  <2>1. CASE Fail
    BY <1>6, <2>1 DEF RollbackVerify, Fail, Return, DropPlan, TypeOK, Changed
  <2>2. CASE pc' = "restored" /\ UNCHANGED <<record, forward, todo, path>>
    BY <1>6, <2>2 DEF RollbackVerify, TypeOK, Changed
  <2> QED
    BY <1>6, <2>1, <2>2 DEF RollbackVerify
<1>7. CASE RollbackCommit
  BY <1>7, ContinuationPlaces DEF RollbackCommit, Return, TypeOK, Changed, Nothing
<1>8. CASE Stage
  BY <1>8, ContinuationPlaces DEF Stage, TypeOK, Changed, Nothing
<1>9. CASE Recheck
  BY <1>9, ContinuationPlaces DEF Recheck, TypeOK, Changed, Nothing
<1>10. CASE Swap
  BY <1>10, ContinuationPlaces DEF Swap, TypeOK, Changed, Nothing
<1>11. CASE ReplaceRefused
  BY <1>11, ContinuationPlaces DEF ReplaceRefused, Abort, EnterRollback, Fail, Return,
       DropPlan, TypeOK, Changed, Nothing
<1>12. CASE Plan
  BY <1>12, ContinuationPlaces DEF Plan, Fail, Return, DropPlan, Borrows, TypeOK, Changed,
       Nothing
<1>13. CASE Journal
  BY <1>13, ContinuationPlaces DEF Journal, TypeOK, Changed, Nothing
<1>14. CASE Verify
  BY <1>14, ContinuationPlaces DEF Verify, Abort, EnterRollback, Fail, Return, DropPlan,
       TypeOK, Changed, Nothing
<1>15. CASE Commit
  BY <1>15, ContinuationPlaces DEF Commit, Return, TypeOK, Changed, Nothing
<1>16. CASE Scan
  BY <1>16, ContinuationPlaces DEF Scan, Fail, Return, DropPlan, TypeOK, Changed, Nothing
<1>17. CASE Missing
  BY <1>17, ContinuationPlaces DEF Missing, Fail, Return, DropPlan, TypeOK, Changed, Nothing
<1>18. CASE Forget
  BY <1>18, ContinuationPlaces DEF Forget, Return, TypeOK, Changed, Nothing
<1>19. CASE Crash
  BY <1>19, ContinuationPlaces DEF Crash, Return, DropPlan, TypeOK, Changed, Nothing
<1>20. CASE Fault
  BY <1>20, ContinuationPlaces DEF Fault, Abort, EnterRollback, Fail, Return, DropPlan,
       TypeOK, Changed, Nothing
<1>21. CASE GameStarts
  BY <1>21, ContinuationPlaces DEF GameStarts, TypeOK, Changed, Nothing
<1>22. CASE GameStops
  BY <1>22, ContinuationPlaces DEF GameStops, TypeOK, Changed, Nothing
<1>25. CASE Close
  BY <1>25, ContinuationPlaces DEF Close, TypeOK, Changed, Nothing
<1>23. ASSUME NEW p \in Editable, NEW c \in EditTo, Edit(p, c) PROVE PhaseInv'
  BY <1>23, ContinuationPlaces DEF Edit, TypeOK, Changed, Nothing
<1>24. CASE UNCHANGED vars
  BY <1>24, ContinuationPlaces DEF vars, TypeOK, Changed, Nothing
<1> QED
  BY <1>1, <1>2, <1>3, <1>4, <1>5, <1>6, <1>7, <1>8, <1>9, <1>10, <1>11, <1>12, <1>13,
     <1>14, <1>15, <1>16, <1>17, <1>18, <1>19, <1>20, <1>21, <1>22, <1>23, <1>24, <1>25,
     NothingIsFiles DEF Operations, Next, Step, Request, Environment, OutsideEdit,
     Install, Recover, Remove, RepairMissing

\* A path is claimed only by Plan, which finds it free; a repair forgets only paths
\* another program emptied.
LEMMA ClaimStep ==
  TypeOK /\ PhaseInv /\ ClaimInv /\ FolderIsAccounted /\ [Next]_vars => ClaimInv'
<1> SUFFICES ASSUME TypeOK, PhaseInv, ClaimInv, FolderIsAccounted, [Next]_vars
             PROVE  ClaimInv'
  OBVIOUS
<1> USE DEF record, volatile, outside, TypeOK, Files, PhaseInv, Applying, RollingBack,
         Mutating, ClaimInv, FolderIsAccounted, Base, Nothing
<1>1. ASSUME NEW o \in Operations \ {"abort"}, NEW w \in Files, Start(o, w) PROVE ClaimInv'
  BY <1>1, ContinuationPlaces DEF Start, EnterRollback
<1>2. ASSUME NEW p \in Paths, RollbackSkip(p) PROVE ClaimInv'
  BY <1>2, ContinuationPlaces DEF RollbackSkip
<1>3. ASSUME NEW p \in Paths, RollbackUnknown(p) PROVE ClaimInv'
  BY <1>3, ContinuationPlaces DEF RollbackUnknown, Fail, Return, DropPlan
<1>4. ASSUME NEW p \in Paths, RollbackOpen(p) PROVE ClaimInv'
  BY <1>4, ContinuationPlaces DEF RollbackOpen
<1>5. ASSUME NEW p \in Paths, ApplyOpen(p) PROVE ClaimInv'
  BY <1>5, ContinuationPlaces DEF ApplyOpen
<1>6. CASE RollbackVerify
  BY <1>6, ContinuationPlaces DEF RollbackVerify, Fail, Return, DropPlan
<1>7. CASE RollbackCommit
  BY <1>7, ContinuationPlaces DEF RollbackCommit, Return
<1>8. CASE Stage
  BY <1>8, ContinuationPlaces DEF Stage
<1>9. CASE Recheck
  BY <1>9, ContinuationPlaces DEF Recheck, StillExpected
<1>10. CASE Swap
  BY <1>10, ContinuationPlaces DEF Swap, To
<1>11. CASE ReplaceRefused
  BY <1>11, ContinuationPlaces DEF ReplaceRefused, Abort, EnterRollback, Fail, Return, DropPlan
<1>12. CASE Plan
  BY <1>12, ContinuationPlaces DEF Plan, Fail, Return, DropPlan, Borrows, Intact, Conflict
<1>13. CASE Journal
  BY <1>13, ContinuationPlaces DEF Journal
<1>14. CASE Verify
  BY <1>14, ContinuationPlaces DEF Verify, Abort, EnterRollback, Fail, Return, DropPlan
<1>15. CASE Commit
  BY <1>15, ContinuationPlaces DEF Commit, Return
<1>16. CASE Scan
  BY <1>16, ContinuationPlaces DEF Scan, Fail, Return, DropPlan
<1>17. CASE Missing
  BY <1>17, ContinuationPlaces DEF Missing, Fail, Return, DropPlan
<1>18. CASE Forget
  BY <1>18, ContinuationPlaces DEF Forget, Return
<1>19. CASE Crash
  BY <1>19, ContinuationPlaces DEF Crash, Return, DropPlan
<1>20. CASE Fault
  BY <1>20, ContinuationPlaces DEF Fault, Abort, EnterRollback, Fail, Return, DropPlan
<1>21. CASE GameStarts
  BY <1>21, ContinuationPlaces DEF GameStarts
<1>22. CASE GameStops
  BY <1>22, ContinuationPlaces DEF GameStops
<1>25. CASE Close
  BY <1>25, ContinuationPlaces DEF Close
<1>23. ASSUME NEW p \in Editable, NEW c \in EditTo, Edit(p, c) PROVE ClaimInv'
  BY <1>23, ContinuationPlaces DEF Edit, Unguarded
<1>24. CASE UNCHANGED vars
  BY <1>24, ContinuationPlaces DEF vars
<1> QED
  BY <1>1, <1>2, <1>3, <1>4, <1>5, <1>6, <1>7, <1>8, <1>9, <1>10, <1>11, <1>12, <1>13,
     <1>14, <1>15, <1>16, <1>17, <1>18, <1>19, <1>20, <1>21, <1>22, <1>23, <1>24, <1>25,
     NothingIsFiles DEF Operations, Next, Step, Request, Environment, OutsideEdit,
     Install, Recover, Remove, RepairMissing

\* A swap moves its path between the two recorded sides; the journal goes away only
\* when every path is on the side that stays.
LEMMA AccountedStep ==
  TypeOK /\ PhaseInv /\ ClaimInv /\ FolderIsAccounted /\ ProgressInv /\ [Next]_vars => FolderIsAccounted'
<1> SUFFICES ASSUME TypeOK, PhaseInv, ClaimInv, FolderIsAccounted, ProgressInv, [Next]_vars
             PROVE  FolderIsAccounted'
  OBVIOUS
<1> USE DEF record, volatile, outside, TypeOK, Files, PhaseInv, Applying, RollingBack,
         Mutating, ClaimInv, FolderIsAccounted, ProgressInv, Base, Nothing, Changed
<1>1. ASSUME NEW o \in Operations \ {"abort"}, NEW w \in Files, Start(o, w) PROVE FolderIsAccounted'
  BY <1>1, ContinuationPlaces DEF Start, EnterRollback
<1>2. ASSUME NEW p \in Paths, RollbackSkip(p) PROVE FolderIsAccounted'
  BY <1>2, ContinuationPlaces DEF RollbackSkip
<1>3. ASSUME NEW p \in Paths, RollbackUnknown(p) PROVE FolderIsAccounted'
  BY <1>3, ContinuationPlaces DEF RollbackUnknown, Fail, Return, DropPlan
<1>4. ASSUME NEW p \in Paths, RollbackOpen(p) PROVE FolderIsAccounted'
  BY <1>4, ContinuationPlaces DEF RollbackOpen
<1>5. ASSUME NEW p \in Paths, ApplyOpen(p) PROVE FolderIsAccounted'
  BY <1>5, ContinuationPlaces DEF ApplyOpen
<1>6. CASE RollbackVerify
  BY <1>6, ContinuationPlaces DEF RollbackVerify, Fail, Return, DropPlan
<1>7. CASE RollbackCommit
  BY <1>7, ContinuationPlaces DEF RollbackCommit, Return
<1>8. CASE Stage
  BY <1>8, ContinuationPlaces DEF Stage
<1>9. CASE Recheck
  BY <1>9, ContinuationPlaces DEF Recheck, StillExpected
<1>10. CASE Swap
  BY <1>10, ContinuationPlaces DEF Swap, To
<1>11. CASE ReplaceRefused
  BY <1>11, ContinuationPlaces DEF ReplaceRefused, Abort, EnterRollback, Fail, Return, DropPlan
<1>12. CASE Plan
  BY <1>12, ContinuationPlaces DEF Plan, Fail, Return, DropPlan, Borrows
<1>13. CASE Journal
  BY <1>13, ContinuationPlaces DEF Journal
<1>14. CASE Verify
  BY <1>14, ContinuationPlaces DEF Verify, Abort, EnterRollback, Fail, Return, DropPlan
<1>15. CASE Commit
  BY <1>15, ContinuationPlaces DEF Commit, Return
<1>16. CASE Scan
  BY <1>16, ContinuationPlaces DEF Scan, Fail, Return, DropPlan
<1>17. CASE Missing
  BY <1>17, ContinuationPlaces DEF Missing, Fail, Return, DropPlan
<1>18. CASE Forget
  BY <1>18, ContinuationPlaces DEF Forget, Return
<1>19. CASE Crash
  BY <1>19, ContinuationPlaces DEF Crash, Return, DropPlan
<1>20. CASE Fault
  BY <1>20, ContinuationPlaces DEF Fault, Abort, EnterRollback, Fail, Return, DropPlan
<1>21. CASE GameStarts
  BY <1>21, ContinuationPlaces DEF GameStarts
<1>22. CASE GameStops
  BY <1>22, ContinuationPlaces DEF GameStops
<1>25. CASE Close
  BY <1>25, ContinuationPlaces DEF Close
<1>23. ASSUME NEW p \in Editable, NEW c \in EditTo, Edit(p, c) PROVE FolderIsAccounted'
  BY <1>23, ContinuationPlaces DEF Edit, Unguarded
<1>24. CASE UNCHANGED vars
  BY <1>24, ContinuationPlaces DEF vars
<1> QED
  BY <1>1, <1>2, <1>3, <1>4, <1>5, <1>6, <1>7, <1>8, <1>9, <1>10, <1>11, <1>12, <1>13,
     <1>14, <1>15, <1>16, <1>17, <1>18, <1>19, <1>20, <1>21, <1>22, <1>23, <1>24, <1>25,
     NothingIsFiles DEF Operations, Next, Step, Request, Environment, OutsideEdit,
     Install, Recover, Remove, RepairMissing

\* What a loop has dealt with stays dealt with until its direction turns.
LEMMA ProgressStep ==
  TypeOK /\ PhaseInv /\ ClaimInv /\ FolderIsAccounted /\ ProgressInv /\ [Next]_vars => ProgressInv'
<1> SUFFICES ASSUME TypeOK, PhaseInv, ClaimInv, FolderIsAccounted, ProgressInv, [Next]_vars
             PROVE  ProgressInv'
  OBVIOUS
<1> USE DEF record, volatile, outside, TypeOK, Files, PhaseInv, Applying, RollingBack,
         Mutating, ClaimInv, FolderIsAccounted, ProgressInv, Base, Nothing, Changed
<1>1. ASSUME NEW o \in Operations \ {"abort"}, NEW w \in Files, Start(o, w) PROVE ProgressInv'
  BY <1>1, ContinuationPlaces DEF Start, EnterRollback
<1>2. ASSUME NEW p \in Paths, RollbackSkip(p) PROVE ProgressInv'
  BY <1>2, ContinuationPlaces DEF RollbackSkip
<1>3. ASSUME NEW p \in Paths, RollbackUnknown(p) PROVE ProgressInv'
  BY <1>3, ContinuationPlaces DEF RollbackUnknown, Fail, Return, DropPlan
<1>4. ASSUME NEW p \in Paths, RollbackOpen(p) PROVE ProgressInv'
  BY <1>4, ContinuationPlaces DEF RollbackOpen
<1>5. ASSUME NEW p \in Paths, ApplyOpen(p) PROVE ProgressInv'
  BY <1>5, ContinuationPlaces DEF ApplyOpen
<1>6. CASE RollbackVerify
  BY <1>6, ContinuationPlaces DEF RollbackVerify, Fail, Return, DropPlan
<1>7. CASE RollbackCommit
  BY <1>7, ContinuationPlaces DEF RollbackCommit, Return
<1>8. CASE Stage
  BY <1>8, ContinuationPlaces DEF Stage
<1>9. CASE Recheck
  BY <1>9, ContinuationPlaces DEF Recheck, StillExpected
<1>10. CASE Swap
  BY <1>10, ContinuationPlaces DEF Swap, To
<1>11. CASE ReplaceRefused
  BY <1>11, ContinuationPlaces DEF ReplaceRefused, Abort, EnterRollback, Fail, Return, DropPlan
<1>12. CASE Plan
  BY <1>12, ContinuationPlaces DEF Plan, Fail, Return, DropPlan, Borrows
<1>13. CASE Journal
  BY <1>13, ContinuationPlaces DEF Journal
<1>14. CASE Verify
  <2>1. forward
    BY <1>14 DEF Verify
  <2>2. CASE pc' = "verified" /\ UNCHANGED <<disk, record, forward, todo, path>>
    BY <1>14, <2>2 DEF Verify
  <2>3. CASE EnterRollback /\ UNCHANGED <<disk, record>>
    BY <1>14, <2>3 DEF Verify, EnterRollback
  <2> QED
    BY <1>14, <2>1, <2>2, <2>3 DEF Verify, Abort
<1>15. CASE Commit
  BY <1>15, ContinuationPlaces DEF Commit, Return
<1>16. CASE Scan
  BY <1>16, ContinuationPlaces DEF Scan, Fail, Return, DropPlan
<1>17. CASE Missing
  BY <1>17, ContinuationPlaces DEF Missing, Fail, Return, DropPlan
<1>18. CASE Forget
  BY <1>18, ContinuationPlaces DEF Forget, Return
<1>19. CASE Crash
  BY <1>19, ContinuationPlaces DEF Crash, Return, DropPlan
<1>20. CASE Fault
  BY <1>20, ContinuationPlaces DEF Fault, Abort, EnterRollback, Fail, Return, DropPlan
<1>21. CASE GameStarts
  BY <1>21, ContinuationPlaces DEF GameStarts
<1>22. CASE GameStops
  BY <1>22, ContinuationPlaces DEF GameStops
<1>25. CASE Close
  BY <1>25, ContinuationPlaces DEF Close
<1>23. ASSUME NEW p \in Editable, NEW c \in EditTo, Edit(p, c) PROVE ProgressInv'
  BY <1>23, ContinuationPlaces DEF Edit, Unguarded
<1>24. CASE UNCHANGED vars
  BY <1>24, ContinuationPlaces DEF vars
<1> QED
  BY <1>1, <1>2, <1>3, <1>4, <1>5, <1>6, <1>7, <1>8, <1>9, <1>10, <1>11, <1>12, <1>13,
     <1>14, <1>15, <1>16, <1>17, <1>18, <1>19, <1>20, <1>21, <1>22, <1>23, <1>24, <1>25,
     NothingIsFiles DEF Operations, Next, Step, Request, Environment, OutsideEdit,
     Install, Recover, Remove, RepairMissing

\* The transaction that saves the journal saves the contents with it.
LEMMA BackupsStep ==
  TypeOK /\ PhaseInv /\ BackupsRetained /\ [Next]_vars => BackupsRetained'
<1> SUFFICES ASSUME TypeOK, PhaseInv, BackupsRetained, [Next]_vars
             PROVE  BackupsRetained'
  OBVIOUS
<1> USE DEF record, volatile, outside, TypeOK, Files, PhaseInv, Applying, RollingBack,
         Mutating, BackupsRetained, Backups, Contents, Nothing
<1>1. ASSUME NEW o \in Operations \ {"abort"}, NEW w \in Files, Start(o, w) PROVE BackupsRetained'
  BY <1>1 DEF Start, EnterRollback
<1>2. ASSUME NEW p \in Paths, RollbackSkip(p) PROVE BackupsRetained'
  BY <1>2 DEF RollbackSkip
<1>3. ASSUME NEW p \in Paths, RollbackUnknown(p) PROVE BackupsRetained'
  BY <1>3 DEF RollbackUnknown, Fail, Return, DropPlan
<1>4. ASSUME NEW p \in Paths, RollbackOpen(p) PROVE BackupsRetained'
  BY <1>4 DEF RollbackOpen
<1>5. ASSUME NEW p \in Paths, ApplyOpen(p) PROVE BackupsRetained'
  BY <1>5 DEF ApplyOpen
<1>6. CASE RollbackVerify
  BY <1>6 DEF RollbackVerify, Fail, Return, DropPlan
<1>7. CASE RollbackCommit
  BY <1>7 DEF RollbackCommit, Return
<1>8. CASE Stage
  BY <1>8 DEF Stage
<1>9. CASE Recheck
  BY <1>9 DEF Recheck
<1>10. CASE Swap
  BY <1>10 DEF Swap, To
<1>11. CASE ReplaceRefused
  <2>1. UNCHANGED <<owned, next, pending, retained>>
    BY <1>11 DEF ReplaceRefused, Abort, EnterRollback, Fail, Return, DropPlan
  <2> QED
    BY <2>1
<1>12. CASE Plan
  BY <1>12 DEF Plan, Fail, Return, DropPlan, Borrows
<1>13. CASE Journal
  BY <1>13 DEF Journal
<1>14. CASE Verify
  BY <1>14 DEF Verify, Abort, EnterRollback, Fail, Return, DropPlan
<1>15. CASE Commit
  BY <1>15 DEF Commit, Return
<1>16. CASE Scan
  BY <1>16 DEF Scan, Fail, Return, DropPlan
<1>17. CASE Missing
  BY <1>17 DEF Missing, Fail, Return, DropPlan
<1>18. CASE Forget
  BY <1>18 DEF Forget, Return
<1>19. CASE Crash
  BY <1>19 DEF Crash, Return, DropPlan
<1>20. CASE Fault
  <2>1. UNCHANGED <<owned, pending, retained>> /\ (pending => UNCHANGED next)
    BY <1>20 DEF Fault, Abort, EnterRollback, Fail, Return, DropPlan
  <2> QED
    BY <2>1
<1>21. CASE GameStarts
  BY <1>21 DEF GameStarts
<1>22. CASE GameStops
  BY <1>22 DEF GameStops
<1>25. CASE Close
  BY <1>25 DEF Close
<1>23. ASSUME NEW p \in Editable, NEW c \in EditTo, Edit(p, c) PROVE BackupsRetained'
  BY <1>23 DEF Edit, Unguarded
<1>24. CASE UNCHANGED vars
  BY <1>24 DEF vars
<1> QED
  BY <1>1, <1>2, <1>3, <1>4, <1>5, <1>6, <1>7, <1>8, <1>9, <1>10, <1>11, <1>12, <1>13,
     <1>14, <1>15, <1>16, <1>17, <1>18, <1>19, <1>20, <1>21, <1>22, <1>23, <1>24, <1>25,
     NothingIsFiles DEF Operations, Next, Step, Request, Environment, OutsideEdit,
     Install, Recover, Remove, RepairMissing

\* Only an edit can come between the last check and the change.
LEMMA CheckedStep ==
  TypeOK /\ PhaseInv /\ CheckedInv /\ [Next]_vars => CheckedInv'
<1> SUFFICES ASSUME TypeOK, PhaseInv, CheckedInv, [Next]_vars
             PROVE  CheckedInv'
  OBVIOUS
<1> USE DEF record, volatile, outside, TypeOK, PhaseInv, Applying, RollingBack, Mutating,
         CheckedInv, Unguarded, From, To
<1>1. ASSUME NEW o \in Operations \ {"abort"}, NEW w \in Files, Start(o, w) PROVE CheckedInv'
  BY <1>1, ContinuationPlaces DEF Start, EnterRollback
<1>2. ASSUME NEW p \in Paths, RollbackSkip(p) PROVE CheckedInv'
  BY <1>2, ContinuationPlaces DEF RollbackSkip
<1>3. ASSUME NEW p \in Paths, RollbackUnknown(p) PROVE CheckedInv'
  BY <1>3, ContinuationPlaces DEF RollbackUnknown, Fail, Return, DropPlan
<1>4. ASSUME NEW p \in Paths, RollbackOpen(p) PROVE CheckedInv'
  BY <1>4, ContinuationPlaces DEF RollbackOpen
<1>5. ASSUME NEW p \in Paths, ApplyOpen(p) PROVE CheckedInv'
  BY <1>5, ContinuationPlaces DEF ApplyOpen
<1>6. CASE RollbackVerify
  BY <1>6, ContinuationPlaces DEF RollbackVerify, Fail, Return, DropPlan
<1>7. CASE RollbackCommit
  BY <1>7, ContinuationPlaces DEF RollbackCommit, Return
<1>8. CASE Stage
  BY <1>8, ContinuationPlaces DEF Stage
<1>9. CASE Recheck
  BY <1>9, ContinuationPlaces DEF Recheck, StillExpected
<1>10. CASE Swap
  BY <1>10, ContinuationPlaces DEF Swap, To
<1>11. CASE ReplaceRefused
  BY <1>11, ContinuationPlaces DEF ReplaceRefused, Abort, EnterRollback, Fail, Return, DropPlan
<1>12. CASE Plan
  BY <1>12, ContinuationPlaces DEF Plan, Fail, Return, DropPlan, Borrows
<1>13. CASE Journal
  BY <1>13, ContinuationPlaces DEF Journal
<1>14. CASE Verify
  BY <1>14, ContinuationPlaces DEF Verify, Abort, EnterRollback, Fail, Return, DropPlan
<1>15. CASE Commit
  BY <1>15, ContinuationPlaces DEF Commit, Return
<1>16. CASE Scan
  BY <1>16, ContinuationPlaces DEF Scan, Fail, Return, DropPlan
<1>17. CASE Missing
  BY <1>17, ContinuationPlaces DEF Missing, Fail, Return, DropPlan
<1>18. CASE Forget
  BY <1>18, ContinuationPlaces DEF Forget, Return
<1>19. CASE Crash
  BY <1>19, ContinuationPlaces DEF Crash, Return, DropPlan
<1>20. CASE Fault
  BY <1>20, ContinuationPlaces DEF Fault, Abort, EnterRollback, Fail, Return, DropPlan
<1>21. CASE GameStarts
  BY <1>21, ContinuationPlaces DEF GameStarts
<1>22. CASE GameStops
  BY <1>22, ContinuationPlaces DEF GameStops
<1>25. CASE Close
  BY <1>25, ContinuationPlaces DEF Close
<1>23. ASSUME NEW p \in Editable, NEW c \in EditTo, Edit(p, c) PROVE CheckedInv'
  BY <1>23, ContinuationPlaces DEF Edit, Unguarded
<1>24. CASE UNCHANGED vars
  BY <1>24, ContinuationPlaces DEF vars
<1> QED
  BY <1>1, <1>2, <1>3, <1>4, <1>5, <1>6, <1>7, <1>8, <1>9, <1>10, <1>11, <1>12, <1>13,
     <1>14, <1>15, <1>16, <1>17, <1>18, <1>19, <1>20, <1>21, <1>22, <1>23, <1>24, <1>25,
     NothingIsFiles DEF Operations, Next, Step, Request, Environment, OutsideEdit,
     Install, Recover, Remove, RepairMissing

\* The change that is one too late leaves the place from which changes are made, and
\* the guard keeps the operation from coming back to it.
LEMMA OverrunStep ==
  TypeOK /\ OverrunInv /\ [Next]_vars => OverrunInv'
<1> SUFFICES ASSUME TypeOK, OverrunInv, [Next]_vars
             PROVE  OverrunInv'
  OBVIOUS
<1> USE DEF record, volatile, outside, TypeOK, OverrunInv, Mutating
<1>1. ASSUME NEW o \in Operations \ {"abort"}, NEW w \in Files, Start(o, w) PROVE OverrunInv'
  BY <1>1, ContinuationPlaces DEF Start, EnterRollback, Stopped, Guard
<1>2. ASSUME NEW p \in Paths, RollbackSkip(p) PROVE OverrunInv'
  BY <1>2, ContinuationPlaces DEF RollbackSkip, Stopped, Guard
<1>3. ASSUME NEW p \in Paths, RollbackUnknown(p) PROVE OverrunInv'
  BY <1>3, ContinuationPlaces DEF RollbackUnknown, Fail, Return, DropPlan, Stopped, Guard
<1>4. ASSUME NEW p \in Paths, RollbackOpen(p) PROVE OverrunInv'
  BY <1>4, ContinuationPlaces DEF RollbackOpen, Stopped, Guard
<1>5. ASSUME NEW p \in Paths, ApplyOpen(p) PROVE OverrunInv'
  BY <1>5, ContinuationPlaces DEF ApplyOpen, Stopped, Guard
<1>6. CASE RollbackVerify
  BY <1>6, ContinuationPlaces DEF RollbackVerify, Fail, Return, DropPlan, Stopped, Guard
<1>7. CASE RollbackCommit
  BY <1>7, ContinuationPlaces DEF RollbackCommit, Return, Stopped, Guard
<1>8. CASE Stage
  BY <1>8, ContinuationPlaces DEF Stage, Stopped, Guard
<1>9. CASE Recheck
  BY <1>9, ContinuationPlaces DEF Recheck, Stopped, Guard
<1>10. CASE Swap
  BY <1>10, ContinuationPlaces DEF Swap, To, Stopped, Guard
<1>11. CASE ReplaceRefused
  BY <1>11, ContinuationPlaces DEF ReplaceRefused, Abort, EnterRollback, Fail, Return,
       DropPlan, Stopped, Guard
<1>12. CASE Plan
  BY <1>12, ContinuationPlaces DEF Plan, Fail, Return, DropPlan, Borrows, Stopped, Guard
<1>13. CASE Journal
  BY <1>13, ContinuationPlaces DEF Journal, Stopped, Guard
<1>14. CASE Verify
  BY <1>14, ContinuationPlaces DEF Verify, Abort, EnterRollback, Fail, Return, DropPlan,
       Stopped, Guard
<1>15. CASE Commit
  BY <1>15, ContinuationPlaces DEF Commit, Return, Stopped, Guard
<1>16. CASE Scan
  BY <1>16, ContinuationPlaces DEF Scan, Fail, Return, DropPlan, Stopped, Guard
<1>17. CASE Missing
  BY <1>17, ContinuationPlaces DEF Missing, Fail, Return, DropPlan, Stopped, Guard
<1>18. CASE Forget
  BY <1>18, ContinuationPlaces DEF Forget, Return, Stopped, Guard
<1>19. CASE Crash
  BY <1>19, ContinuationPlaces DEF Crash, Return, DropPlan, Stopped, Guard
<1>20. CASE Fault
  BY <1>20, ContinuationPlaces DEF Fault, Abort, EnterRollback, Fail, Return, DropPlan,
       Stopped, Guard
<1>21. CASE GameStarts
  BY <1>21, ContinuationPlaces DEF GameStarts, Stopped, Guard
<1>22. CASE GameStops
  BY <1>22, ContinuationPlaces DEF GameStops, Stopped, Guard
<1>25. CASE Close
  BY <1>25, ContinuationPlaces DEF Close, Stopped, Guard
<1>23. ASSUME NEW p \in Editable, NEW c \in EditTo, Edit(p, c) PROVE OverrunInv'
  BY <1>23, ContinuationPlaces DEF Edit, Unguarded, Stopped, Guard
<1>24. CASE UNCHANGED vars
  BY <1>24, ContinuationPlaces DEF vars, Stopped, Guard
<1> QED
  BY <1>1, <1>2, <1>3, <1>4, <1>5, <1>6, <1>7, <1>8, <1>9, <1>10, <1>11, <1>12, <1>13,
     <1>14, <1>15, <1>16, <1>17, <1>18, <1>19, <1>20, <1>21, <1>22, <1>23, <1>24, <1>25,
     NothingIsFiles DEF Operations, Next, Step, Request, Environment, OutsideEdit,
     Install, Recover, Remove, RepairMissing

-----------------------------------------------------------------------------
\* The strengthened invariant holds initially.
LEMMA InvInit == Init => IInv
<1> SUFFICES ASSUME Init PROVE IInv
  OBVIOUS
<1>1. TypeOK
  BY TypeInit
<1>2. PhaseInv /\ CheckedInv /\ OverrunInv
  BY DEF Init, PhaseInv, Applying, RollingBack, Mutating, Changed, CheckedInv, Unguarded,
         OverrunInv
<1>3. ClaimInv /\ FolderIsAccounted /\ ProgressInv
  BY DEF Init, ClaimInv, FolderIsAccounted, ProgressInv, Base, Nothing, Applying,
         RollingBack, Mutating
<1>4. BackupsRetained
  BY DEF Init, BackupsRetained
<1> QED
  BY <1>1, <1>2, <1>3, <1>4 DEF IInv

\* The strengthened invariant is inductive.
LEMMA InvStep == IInv /\ [Next]_vars => IInv'
  BY TypeStep, PhaseStep, ClaimStep, AccountedStep, ProgressStep, BackupsStep, CheckedStep,
     OverrunStep DEF IInv

\* The strengthened invariant holds of every behaviour of the journal.
THEOREM Invariance == Spec => []IInv
  BY InvInit, InvStep, PTL DEF Spec

\* Type correctness.
THEOREM TypeCorrect == Spec => []TypeOK
<1>1. IInv => TypeOK
  BY DEF IInv
<1> QED
  BY <1>1, Invariance, PTL

\* What an untouched path holds is what the saved record accounts for: crash-safe
\* switching and clean removal, for every folder and every set of setups.
THEOREM FolderAccounted == Spec => []FolderIsAccounted
<1>1. IInv => FolderIsAccounted
  BY DEF IInv
<1> QED
  BY <1>1, Invariance, PTL

\* Rollback never lacks the content it has to restore.
THEOREM RollbackHasBackups == Spec => []BackupsRetained
<1>1. IInv => BackupsRetained
  BY DEF IInv
<1> QED
  BY <1>1, Invariance, PTL

\* At most one file changes after the game has started.
THEOREM GameStartStops == Spec => []GameStartStopsWriting
<1>1. IInv => GameStartStopsWriting
  BY DEF IInv, OverrunInv, GameStartStopsWriting
<1> QED
  BY <1>1, Invariance, PTL

\* Only Swap changes the folder on leaving "swap".
LEMMA SwapOnly ==
  TypeOK /\ [Next]_vars /\ pc = "swap" /\ pc' # "swap" /\ disk' # disk => Swap
<1> SUFFICES ASSUME TypeOK, [Next]_vars, pc = "swap", pc' # "swap", disk' # disk
             PROVE  Swap
  OBVIOUS
<1>1. ~(\E p \in Paths : RollbackSkip(p) \/ RollbackUnknown(p) \/ RollbackOpen(p)
                        \/ ApplyOpen(p))
  BY DEF RollbackSkip, RollbackUnknown, RollbackOpen, ApplyOpen
<1>2. ~(RollbackVerify \/ RollbackCommit \/ Stage \/ Recheck \/ Plan \/ Journal \/ Verify
        \/ Commit \/ Scan \/ Missing \/ Forget)
  BY DEF RollbackVerify, RollbackCommit, Stage, Recheck, Plan, Journal, Verify, Commit,
         Scan, Missing, Forget
<1>3. ~ReplaceRefused /\ ~Fault /\ ~Crash /\ ~Close
  BY DEF ReplaceRefused, Fault, Crash, Close, volatile, Abort, EnterRollback, Fail, Return,
       record
<1>4. ~Request
  BY DEF Request, Install, Recover, Remove, RepairMissing, Start
<1>5. ~GameStarts /\ ~GameStops /\ ~OutsideEdit /\ ~UNCHANGED vars
  BY DEF GameStarts, GameStops, OutsideEdit, Edit, volatile, vars
<1> QED
  BY <1>1, <1>2, <1>3, <1>4, <1>5 DEF Next, Step, Environment

\* Nothing is destroyed that the record does not name for the path, and no path
\* outside the journal is touched.
THEOREM UnknownKept == Spec => UnknownContentKept
<1>1. ASSUME IInv, [Next]_vars, NEW p \in Paths,
             pc = "swap", pc' # "swap", disk'[p] # disk[p]
      PROVE  /\ pending /\ owned[p] # next[p]
             /\ disk[p] \in {Absent, owned[p], next[p]} \/ raced
  <2>1. Swap
    BY <1>1, SwapOnly DEF IInv
  <2>2. p = path
    BY <1>1, <2>1 DEF Swap, IInv, TypeOK, Files
  <2>3. path \in todo /\ path \in Changed(owned, next) /\ pending
    BY <1>1 DEF IInv, PhaseInv, Mutating, Applying, RollingBack
  <2>4. raced \/ disk[path] = From
    BY <1>1 DEF IInv, CheckedInv, Unguarded
  <2> QED
    BY <2>2, <2>3, <2>4 DEF Changed, From
<1>2. IInv /\ [Next]_vars =>
        [\A p \in Paths :
           pc = "swap" /\ pc' # "swap" /\ disk'[p] # disk[p] =>
               /\ pending /\ owned[p] # next[p]
               /\ disk[p] \in {Absent, owned[p], next[p]} \/ raced]_vars
  BY <1>1
<1> QED
  BY <1>2, Invariance, PTL DEF UnknownContentKept, Spec

(***************************************************************************)
(* Deployment implements AtomicDeployment, as long as other programs leave *)
(* the files of the setups alone.                                          *)
(***************************************************************************)
Managed == Atomic!Managed
Asked == Payloads \cup {Nothing}

\* Records and plans name managed paths only; nobody else edits these.
ManagedInv ==
  /\ want \in Asked
  /\ \A p \in Paths \ Managed : owned[p] = Absent /\ next[p] = Absent
  /\ touched \cap Managed = {}

\* What a journal works towards is a whole setup: each file of it is either written to a
\* path that was free, or borrowed from the player.
Realises(w) ==
  \A p \in Paths :
    \/ w[p] = Absent /\ next[p] = Absent
    \/ w[p] # Absent /\ next[p] = w[p] /\ user[p] = Absent
    \/ w[p] # Absent /\ next[p] = Absent /\ user[p] = w[p]

TargetInv == pending \/ pc = "journal" => \E w \in Asked : Realises(w)

SwitchInv == ManagedInv /\ TargetInv

-----------------------------------------------------------------------------
\* What nothing or a setup asks for lies on managed paths.
LEMMA AskedIsManaged == \A w \in Asked, p \in Paths \ Managed : w[p] = Absent
  BY DEF Asked, Managed, Atomic!Managed, Nothing

\* Nothing is under way at first.
LEMMA SwitchInit == Init => SwitchInv
  BY DEF Init, SwitchInv, ManagedInv, TargetInv, Asked, Nothing

\* Whatever keeps owned, or forgets part of it, keeps to managed paths.
LEMMA ManagedStep ==
  ASSUME Editable \cap Managed = {}
  PROVE  TypeOK /\ ManagedInv /\ [Next]_vars => ManagedInv'
<1> SUFFICES ASSUME TypeOK, ManagedInv, [Next]_vars PROVE ManagedInv'
  OBVIOUS
<1> USE DEF ManagedInv, record, volatile, outside
<1>0. Nothing \in Asked /\ \A p \in Paths : Nothing[p] = Absent
  BY DEF Asked, Nothing
<1>1. ASSUME NEW o, NEW w \in Asked, Start(o, w) PROVE ManagedInv'
  BY <1>1 DEF Start, EnterRollback
<1>2. ASSUME NEW p \in Paths, RollbackSkip(p) \/ RollbackOpen(p) \/ ApplyOpen(p) PROVE ManagedInv'
  BY <1>2 DEF RollbackSkip, RollbackOpen, ApplyOpen
<1>3. CASE Fail /\ UNCHANGED outside
  BY <1>0, <1>3 DEF Fail, Return, DropPlan
<1>4. CASE Abort /\ UNCHANGED outside
  BY <1>3, <1>4 DEF Abort, EnterRollback
<1>5. CASE RollbackVerify
  BY <1>3, <1>5 DEF RollbackVerify
<1>6. CASE RollbackCommit
  BY <1>0, <1>6 DEF RollbackCommit, Return
<1>7. CASE Stage \/ Recheck \/ Swap
  BY <1>7 DEF Stage, Recheck, Swap
<1>8. CASE Plan
  BY <1>0, <1>3, <1>8, AskedIsManaged DEF Plan
<1>9. CASE Journal
  BY <1>9 DEF Journal
<1>10. CASE Verify
  BY <1>4, <1>10 DEF Verify
<1>11. CASE Commit
  BY <1>0, <1>11 DEF Commit, Return
<1>12. CASE Scan
  BY <1>3, <1>12 DEF Scan
<1>13. CASE Missing
  BY <1>3, <1>13 DEF Missing
<1>14. CASE Forget
  BY <1>0, <1>14 DEF Forget, Return
<1>15. CASE Crash
  BY <1>0, <1>15 DEF Crash, Return, DropPlan
<1>16. CASE Close \/ GameStarts \/ GameStops \/ UNCHANGED vars
  BY <1>16 DEF Close, GameStarts, GameStops, vars
<1>17. ASSUME NEW p \in Editable, NEW c \in EditTo, Edit(p, c) PROVE ManagedInv'
  BY <1>17 DEF Edit
<1>18. ASSUME NEW p \in Paths, RollbackUnknown(p) PROVE ManagedInv'
  BY <1>3, <1>18 DEF RollbackUnknown
<1>19. CASE ReplaceRefused
  BY <1>4, <1>19 DEF ReplaceRefused
<1>20. CASE Fault
  BY <1>3, <1>4, <1>20 DEF Fault
<1>21. ASSUME Request PROVE ManagedInv'
  BY <1>0, <1>1, <1>21 DEF Request, Install, Recover, Remove, RepairMissing, Asked
<1> QED
  BY <1>2, <1>5, <1>6, <1>7, <1>8, <1>9, <1>10, <1>11, <1>12, <1>13, <1>14, <1>15, <1>16,
     <1>17, <1>18, <1>19, <1>20, <1>21 DEF Next, Step, Environment, OutsideEdit

\* A plan realises the setup it was made for: this is what the search for conflicts and
\* the borrowing of equal files are for.
LEMMA PlanRealises ==
  ASSUME IInv, ManagedInv, Plan, pc' = "journal"
  PROVE  \E w \in Asked : Realises(w)'
<1>1. /\ Intact(owned) /\ ~\E p \in Paths : Conflict(p)
      /\ next' = [p \in Paths |-> IF Borrows(p) THEN Absent ELSE want[p]]
      /\ user' = user /\ ~pending /\ want \in Asked
  BY DEF Plan, Fail, Return, outside, IInv, PhaseInv, ManagedInv
<1>2. ASSUME NEW p \in Paths, want[p] # Absent
      PROVE  \/ next'[p] = want[p] /\ user[p] = Absent
             \/ next'[p] = Absent /\ user[p] = want[p]
  <2>1. p \notin touched
    BY <1>1, <1>2, AskedIsManaged DEF ManagedInv
  <2>2. disk[p] = Base(owned, p)
    BY <1>1, <2>1 DEF IInv, FolderIsAccounted
  <2>3. CASE owned[p] # Absent
    BY <1>1, <2>1, <2>3 DEF Borrows, IInv, ClaimInv
  <2>4. CASE owned[p] = Absent /\ Borrows(p)
    BY <1>1, <2>2, <2>4 DEF Borrows, Base
  <2>5. CASE owned[p] = Absent /\ ~Borrows(p)
    BY <1>1, <1>2, <2>2, <2>5 DEF Borrows, Conflict, Base
  <2> QED
    BY <2>3, <2>4, <2>5
<1>3. \A p \in Paths : want[p] = Absent => next'[p] = Absent
  BY <1>1
<1>4. Realises(want)'  <=>
        \A p \in Paths :
          \/ want'[p] = Absent /\ next'[p] = Absent
          \/ want'[p] # Absent /\ next'[p] = want'[p] /\ user'[p] = Absent
          \/ want'[p] # Absent /\ next'[p] = Absent /\ user'[p] = want'[p]
  BY DEF Realises
<1> QED
  BY <1>1, <1>2, <1>3 DEF Realises

\* Steps that leave folder and record as they are.
Quiet ==
  /\ UNCHANGED <<disk, owned, pending, user>>
  /\ pending => next' = next
  /\ pc' = "journal" => pc = "journal" /\ next' = next

\* All steps but eight are quiet.
LEMMA QuietSteps ==
  ASSUME IInv, [Next]_vars,
         ~(Plan \/ Missing \/ Journal \/ Swap \/ RollbackCommit \/ Commit \/ Forget \/ OutsideEdit)
  PROVE  Quiet
<1> USE DEF Quiet, record, volatile, outside
<1>1. ASSUME NEW o \in {"apply", "recover", "remove", "repair"}, NEW w, Start(o, w) PROVE Quiet
  BY <1>1 DEF Start, EnterRollback, Continuation
<1>2. ASSUME NEW p \in Paths, RollbackSkip(p) \/ RollbackOpen(p) \/ ApplyOpen(p) PROVE Quiet
  BY <1>2 DEF RollbackSkip, RollbackOpen, ApplyOpen
<1>3. CASE Fail /\ UNCHANGED outside
  BY <1>3 DEF Fail, Return, DropPlan
<1>4. CASE Abort /\ UNCHANGED outside
  BY <1>3, <1>4 DEF Abort, EnterRollback
<1>5. CASE RollbackVerify \/ Verify \/ Scan \/ Fault
  BY <1>3, <1>4, <1>5 DEF RollbackVerify, Verify, Scan, Fault
<1>6. CASE Stage \/ Recheck \/ ReplaceRefused
  BY <1>4, <1>6 DEF Stage, Recheck, ReplaceRefused
<1>7. CASE Crash
  BY <1>7 DEF Crash, Return, DropPlan
<1>8. CASE Close \/ GameStarts \/ GameStops \/ UNCHANGED vars
  BY <1>8 DEF Close, GameStarts, GameStops, vars
<1>9. ASSUME NEW p \in Paths, RollbackUnknown(p) PROVE Quiet
  BY <1>3, <1>9 DEF RollbackUnknown
<1> QED
  BY <1>1, <1>2, <1>5, <1>6, <1>7, <1>8, <1>9
     DEF Next, Step, Request, Environment, Install, Recover, Remove, RepairMissing

\* The target of a journal stays what it was planned to be.
LEMMA TargetStep ==
  IInv /\ ManagedInv /\ TargetInv /\ [Next]_vars => TargetInv'
<1> SUFFICES ASSUME IInv, ManagedInv, TargetInv, [Next]_vars,
                    pending' \/ pc' = "journal"
             PROVE  \E w \in Asked : Realises(w)'
  BY DEF TargetInv
<1>1. CASE Plan
  <2>1. CASE pc' = "journal"
    BY <1>1, <2>1, PlanRealises
  <2>2. CASE pc' # "journal"
    BY <1>1, <2>2 DEF Plan, Fail, IInv, PhaseInv
  <2> QED
    BY <2>1, <2>2
<1>2. CASE ~Plan
  <2>1. (pending \/ pc = "journal") /\ UNCHANGED <<next, user>>
    <3>1. CASE Quiet
      BY <3>1 DEF Quiet
    <3>2. CASE Missing
      BY <3>2 DEF Missing, Fail, Return, DropPlan, IInv, PhaseInv
    <3>3. CASE Journal \/ Swap \/ OutsideEdit
      BY <3>3 DEF Journal, Swap, OutsideEdit, Edit, record, outside, volatile, IInv, PhaseInv,
                  Mutating, Applying, RollingBack
    <3>4. CASE RollbackCommit \/ Commit \/ Forget
      BY <3>4, ContinuationPlaces
      DEF RollbackCommit, Commit, Forget, Return, IInv, PhaseInv, TypeOK, Operations
    <3> QED
      BY <1>2, <3>1, <3>2, <3>3, <3>4, QuietSteps
  <2> QED
    BY <2>1 DEF TargetInv, Realises
<1> QED
  BY <1>1, <1>2

-----------------------------------------------------------------------------
\* A step that only runs on is not seen.
LEMMA QuietMaps == Quiet => Folder' = Folder
  BY DEF Quiet, Folder, Base

\* The journal is saved while every path it names holds the recorded side; what a swap
\* changes is counted as not begun.
LEMMA BeginMaps ==
  ASSUME IInv, ManagedInv, Journal \/ Swap
  PROVE  Folder' = Folder /\ user' = user
<1>1. CASE Journal
  <2>1. ASSUME NEW p \in Paths, owned[p] # next[p] PROVE disk[p] = Base(owned, p)
    BY <1>1, <2>1 DEF Journal, ManagedInv, IInv, PhaseInv, FolderIsAccounted
  <2>2. UNCHANGED <<disk, owned, next, user>> /\ ~pending /\ pending'
    BY <1>1 DEF Journal, outside, IInv, PhaseInv
  <2>3. \A p \in Paths : Base(owned, p)' = Base(owned, p)
    BY <2>2 DEF Base
  <2> QED
    BY <2>1, <2>2, <2>3 DEF Folder
<1>2. CASE Swap
  <2>1. pending /\ owned[path] # next[path]
    BY <1>2 DEF Swap, IInv, PhaseInv, Applying, RollingBack, Mutating, Changed
  <2>2. UNCHANGED <<owned, next, pending, user>> /\ disk' = [disk EXCEPT ![path] = To]
    BY <1>2 DEF Swap, record, outside
  <2>3. \A p \in Paths : p # path => disk'[p] = disk[p]
    BY <2>2 DEF IInv, TypeOK, Files
  <2> QED
    BY <2>1, <2>2, <2>3 DEF Folder, Base
<1> QED
  BY <1>1, <1>2

\* A finished rollback has put every path back.
LEMMA RollbackMaps ==
  ASSUME IInv, ManagedInv, RollbackCommit \/ Forget \/ Plan \/ Missing
  PROVE  Folder' = Folder /\ user' = user
<1>1. CASE RollbackCommit
  <2>1. ASSUME NEW p \in Paths, owned[p] # next[p] PROVE disk[p] = Base(owned, p)
    BY <1>1, <2>1 DEF RollbackCommit, ManagedInv, IInv, PhaseInv, ProgressInv, RollingBack
  <2>2. UNCHANGED <<disk, user>> /\ ~pending'
    BY <1>1 DEF RollbackCommit, outside
  <2> QED
    BY <2>1, <2>2 DEF Folder
<1>2. CASE Forget \/ Plan \/ Missing
  <2>1. ~pending /\ ~pending' /\ UNCHANGED <<disk, user>>
    BY <1>2 DEF Forget, Plan, Missing, Fail, outside, IInv, PhaseInv
  <2> QED
    BY <2>1 DEF Folder
<1> QED
  BY <1>1, <1>2

\* A commit is the switch to the whole setup.
LEMMA CommitMaps ==
  ASSUME IInv, ManagedInv, TargetInv, Commit
  PROVE  Atomic!Next
<1>1. PICK w \in Asked : Realises(w)
  BY DEF Commit, IInv, PhaseInv, Applying, TargetInv
<1>2. Atomic!Compatible(w)
  BY <1>1 DEF Realises, Atomic!Compatible
<1>3. UNCHANGED <<disk, user>> /\ ~pending' /\ pending /\ pc = "verified" /\ todo = {}
  BY DEF Commit, Return, outside, IInv, PhaseInv, Applying
<1>4. ASSUME NEW p \in Managed PROVE disk[p] = IF w[p] # Absent THEN w[p] ELSE user[p]
  <2>1. p \in Paths \ (touched \cup todo)
    BY <1>3, <1>4 DEF ManagedInv, Managed, Atomic!Managed
  <2>2. disk[p] = Base(next, p)
    BY <1>3, <2>1 DEF IInv, ProgressInv, Applying
  <2> QED
    BY <1>1, <2>1, <2>2 DEF Realises, Base
<1>5. ASSUME NEW p \in Paths \ Managed PROVE w[p] = Absent /\ disk[p] = Folder[p]
  BY <1>5, AskedIsManaged DEF ManagedInv, Folder
<1>6. Folder' = [p \in Paths |-> disk[p]]
  BY <1>3 DEF Folder
<1>7. Folder' = [p \in Paths |-> IF w[p] # Absent THEN w[p]
                                 ELSE IF p \in Managed THEN user[p] ELSE Folder[p]]
  BY <1>4, <1>5, <1>6
<1>8. Atomic!Switch(w)
  BY <1>2, <1>3, <1>7 DEF Atomic!Switch, Managed
<1> QED
  BY <1>8 DEF Atomic!Next, Asked, Nothing, Atomic!None

\* An edit elsewhere in the folder is one of the other program's own steps.
LEMMA EditMaps ==
  ASSUME Editable \cap Managed = {}, IInv, ManagedInv,
         NEW p \in Editable, NEW c \in EditTo, Edit(p, c)
  PROVE  Atomic!Next
<1>1. p \in Paths \ Managed /\ owned[p] = next[p]
  BY DEF ManagedInv
<1>2. disk' = [disk EXCEPT ![p] = c] /\ UNCHANGED <<owned, next, pending, user>>
  BY DEF Edit, record
<1>3. disk'[p] = c /\ \A q \in Paths : q # p => disk'[q] = disk[q]
  BY <1>1, <1>2 DEF IInv, TypeOK, Files
<1>4. Folder' = [Folder EXCEPT ![p] = c]
  BY <1>1, <1>2, <1>3 DEF Folder, Base
<1> QED
  BY <1>1, <1>2, <1>4 DEF Atomic!Next, Atomic!Edit, Managed

\* The journal implements the switch in one step: every step of Deployment is a step of
\* AtomicDeployment or none (deployment.rs:365).
THEOREM JournalIsAtomic ==
  ASSUME Editable \cap Managed = {}
  PROVE  Spec => SwitchIsAtomic
<1>1. Init => Atomic!Init
  BY DEF Init, Atomic!Init, Folder, Files
<1>2. IInv /\ SwitchInv /\ [Next]_vars => SwitchInv'
  BY ManagedStep, TargetStep DEF SwitchInv, IInv
<1>3. IInv /\ SwitchInv /\ [Next]_vars => [Atomic!Next]_(Atomic!vars)
  <2> SUFFICES ASSUME IInv, SwitchInv, [Next]_vars PROVE [Atomic!Next]_<<Folder, user>>
    BY DEF Atomic!vars
  <2>1. CASE Quiet
    BY <2>1, QuietMaps DEF Quiet
  <2>2. CASE Journal \/ Swap
    BY <2>2, BeginMaps DEF SwitchInv
  <2>3. CASE RollbackCommit \/ Forget \/ Plan \/ Missing
    BY <2>3, RollbackMaps DEF SwitchInv
  <2>4. CASE Commit
    BY <2>4, CommitMaps DEF SwitchInv
  <2>5. CASE OutsideEdit
    BY <2>5, EditMaps DEF SwitchInv, OutsideEdit
  <2> QED
    BY <2>1, <2>2, <2>3, <2>4, <2>5, QuietSteps
<1> QED
  BY <1>1, <1>2, <1>3, SwitchInit, Invariance, PTL DEF Spec, SwitchIsAtomic, Atomic!Spec
=============================================================================
