----------------------------- MODULE Activation -----------------------------
(***************************************************************************)
(* The game-side half of an ordered setup: ActivationSession.cs verifies   *)
(* the files of every mod of the document, prepares the entry types,       *)
(* activates the mods one after the other, reports each outcome, and when  *)
(* the game ends shuts the loaded mods down.  The document is the one      *)
(* LoadOrder writes.  What fails is chosen: files changed on disk, an      *)
(* entry that cannot be prepared, a mod that throws.                       *)
(***************************************************************************)
EXTENDS LoadOrder

CONSTANTS
  Overlays,    \* builds without an entry assembly: Lua files only
  Stoppable,   \* builds whose entry implements IModShutdown
  MaxFaults    \* how many mods may fail by themselves

VARIABLES
  session,       \* "none", "verified", "prepared", "running", "ended"
  errors,        \* mods whose files or assemblies were refused
  entryErrors,   \* mods whose entry type could not be prepared
  outcomes,      \* the report: [build, outcome], in the order of the document
  shutdown,      \* loaded mods to shut down, in the order they were loaded
  calls          \* every Shutdown called so far

activated == <<session, errors, entryErrors, outcomes, shutdown, calls>>
vars == <<traversal, resolver, activated>>

Outcomes == {"loaded", "failed", "skipped_dependency"}
Mods == {document[k].build : k \in DOMAIN document}
Successful == {outcomes[k].build : k \in {m \in DOMAIN outcomes : outcomes[m].outcome = "loaded"}}
Faults == Cardinality(errors \cup entryErrors \cup
            {outcomes[k].build : k \in {m \in DOMAIN outcomes : outcomes[m].outcome = "failed"}})

-----------------------------------------------------------------------------
\* The first pass over the document reads and checks every file.
VerifyFiles ==
  /\ stage = "document"
  /\ session = "none"
  /\ \E bad \in SUBSET Mods : Cardinality(bad) <= MaxFaults /\ errors' = bad
  /\ session' = "verified"
  /\ UNCHANGED <<entryErrors, outcomes, shutdown, calls>>

\* The second loads the entry assemblies, before any mod is activated.
PrepareEntries ==
  /\ session = "verified"
  /\ \E bad \in SUBSET (Mods \ (errors \cup Overlays)) :
       Cardinality(bad \cup errors) <= MaxFaults /\ entryErrors' = bad
  /\ session' = "prepared"
  /\ UNCHANGED <<errors, outcomes, shutdown, calls>>

Current == document[Len(outcomes) + 1]
Report(o) == outcomes' = Append(outcomes, [build |-> Current.build, outcome |-> o])
MoreMods == session = "prepared" /\ Len(outcomes) < Len(document)

\* Mutant of Blocked: a mod is skipped only when none of what it requires was loaded.
BlockedByAll == Current.requires # {} /\ Current.requires \cap Successful = {}

Blocked == ~(Current.requires \subseteq Successful)

SkipDependent ==
  /\ MoreMods
  /\ Blocked
  /\ Report("skipped_dependency")
  /\ UNCHANGED <<session, errors, entryErrors, shutdown, calls>>

RefuseInvalid ==
  /\ MoreMods
  /\ ~Blocked
  /\ Current.build \in errors \cup entryErrors
  /\ Report("failed")
  /\ UNCHANGED <<session, errors, entryErrors, shutdown, calls>>

Activate ==
  /\ MoreMods
  /\ ~Blocked
  /\ Current.build \notin errors \cup entryErrors
  /\ Report("loaded")
  /\ shutdown' = IF Current.build \in Stoppable \ Overlays THEN Append(shutdown, Current.build)
                 ELSE shutdown
  /\ UNCHANGED <<session, errors, entryErrors, calls>>

\* Initialize or applyLua throws: what was begun is shut down at once.
ActivationThrows ==
  /\ MoreMods
  /\ ~Blocked
  /\ Current.build \notin errors \cup entryErrors
  /\ Faults < MaxFaults
  /\ Report("failed")
  /\ calls' = IF Current.build \in Stoppable \ Overlays THEN Append(calls, Current.build) ELSE calls
  /\ UNCHANGED <<session, errors, entryErrors, shutdown>>

WriteReport ==
  /\ session = "prepared"
  /\ Len(outcomes) = Len(document)
  /\ session' = "running"
  /\ UNCHANGED <<errors, entryErrors, outcomes, shutdown, calls>>

\* Mutant of DisposeNext: in the order of activation.
DisposeFirst ==
  /\ session = "running"
  /\ shutdown # << >>
  /\ calls' = Append(calls, Head(shutdown))
  /\ shutdown' = Tail(shutdown)
  /\ UNCHANGED <<session, errors, entryErrors, outcomes>>

DisposeNext ==
  /\ session = "running"
  /\ shutdown # << >>
  /\ calls' = Append(calls, shutdown[Len(shutdown)])
  /\ shutdown' = SubSeq(shutdown, 1, Len(shutdown) - 1)
  /\ UNCHANGED <<session, errors, entryErrors, outcomes>>

Disposed ==
  /\ session = "running"
  /\ shutdown = << >>
  /\ session' = "ended"
  /\ UNCHANGED <<errors, entryErrors, outcomes, shutdown, calls>>

RunSession ==
  \/ VerifyFiles \/ PrepareEntries \/ SkipDependent \/ RefuseInvalid \/ Activate
  \/ ActivationThrows \/ WriteReport \/ DisposeNext \/ Disposed

Init ==
  /\ ResolverInit
  /\ session = "none"
  /\ errors = {}
  /\ entryErrors = {}
  /\ outcomes = << >>
  /\ shutdown = << >>
  /\ calls = << >>

Next ==
  \/ Resolve /\ UNCHANGED activated
  \/ RunSession /\ UNCHANGED <<resolver, traversal>>

Spec == Init /\ [][Next]_vars

-----------------------------------------------------------------------------
TypeOK ==
  /\ TraversalTypeOK
  /\ stage \in {"selection", "resolving", "ordered", "refused", "clash", "document"}
  /\ part \in {"mixed", "registry", "local"}
  /\ entries \in Seq(Builds)
  /\ linked \in BOOLEAN
  /\ \A p \in DOMAIN result : result[p] # None => result[p] \in Seq(Builds)
  /\ notes.required \cup notes.preferred \subseteq (1..MaxEntries) \X (1..MaxEntries)
  /\ Mods \subseteq Builds \ Content
  /\ session \in {"none", "verified", "prepared", "running", "ended"}
  /\ errors \subseteq Mods /\ entryErrors \subseteq Mods \ Overlays
  /\ outcomes \in Seq([build : Mods, outcome : Outcomes])
  /\ shutdown \in Seq(Mods) /\ calls \in Seq(Mods)

\* A loaded mod had everything it declares to need loaded before it: the local builds it
\* names and the selected release of every dependency that is activated at all
\* (ActivationSession.cs:126, "mark that mod and its required dependents as failed/skipped",
\* ARCHITECTURE.md:373).
LoadedHasRequirements ==
  \A k \in DOMAIN outcomes : outcomes[k].outcome = "loaded" =>
    LET earlier == {outcomes[j].build : j \in {m \in 1..(k - 1) : outcomes[m].outcome = "loaded"}}
        b == outcomes[k].build
    IN /\ Declared("requires", b) \subseteq earlier
       /\ \A n \in Needs(b) :
            \E c \in Elements(given.requested) \cap Releases : Fits(n, c) /\ c \in earlier \cup Content

\* Shutdown is called once for a mod at most, and for a loaded mod only after every loaded
\* mod that requires it has been shut down (ActivationSession.cs:254-260).
DependentsStopFirst ==
  /\ \A i, j \in DOMAIN calls : calls[i] = calls[j] => i = j
  /\ \A k, m \in DOMAIN document :
       LET needed == document[k].build
           dependent == document[m].build
       IN needed \in document[m].requires /\ {needed, dependent} \subseteq Successful \cap Stoppable
          => (needed \in Elements(calls) => dependent \in Elements(calls) \cup Overlays)

\* Between its start and its end a mod has what it requires.
RequirementsHold == LoadedHasRequirements /\ DependentsStopFirst
=============================================================================
