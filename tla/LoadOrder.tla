----------------------------- MODULE LoadOrder ------------------------------
(***************************************************************************)
(* From a requested sequence of mods to the order the game activates: the  *)
(* three resolvers of ordering.rs, which selection::requested runs one     *)
(* after the other (all entries, then the registry releases and the local  *)
(* builds of that result), and the activation document made of it.         *)
(*                                                                         *)
(* given is what one behaviour starts from: the installed builds with      *)
(* their declarations and the sequence of the active collection.           *)
(***************************************************************************)
EXTENDS Traversal, Dependencies

CONSTANTS
  Locals,       \* local builds
  Content,      \* releases of maps and AIs, which the runtime does not activate
  MaxEntries,   \* MAX_MODS
  Cases,        \* what a behaviour may start from
  Precedence    \* for the properties: version labels in the order SemVer gives them

Builds == Releases \cup Locals
Kinds == {"requires", "before", "after", "prefer_before", "prefer_after"}

ASSUME LoadOrderAssumption ==
  /\ Releases \cap Locals = {} /\ Content \subseteq Releases /\ MaxEntries \in Nat
  /\ \A c \in Cases :
       c.requested \in Seq(Builds) /\ \A n \in c.needs : n.of \in Releases

VARIABLES
  given,     \* [installed, label, needs, rules, requested]
  stage,     \* "selection", "resolving", "ordered", "refused", "clash", "document"
  part,      \* the resolver at work: "mixed", "registry", "local"
  entries,   \* the sequence it was given
  linked,    \* whether the edges between local builds are in the graph
  result,    \* the effective sequence of each part, or None
  notes,     \* the adjustments shown for the whole selection: required and preferred
  document   \* the active mods of activation.json with what each requires

resolver == <<given, stage, part, entries, linked, result, notes, document>>

Needs(b) == {n \in given.needs : n.of = b}
Declared(kind, b) == {r.target : r \in {q \in given.rules : q.kind = kind /\ q.of = b}}

\* The members of S in the order of s: the n-th is at the place with n kept places up to it.
Only(s, S) ==
  LET kept == {k \in DOMAIN s : s[k] \in S}
      rank(k) == Cardinality({j \in kept : j <= k})
  IN [n \in 1..Cardinality(kept) |-> s[CHOOSE k \in kept : rank(k) = n]]

\* Installation and import refuse other declarations.
ValidCase(c) ==
  /\ \A r \in Releases : ValidDependencies(r, {n \in c.needs : n.of = r})
  /\ \A r \in c.rules : r.kind \in Kinds /\ r.of \in Locals
       /\ IF r.kind = "requires" THEN r.target \in Locals /\ ModOf[r.target] # ModOf[r.of]
          ELSE r.target # ModOf[r.of]

-----------------------------------------------------------------------------
\* The entries are few enough, of distinct mods, and installed.
Selectable(s) ==
  /\ Len(s) <= MaxEntries
  /\ \A i, j \in DOMAIN s : ModOf[s[i]] = ModOf[s[j]] => i = j
  /\ Elements(s) \subseteq given.installed

\* Each dependency of a release is met by the one selected release of that mod.
NeedsMet(s) ==
  \A b \in Elements(s) \cap Releases : \A n \in Needs(b) :
    \E c \in Elements(s) \cap Releases : Matches(n, c, given.label[c])

RequirementsMet(s) ==
  \A b \in Elements(s) \cap Locals : Declared("requires", b) \subseteq Elements(s)

DeclarationsMet == IF part = "local" THEN RequirementsMet(entries) ELSE NeedsMet(entries)

RegistryEdges == {e \in Releases \X Releases : ModOf[e[1]] \in {n.mod : n \in Needs(e[2])}}

LocalEdges ==
  {e \in Locals \X Locals :
     \/ e[1] \in Declared("requires", e[2])
     \/ ModOf[e[2]] \in Declared("before", e[1])
     \/ ModOf[e[1]] \in Declared("after", e[2])}

GraphOf(s, linking) ==
  [i \in DOMAIN s |-> {j \in DOMAIN s : <<s[i], s[j]>> \in linking}]

-----------------------------------------------------------------------------
Refuse ==
  /\ stage' = "refused"
  /\ UNCHANGED <<given, part, entries, linked, result, notes, document, traversal>>

RefuseSelection ==
  /\ stage = "selection"
  /\ ~(Selectable(entries) /\ DeclarationsMet)
  /\ Refuse

\* selection_edges, the first half of resolve_mixed as well.
LinkReleases ==
  /\ stage = "selection"
  /\ part # "local"
  /\ Selectable(entries)
  /\ DeclarationsMet
  /\ Start(GraphOf(entries, RegistryEdges))
  /\ stage' = "resolving"
  /\ linked' = (part = "registry")
  /\ UNCHANGED <<given, part, entries, result, notes, document>>

\* resolve_locals.
LinkLocals ==
  /\ stage = "selection"
  /\ part = "local"
  /\ Selectable(entries)
  /\ DeclarationsMet
  /\ Start(GraphOf(entries, LocalEdges))
  /\ stage' = "resolving"
  /\ linked' = TRUE
  /\ UNCHANGED <<given, part, entries, result, notes, document>>

\* Mutant of LinkBoth: exact local requirements are left to the resolver of local builds.
LinkUnrequired ==
  /\ stage = "resolving"
  /\ phase = "acyclic"
  /\ ~linked
  /\ Start(GraphOf(entries, RegistryEdges \cup LocalEdges))
  /\ linked' = TRUE
  /\ UNCHANGED <<given, stage, part, entries, result, notes, document>>

\* resolve_mixed adds the local edges once the releases have no cycle.
LinkBoth ==
  /\ stage = "resolving"
  /\ phase = "acyclic"
  /\ ~linked
  /\ RequirementsMet(entries)
  /\ Start(GraphOf(entries, RegistryEdges \cup LocalEdges))
  /\ linked' = TRUE
  /\ UNCHANGED <<given, stage, part, entries, result, notes, document>>

RefuseRequirement ==
  /\ stage = "resolving"
  /\ phase = "acyclic"
  /\ ~linked
  /\ ~RequirementsMet(entries)
  /\ Refuse

RefuseCycle ==
  /\ stage = "resolving"
  /\ phase = "cycle"
  /\ Refuse

Search ==
  /\ stage = "resolving"
  /\ linked \/ phase = "walk"
  /\ Traverse
  /\ UNCHANGED resolver

\* Mutant of Required: compares where the entries were placed.
RequiredAfter == {e \in Entries \X Entries : e[2] \in edges[e[1]] /\
                    \E k, m \in DOMAIN effective : k > m /\ effective[k] = e[1] /\ effective[m] = e[2]}

\* An edge the requested sequence goes against.
Required == {e \in Entries \X Entries : e[2] \in edges[e[1]] /\ e[1] > e[2]}

Preferred ==
  {e \in Entries \X Entries :
     /\ {entries[e[1]], entries[e[2]]} \subseteq Locals
     /\ \/ ModOf[entries[e[2]]] \in Declared("prefer_before", entries[e[1]])
        \/ ModOf[entries[e[1]]] \in Declared("prefer_after", entries[e[2]])
     /\ \E k, m \in DOMAIN effective : k > m /\ effective[k] = e[1] /\ effective[m] = e[2]}

Resolved ==
  /\ stage = "resolving"
  /\ phase = "sorted"
  /\ stage' = "ordered"
  /\ result' = [result EXCEPT ![part] = [k \in DOMAIN effective |-> entries[effective[k]]]]
  /\ notes' = IF part = "mixed" THEN [required |-> Required, preferred |-> Preferred] ELSE notes
  /\ UNCHANGED <<given, part, entries, linked, document, traversal>>

\* A local id of the library may not be the settings key of an installed release.
KeysClash ==
  \E b \in given.installed \cap Locals, r \in given.installed \cap Releases : ModOf[b] = ModOf[r]

NextPart ==
  /\ stage = "ordered"
  /\ part # "local"
  /\ IF part = "mixed" /\ KeysClash
     THEN stage' = "clash" /\ UNCHANGED <<part, entries>>
     ELSE /\ stage' = "selection"
          /\ part' = IF part = "mixed" THEN "registry" ELSE "local"
          /\ entries' = Only(result.mixed, IF part = "mixed" THEN Releases ELSE Locals)
  /\ linked' = FALSE
  /\ UNCHANGED <<given, result, notes, document, traversal>>

-----------------------------------------------------------------------------
Requires(b) ==
  IF b \in Locals THEN Declared("requires", b)
  ELSE {c \in Elements(result.registry) \ Content : ModOf[c] \in {n.mod : n \in Needs(b)}}

ActiveMods ==
  LET order == Only(result.mixed, Builds \ Content)
  IN [k \in DOMAIN order |-> [build |-> order[k], requires |-> Requires(order[k])]]

\* The contract both sides of the document check: what a mod requires comes before it.
InOrder(mods) ==
  \A k \in DOMAIN mods : mods[k].requires \subseteq {mods[j].build : j \in 1..(k - 1)}

WriteDocument ==
  /\ stage = "ordered"
  /\ part = "local"
  /\ stage' = IF InOrder(ActiveMods) THEN "document" ELSE "refused"
  /\ document' = IF InOrder(ActiveMods) THEN ActiveMods ELSE << >>
  /\ UNCHANGED <<given, part, entries, linked, result, notes, traversal>>

ResolverInit ==
  /\ TraversalInit
  /\ given \in {c \in Cases : ValidCase(c)}
  /\ stage = "selection"
  /\ part = "mixed"
  /\ entries = given.requested
  /\ linked = FALSE
  /\ result = [mixed |-> None, registry |-> None, local |-> None]
  /\ notes = [required |-> {}, preferred |-> {}]
  /\ document = << >>

Resolve ==
  \/ RefuseSelection \/ LinkReleases \/ LinkLocals \/ LinkBoth \/ RefuseRequirement
  \/ RefuseCycle \/ Search \/ Resolved \/ NextPart \/ WriteDocument

-----------------------------------------------------------------------------
\* Precedence is the order the comparison of versions gives the labels and bounds of the cases
\* (registry/dependencies.rs:59-85).
ASSUME PrecedenceAssumption ==
  /\ DOMAIN Precedence \subseteq Nat
  /\ \A i, j \in DOMAIN Precedence : Compare(Precedence[i], Precedence[j]) = Numbers(i, j)
  /\ \A c \in {d \in Cases : ValidCase(d)} :
       /\ \A b \in Releases : c.label[b] \in Elements(Precedence) \cup {NotAVersion}
       /\ \A n \in c.needs : {n.minimum, n.before} \subseteq Elements(Precedence) \cup {None}

Place(v) == CHOOSE k \in DOMAIN Precedence : Precedence[k] = v

\* What a dependency means, by the order of labels the specification of versions gives.
Fits(n, c) ==
  /\ n.mod = ModOf[c]
  /\ IF Exact(n) THEN n.release = c
     ELSE /\ given.label[c] # NotAVersion
          /\ given.label[c].pre # << >> => n.prerelease
          /\ n.minimum # None => Place(n.minimum) <= Place(given.label[c])
          /\ n.before # None => Place(given.label[c]) < Place(n.before)

\* A sequence in which every declaration of its members is kept.
Keeps(order) ==
  \A i \in DOMAIN order :
    /\ \A n \in Needs(order[i]) :
         \E k \in 1..(i - 1) : order[k] \in Releases /\ Fits(n, order[k])
    /\ \A b \in Declared("requires", order[i]) : \E k \in 1..(i - 1) : order[k] = b
    /\ \A k \in DOMAIN order : order[k] \in Locals =>
         /\ ModOf[order[k]] \in Declared("before", order[i]) => i < k
         /\ ModOf[order[k]] \in Declared("after", order[i]) => k < i

Arrangements == {p \in [DOMAIN entries -> DOMAIN entries] :
                    \A i, j \in DOMAIN entries : p[i] = p[j] => i = j}
Orders == {p \in Arrangements : Keeps([k \in DOMAIN p |-> entries[p[k]]])}

\* p and q agree up to a place where p has the entry the player put first.
Prefers(p, q) ==
  \/ p = q
  \/ \E k \in DOMAIN p : p[k] < q[k] /\ \A m \in 1..(k - 1) : p[m] = q[m]

\* Of all orders that keep every declaration the result is the one that follows the requested
\* sequence from its first place on ("Among valid next choices, prefer the user's order",
\* ARCHITECTURE.md:304; ordering.rs:148-171).
OrderIsPreferred ==
  stage = "ordered" =>
    effective \in Orders /\ \A q \in Orders : Prefers(effective, q)

\* A selection is refused only if one of its mods is missing or doubled or no order keeps
\* every declaration, versions compared as SemVer orders them (registry/dependencies.rs:59-85,
\* ordering/registry.rs:54-114, ordering/mixed.rs:68-107).
RefusalHasCause ==
  stage = "refused" /\ part = "mixed" => ~Selectable(entries) \/ Orders = {}

\* What the window showed as the order of a selection is what its parts are prepared with:
\* the releases and the local builds resolve on their own, to the same order, which is that of
\* the document (selection.rs:16-40, registry/activation.rs:21, mods/local.rs:60).
PartsResolve ==
  /\ stage = "refused" => part = "mixed"
  /\ stage = "ordered" =>
       result[part] = Only(result.mixed, CASE part = "mixed" -> Builds
                                           [] part = "registry" -> Releases
                                           [] part = "local" -> Locals)

\* The requested sequence is changed only where an adjustment is shown (ordering/mixed.rs:114-124).
AdjustmentsExplain ==
  stage = "ordered" /\ part = "mixed" =>
    (notes.required = {} <=> result.mixed = given.requested)

\* What the window is answered is right: the best order and its adjustments, or a refusal that
\* has a cause, and where it names a cycle (ordering.rs:183) the cycle is one.
SelectionIsResolved == OrderIsPreferred /\ AdjustmentsExplain /\ RefusalHasCause /\ CycleIsReal
=============================================================================
