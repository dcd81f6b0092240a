---------------------------- MODULE Dependencies ----------------------------
(***************************************************************************)
(* Dependencies between registry releases (registry/dependencies.rs): the  *)
(* precedence of version labels, which constraints are valid, and which    *)
(* releases they match.  A label is a record of its three numbers and its  *)
(* prerelease identifiers, or NotAVersion; build metadata takes no part in *)
(* a comparison and is left out.  An identifier is a number or a word,     *)
(* words being given by their place in the byte order.                     *)
(***************************************************************************)
EXTENDS Integers, Sequences, FiniteSets

CONSTANTS
  Releases,     \* registry releases
  ModOf,        \* the runtime id of a release or local build
  None,         \* no bound
  NotAVersion   \* a label that is no semantic version

Numbers(a, b) == IF a < b THEN -1 ELSE IF a > b THEN 1 ELSE 0

Identifiers(a, b) ==
  IF a.number = b.number THEN Numbers(a.rank, b.rank)
  ELSE IF a.number THEN -1 ELSE 1

\* Of what each place compares to, the first difference decides; without one the rest does.
Sequentially(compared, rest) ==
  LET different == {i \in DOMAIN compared : compared[i] # 0}
  IN IF different = {} THEN rest
     ELSE compared[CHOOSE i \in different : \A j \in different : i <= j]

Compare(v, w) ==
  LET core == Sequentially([i \in 1..3 |-> Numbers(v.core[i], w.core[i])], 0)
      released(x) == IF x.pre = << >> THEN 1 ELSE 0
  IN CASE core # 0 -> core
       [] core = 0 /\ << >> \in {v.pre, w.pre} -> Numbers(released(v), released(w))
       [] OTHER -> Sequentially([i \in DOMAIN v.pre \cap DOMAIN w.pre |->
                                   Identifiers(v.pre[i], w.pre[i])],
                                Numbers(Len(v.pre), Len(w.pre)))

Exact(n) == n.release # None

\* A constraint is an exact release or an interval with at least one bound.
ValidConstraint(n) ==
  \/ Exact(n)
  \/ /\ {n.minimum, n.before} # {None}
     /\ NotAVersion \notin {n.minimum, n.before}
     /\ None \notin {n.minimum, n.before} => Compare(n.minimum, n.before) = -1

\* valid_dependencies, asked when a release is installed and when it is ordered.
ValidDependencies(r, needs) ==
  /\ \A n \in needs : n.mod # ModOf[r] /\ ValidConstraint(n)
  /\ \A n, o \in needs : n.mod = o.mod => n = o

\* Mutant of Matches: the upper bound of an interval is part of it.
MatchesUpTo(n, r, label) ==
  /\ n.mod = ModOf[r]
  /\ IF Exact(n) THEN n.release = r
     ELSE /\ label # NotAVersion
          /\ label.pre # << >> => n.prerelease
          /\ n.minimum # None => Compare(label, n.minimum) # -1
          /\ n.before # None => Compare(label, n.before) # 1

Matches(n, r, label) ==
  /\ n.mod = ModOf[r]
  /\ IF Exact(n) THEN n.release = r
     ELSE /\ label # NotAVersion
          /\ label.pre # << >> => n.prerelease
          /\ n.minimum # None => Compare(label, n.minimum) # -1
          /\ n.before # None => Compare(label, n.before) = -1
=============================================================================
