------------------------------ MODULE MCLibrary -----------------------------
(***************************************************************************)
(* Library for TLC: two builds of one mod from one source, one collection   *)
(* and one import or verification at a time.                               *)
(***************************************************************************)
EXTENDS Library, TLC

CONSTANTS m, a1, a2, s, r, c

MCBuilds == {a1, a2}
MCMods == {m}
MCModOf == [b \in MCBuilds |-> m]
MCSources == {s}
MCSlots == {r}
MCCollections == {c}

\* The builds differ in nothing but their hash.
Symmetry == Permutations(MCBuilds)
=============================================================================
