---------------------------- MODULE MCDeployment ----------------------------
(***************************************************************************)
(* Small instances of Deployment: a loader DLL, an activation document and *)
(* a mod file; two setups that share the loader and differ in the rest.    *)
(***************************************************************************)
EXTENDS Deployment

CONSTANTS loader, activation, mod, a, b

\* A file map.
Setup(l, x, m) == [p \in Paths |-> CASE p = loader -> l [] p = activation -> x [] p = mod -> m]

\* Two setups: the second drops the mod file and rewrites the activation.
MCPayloads == {Setup(a, a, b), Setup(a, b, Absent)}

\* An empty folder, one that already holds the loader's bytes (borrowed), and one
\* that holds a foreign mod file (a conflict with the first setup only).
MCFolders == {Nothing, Setup(a, Absent, Absent), Setup(Absent, Absent, a)}
=============================================================================
