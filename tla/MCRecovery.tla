----------------------------- MODULE MCRecovery -----------------------------
(***************************************************************************)
(* Two setups that share the loader; the second drops the mod file and     *)
(* rewrites the activation document.  notes is a path no setup mentions.   *)
(***************************************************************************)
EXTENDS DeploymentRecovery

CONSTANTS loader, activation, mod, notes, a, b

Setup(l, x, m) ==
    [p \in Paths |-> CASE p = loader -> l [] p = activation -> x [] p = mod -> m
                       [] OTHER -> Absent]

MCPayloads == {Setup(a, a, b), Setup(a, b, Absent)}
MCFolders == {Nothing, Setup(a, Absent, Absent), Setup(Absent, Absent, a)}
=============================================================================
