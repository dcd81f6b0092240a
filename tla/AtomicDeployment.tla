-------------------------- MODULE AtomicDeployment --------------------------
(***************************************************************************)
(* What the deployment promises the player: seen from outside, the game    *)
(* folder goes from one complete setup to another in a single step, or not *)
(* at all.  Files no setup mentions belong to other programs, and a setup  *)
(* that would replace one of the player's own files is never applied.      *)
(***************************************************************************)
CONSTANTS Paths, Content, Absent, Payloads, Folders, Editable, EditTo

VARIABLES
    files,     \* what the folder holds, an unfinished switch counted as not begun
    original   \* what it held before Starframe was used

vars == <<files, original>>

None == [p \in Paths |-> Absent]
Managed == {p \in Paths : \E w \in Payloads : w[p] # Absent}

Init == original \in Folders /\ files = original

Compatible(w) == \A p \in Paths : w[p] # Absent => original[p] \in {Absent, w[p]}

Switch(w) ==
    /\ Compatible(w)
    /\ files' = [p \in Paths |-> IF w[p] # Absent THEN w[p]
                                 ELSE IF p \in Managed THEN original[p] ELSE files[p]]
    /\ UNCHANGED original

Edit(p, c) ==
    /\ files' = [files EXCEPT ![p] = c]
    /\ UNCHANGED original

Next ==
    \/ \E w \in Payloads \cup {None} : Switch(w)
    \/ \E p \in Editable \ Managed, c \in EditTo : Edit(p, c)

Spec == Init /\ [][Next]_vars
=============================================================================
