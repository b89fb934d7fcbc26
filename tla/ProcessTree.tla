---------------------------- MODULE ProcessTree ----------------------------
(***************************************************************************)
(* What execute and halt promise their callers: programs form a tree that  *)
(* is walked depth first.  execute starts a process in a free identity and *)
(* suspends its caller, halt removes the running process and resumes the   *)
(* one that started it, and a root process cannot be removed.              *)
(***************************************************************************)
CONSTANTS
    Pids,      \* process identities
    Roots,     \* those of the base shells
    NoPid      \* the absence of a process

VARIABLES
    current,   \* the process that executes
    alive,     \* processes started and not yet halted
    parent     \* who started each of them

treeVars == <<current, alive, parent>>

TreeInit ==
    /\ current = NoPid
    /\ alive = {}
    /\ parent = [p \in Pids |-> NoPid]

\* execute, or the start of a base shell
Start(p) ==
    /\ p \notin alive
    /\ alive' = alive \cup {p}
    /\ parent' = [parent EXCEPT ![p] = IF p \in Roots THEN NoPid ELSE current]
    /\ current' = p

\* halt
End ==
    /\ current \in alive \ Roots
    /\ alive' = alive \ {current}
    /\ parent' = [parent EXCEPT ![current] = NoPid]
    /\ current' = parent[current]

TreeNext == End \/ \E p \in Pids : Start(p)

TreeSpec == TreeInit /\ [][TreeNext]_treeVars
=============================================================================
