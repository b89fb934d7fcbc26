------------------------- MODULE ProcessesImplTree -------------------------
(***************************************************************************)
(* Processes implements ProcessTree where only base shells execute         *)
(* programs: the one global prev_pid is then enough of a stack.            *)
(***************************************************************************)
EXTENDS Processes

BaseShells == Terminals

\* sys_halt clears in_use several statements before it returns to the parent;
\* the process counts as alive until then, and for ever if the CPU is lost.
Ending == IF cpu.pc \in HaltPlaces \cup {"lost"} THEN {cpu.proc} ELSE {}

Alive == {p \in Pids : in_use[p]} \cup Ending

ParentOf ==
    [p \in Pids |-> IF p \in Alive \ BaseShells THEN saved[p].proc ELSE NoPid]

Tree == INSTANCE ProcessTree
            WITH Roots <- BaseShells, current <- cpu.proc,
                 alive <- Alive, parent <- ParentOf

\* The statements of sys_execute, sys_halt and pit_handler, with every interrupt
\* between them, add up to the depth-first walk that their callers rely on.
ImplementsProcessTree == Tree!TreeSpec
=============================================================================
