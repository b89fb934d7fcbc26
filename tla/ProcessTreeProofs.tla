------------------------- MODULE ProcessTreeProofs -------------------------
(***************************************************************************)
(* Proofs about Processes under the restricted uses that it is right for:  *)
(* one name for the running process, the refinement of ProcessTree, the    *)
(* report of exceptions, and the kernel stacks.  For every number of PCBs  *)
(* and terminals.                                                          *)
(***************************************************************************)
EXTENDS ProcessesProofs, ProcessesImplTree

-----------------------------------------------------------------------------
(***************************************************************************)
(* Programs that do not execute others, the use that the one global        *)
(* prev_pid is enough for; terminals may be switched at any moment.  One   *)
(* name for the running process then follows from another: pid_counter,    *)
(* the registers, the mapped page and the PCB in use above the base        *)
(* shells, until sys_halt has released it.                                 *)
(***************************************************************************)
Coherent ==
    /\ cpu.pc = "idle" <=> pit_count = 0
    /\ cpu.pc = "lost" => ~cpu.intr
    /\ cpu.pc \notin {"idle", "lost"} =>
          /\ cpu.proc = pid_counter
          /\ user_page = IF cpu.pc = "resume" THEN prev_pid ELSE pid_counter
    /\ cpu.pc \in {"user", "syscall", "release"} => in_use[pid_counter]

OneProgram ==
    Booted =>
        /\ \A p \in Pids : p > LastShell /\ in_use[p] =>
              p = pid_counter /\ cpu.pc \in {"user", "syscall", "release", "lost"}
        /\ pid_counter > LastShell =>
              /\ prev_pid = LastShell
              /\ image[pid_counter] = "leaf"
              /\ saved[pid_counter].proc = LastShell

LeafInv == IInv /\ Coherent /\ OneProgram

\* An entry to the kernel from user mode destroys the activation on the stack it
\* enters on, and no entry changes anything else of an activation.
LEMMA EntryDestroys ==
    ASSUME TypeOK
    PROVE  \A p \in Pids :
              /\ FramesAfterEntry[p].proc = saved[p].proc
              /\ FramesAfterEntry[p].stack = saved[p].stack
              /\ ~(cpu.pc = "user" /\ saved[p].stack = esp0) =>
                    FramesAfterEntry[p].intact = saved[p].intact
  <1>1. ASSUME NEW p \in Pids
        PROVE  /\ FramesAfterEntry[p].proc = saved[p].proc
               /\ FramesAfterEntry[p].stack = saved[p].stack
               /\ ~(cpu.pc = "user" /\ saved[p].stack = esp0) =>
                     FramesAfterEntry[p].intact = saved[p].intact
    <2>1. saved[p] \in Frames
      BY DEF TypeOK
    <2>2. /\ [saved[p] EXCEPT !.intact = FALSE].proc = saved[p].proc
          /\ [saved[p] EXCEPT !.intact = FALSE].stack = saved[p].stack
      BY <2>1 DEF Frames
    <2>3. FramesAfterEntry[p] = IF cpu.pc = "user" /\ saved[p].stack = esp0
                                THEN [saved[p] EXCEPT !.intact = FALSE] ELSE saved[p]
      BY DEF FramesAfterEntry
    <2> QED
      BY <2>2, <2>3
  <1> QED
    BY <1>1

\* What a launch does to the registers, the page and the activations.
LEMMA LaunchSaves ==
    ASSUME TypeOK, NEW pid \in Pids, NEW program, NEW from, NEW t,
           Launch(pid, program, from, t)
    PROVE  /\ user_page' = pid /\ esp0' = pid
           /\ cpu'.proc = pid /\ cpu'.pc = "user" /\ cpu'.intr /\ cpu'.stack = 0
           /\ saved'[pid].proc = cpu.proc /\ saved'[pid].stack = StackOnEntry
           /\ saved'[pid].intact
           /\ \A p \in Pids : p # pid => saved'[p].proc = saved[p].proc
  <1> DEFINE frame == [proc |-> cpu.proc, stack |-> StackOnEntry,
                       from |-> from, intact |-> TRUE]
  <1>1. frame.proc = cpu.proc /\ frame.stack = StackOnEntry /\ frame.intact
    OBVIOUS
  <1>2. saved' = [FramesAfterEntry EXCEPT ![pid] = frame]
    BY DEF Launch
  <1>3. /\ saved'[pid] = frame
        /\ \A p \in Pids : p # pid => saved'[p].proc = saved[p].proc
    <2> HIDE DEF frame
    <2> QED
      BY <1>2, EntryKeepsFrames, EntryDestroys
  <1> QED
    BY <1>1, <1>3 DEF Launch, UserMode

\* A lost CPU takes no interrupt.
LEMMA LostRegisters ==
    ASSUME TypeOK
    PROVE  Lost.pc = "lost" /\ ~Lost.intr /\ Lost.proc = cpu.proc
  <1>1. cpu \in [proc : Pids \cup {NoPid}, stack : Pids, pc : Places, intr : BOOLEAN]
    BY DEF TypeOK, CpuStates
  <1> QED
    BY <1>1 DEF Lost

\* The initial state satisfies both parts.
LEMMA InitLeaf == Init => LeafInv
  BY InitInv, ProcessesAssumption DEF LeafInv, Coherent, OneProgram, Init, Booted

\* After the boot the numbers of the processes fall into those of the terminals
\* and those above the last shell.
LEMMA Numbers ==
    ASSUME TypeOK
    PROVE  /\ LastShell \in Pids /\ LastShell \in Terminals /\ LastShell > 0
           /\ Terminals \subseteq Pids
           /\ \A p \in Pids : p \in Int /\ (p \in Terminals <=> p <= LastShell)
           /\ NUMBER_OF_TERMINALS = LastShell + 1
  BY ProcessesAssumption DEF TypeOK, LastShell, Pids, Terminals

\* There are no programs above the base shells before the boot has ended.
LEMMA ProgramsAfterBoot ==
    ASSUME IInv, pid_counter > LastShell
    PROVE  Booted
  <1>1. /\ NUMBER_OF_TERMINALS \in Nat /\ NUMBER_OF_TERMINALS > 1
        /\ pit_count \in 0 .. NUMBER_OF_TERMINALS + 1
    BY ProcessesAssumption DEF IInv, TypeOK
  <1>2. ~Booted => pid_counter = IF pit_count = 0 THEN 0 ELSE pit_count - 1
    BY DEF IInv, BootOrder
  <1> QED
    BY <1>1, <1>2 DEF Booted, LastShell

\* Steps that leave the tables alone: an entry, a tick, a switch, a return.
LEMMA LeafFrame ==
    ASSUME LeafInv, IInv',
           UNCHANGED <<in_use, pid_counter, prev_pid, image, user_page>>,
           Booted' => Booted,
           cpu'.proc = cpu.proc,
           \A p \in Pids : saved'[p].proc = saved[p].proc,
           cpu'.pc = cpu.pc \/ (cpu.pc \in {"user", "syscall"} /\ cpu'.pc \in {"user", "syscall", "release", "lost"}),
           cpu'.pc = "lost" => ~cpu'.intr,
           (pit_count = 0) <=> (pit_count' = 0)
    PROVE  LeafInv'
  <1>1. pid_counter \in Pids
    BY DEF LeafInv, IInv, TypeOK
  <1>2. Coherent'
    BY DEF LeafInv, Coherent
  <1>3. OneProgram'
    BY <1>1 DEF LeafInv, OneProgram
  <1> QED
    BY <1>2, <1>3 DEF LeafInv

\* Every step keeps them.
LEMMA LeafStep ==
    ASSUME "shell" \notin Commands, LeafInv, [Next]_vars
    PROVE  LeafInv'
  <1> USE DEF table, memory, terminal, screen
  <1>0. /\ IInv /\ IInv' /\ TypeOK /\ TypeOK'
        /\ in_use \in [Pids -> BOOLEAN] /\ pid_counter \in Pids /\ cpu \in CpuStates
        /\ prev_pid \in Pids
    BY InvStep DEF LeafInv, IInv, TypeOK
  <1>1. ASSUME NEW command \in Commands, ExecuteProgram(command)
        PROVE  LeafInv'
    <2>1. PICK pid \in Pids : IsFree(pid) /\ Launch(pid, command, "syscall", curr_terminal)
      BY <1>1 DEF ExecuteProgram
    <2>2. Booted /\ Booted' /\ cpu.pc = "syscall" /\ command = "leaf" /\ pit_count # 0 /\ pit_count' # 0
      BY <1>0, <1>1, ProcessesAssumption DEF ExecuteProgram, Booted, Programs, TypeOK
    <2>3. cpu.proc = pid_counter /\ user_page = pid_counter
      BY <2>2 DEF LeafInv, Coherent
    <2>4. image[pid_counter] = "shell"
      BY <1>1, <2>3 DEF ExecuteProgram, RunsShell
    <2>5. pid_counter = LastShell
      BY <1>0, <2>2, <2>4, Numbers DEF LeafInv, OneProgram, IInv, ShellsKept
    <2>6. pid \notin Terminals /\ pid > LastShell
      BY <1>0, <2>1, <2>2, Numbers DEF IInv, ShellsKept, IsFree
    <2>7. /\ pid_counter' = pid /\ prev_pid' = pid_counter /\ in_use'[pid] /\ image'[pid] = "leaf"
          /\ \A p \in Pids : p # pid => in_use'[p] = in_use[p]
      BY <1>0, <2>1, <2>2, LaunchEffect
    <2>8. user_page' = pid /\ cpu'.proc = pid /\ cpu'.pc = "user" /\ saved'[pid].proc = LastShell
      BY <1>0, <2>1, <2>3, <2>5, LaunchSaves
    <2>9. Coherent'
      BY <2>2, <2>7, <2>8 DEF Coherent
    <2>10. OneProgram'
      <3>1. ASSUME NEW p \in Pids, p > LastShell, in_use'[p]
            PROVE  p = pid
        BY <1>0, <2>2, <2>5, <2>7, <3>1, Numbers DEF LeafInv, OneProgram
      <3> QED
        BY <2>2, <2>5, <2>7, <2>8, <3>1 DEF OneProgram
    <2> QED
      BY <1>0, <2>9, <2>10 DEF LeafInv
  <1>2. CASE (\E command \in Commands : ExecuteRefused(command)) \/ ExecuteFull
    <2>1. /\ Booted /\ Booted' /\ cpu.pc = "syscall" /\ RunsShell /\ prev_pid' = pid_counter
          /\ UNCHANGED <<pid_counter, image, saved, user_page, pit_count>> /\ cpu' = UserMode(cpu.proc)
      BY <1>2 DEF ExecuteRefused, ExecuteFull, Refuse, Booted
    <2>2. in_use' = in_use
      <3>1. CASE ExecuteFull
        BY <3>1 DEF ExecuteFull
      <3>2. ASSUME NEW pid \in Pids, IsFree(pid), Refuse(pid) PROVE in_use' = in_use
        BY <1>0, <3>2 DEF Refuse, IsFree
      <3> QED
        BY <1>2, <3>1, <3>2 DEF ExecuteRefused
    <2>3. cpu.proc = pid_counter /\ user_page = pid_counter /\ pit_count # 0 /\ in_use[pid_counter]
      BY <2>1 DEF LeafInv, Coherent
    <2>4. pid_counter = LastShell
      BY <1>0, <2>1, <2>3, Numbers DEF LeafInv, OneProgram, IInv, ShellsKept, RunsShell
    <2>5. cpu'.pc = "user" /\ cpu'.proc = cpu.proc
      BY <2>1 DEF UserMode
    <2>6. Coherent'
      BY <2>1, <2>2, <2>3, <2>5 DEF Coherent
    <2>7. OneProgram'
      BY <1>0, <2>1, <2>2, <2>4, <2>5, Numbers DEF LeafInv, OneProgram
    <2> QED
      BY <1>0, <2>6, <2>7 DEF LeafInv
  <1>3. CASE Halt \/ Exception
    <2>1. /\ cpu.pc \in {"user", "syscall"} /\ cpu'.pc = "release" /\ cpu'.proc = cpu.proc
          /\ UNCHANGED <<in_use, pid_counter, prev_pid, image, user_page, pit_count>>
      BY <1>0, <1>3 DEF Halt, Exception, CpuStates
    <2>2. \A p \in Pids : saved'[p].proc = saved[p].proc
      BY <1>0, <1>3, EntryDestroys DEF Halt, Exception
    <2>3. Booted' => Booted
      BY <2>1 DEF Booted
    <2> QED
      BY <1>0, <2>1, <2>2, <2>3, LeafFrame
  <1>4. CASE HaltRelease
    <2>1. /\ cpu.pc = "release" /\ cpu'.pc = IF Relaunches(pid_counter) THEN "relaunch" ELSE "slot"
          /\ cpu'.proc = cpu.proc
          /\ in_use' = [in_use EXCEPT ![pid_counter] = FALSE]
          /\ UNCHANGED <<pid_counter, prev_pid, image, saved, user_page, pit_count>>
      BY <1>0, <1>4 DEF HaltRelease, CpuStates
    <2>2. Booted
      BY <1>0, <2>1 DEF IInv, BootOrder, HaltPlaces
    <2>3. Coherent'
      BY <1>0, <2>1 DEF LeafInv, Coherent
    <2>4. OneProgram'
      BY <1>0, <2>1, <2>2 DEF LeafInv, OneProgram, Booted
    <2> QED
      BY <1>0, <2>3, <2>4 DEF LeafInv
  <1>5. CASE HaltRelaunch
    <2>1. PICK pid \in Pids : IsFree(pid) /\ Launch(pid, "shell", "halt", curr_terminal)
      BY <1>5 DEF HaltRelaunch
    <2>2. Booted /\ Booted' /\ cpu.pc = "relaunch" /\ pit_count # 0 /\ pit_count' # 0
      BY <1>0, <1>5, ProcessesAssumption DEF HaltRelaunch, IInv, BootOrder, HaltPlaces, Booted, TypeOK
    <2>3. pid_counter = LastShell /\ ~in_use[LastShell]
      BY <1>0, <2>2 DEF IInv, ShellsKept
    <2>4. pid = LastShell
      <3>1. \A p \in Pids : p < LastShell => in_use[p]
        BY <1>0, <2>2, Numbers DEF IInv, ShellsKept
      <3>2. ~(LastShell < pid)
        BY <1>0, <2>1, <2>3, Numbers DEF IsFree
      <3>3. ~(pid < LastShell)
        BY <2>1, <3>1 DEF IsFree
      <3> QED
        BY <1>0, <3>2, <3>3, Numbers
    <2>5. /\ pid_counter' = pid /\ prev_pid' = pid_counter /\ in_use'[pid]
          /\ \A p \in Pids : p # pid => in_use'[p] = in_use[p]
      BY <1>0, <2>1, LaunchEffect
    <2>6. user_page' = pid /\ cpu'.proc = pid /\ cpu'.pc = "user"
      BY <1>0, <2>1, LaunchSaves
    <2>7. Coherent'
      BY <2>2, <2>5, <2>6 DEF Coherent
    <2>8. OneProgram'
      BY <1>0, <2>2, <2>4, <2>5, <2>6, Numbers DEF LeafInv, OneProgram
    <2> QED
      BY <1>0, <2>7, <2>8 DEF LeafInv
  <1>6. CASE HaltSlot \/ HaltPop
    <2>1. /\ cpu.pc \in {"slot", "pop"} /\ cpu'.pc \in {"pop", "page"} /\ cpu'.proc = cpu.proc
          /\ UNCHANGED <<in_use, pid_counter, prev_pid, image, saved, user_page, pit_count>>
      BY <1>0, <1>6 DEF HaltSlot, HaltPop, CpuStates
    <2>2. Coherent'
      BY <2>1 DEF LeafInv, Coherent
    <2>3. OneProgram'
      BY <1>0, <2>1 DEF LeafInv, OneProgram, Booted
    <2> QED
      BY <1>0, <2>2, <2>3 DEF LeafInv
  <1>7. CASE HaltPage
    <2>1. /\ cpu.pc = "page" /\ cpu'.pc = "resume" /\ cpu'.proc = cpu.proc /\ user_page' = prev_pid
          /\ UNCHANGED <<in_use, pid_counter, prev_pid, image, saved, pit_count>>
      BY <1>0, <1>7 DEF HaltPage, CpuStates
    <2>2. Coherent'
      BY <2>1 DEF LeafInv, Coherent
    <2>3. OneProgram'
      BY <1>0, <2>1 DEF LeafInv, OneProgram, Booted
    <2> QED
      BY <1>0, <2>2, <2>3 DEF LeafInv
  <1>8. CASE HaltResume
    <2>1. /\ cpu.pc = "resume" /\ pid_counter' = prev_pid /\ cpu' = ReturnInto(saved[pid_counter])
          /\ UNCHANGED <<in_use, prev_pid, image, saved, user_page, pit_count>>
      BY <1>8 DEF HaltResume
    <2>2. Booted /\ Booted'
      BY <1>0, <2>1 DEF IInv, BootOrder, HaltPlaces, Booted
    <2>3. /\ pid_counter > LastShell /\ saved[pid_counter].from = "syscall"
          /\ prev_pid = LastShell /\ saved[pid_counter].proc = LastShell /\ user_page = prev_pid
      BY <1>0, <2>1, <2>2 DEF LeafInv, IInv, ReturnChain, OneProgram, Coherent
    <2>4. cpu' = Lost \/ cpu' = UserMode(LastShell)
      BY <2>1, <2>3 DEF ReturnInto
    <2>5. \/ cpu'.pc = "lost" /\ ~cpu'.intr
          \/ cpu'.pc = "user" /\ cpu'.proc = LastShell
      BY <1>0, <2>4, LostRegisters DEF UserMode
    <2>6. in_use[LastShell]
      BY <1>0, <2>1, <2>2, Numbers DEF IInv, ShellsKept
    <2>7. pit_count # 0
      BY <2>1 DEF LeafInv, Coherent
    <2>8. Coherent'
      BY <2>1, <2>3, <2>5, <2>6, <2>7 DEF Coherent
    <2>9. OneProgram'
      BY <1>0, <2>1, <2>2, <2>3, Numbers DEF LeafInv, OneProgram
    <2> QED
      BY <1>0, <2>8, <2>9 DEF LeafInv
  <1>9. CASE Trap \/ SyscallReturn \/ StackFault
    <2>1. /\ cpu.pc \in {"user", "syscall"} /\ cpu'.pc \in {"user", "syscall", "lost"}
          /\ cpu'.proc = cpu.proc /\ (cpu'.pc = "lost" => ~cpu'.intr)
          /\ UNCHANGED <<in_use, pid_counter, prev_pid, image, user_page, pit_count>>
      <3>1. CASE Trap
        BY <1>0, <3>1 DEF Trap, CpuStates
      <3>2. CASE SyscallReturn
        BY <3>2 DEF SyscallReturn, UserMode
      <3>3. CASE StackFault
        BY <1>0, <3>3, LostRegisters DEF StackFault
      <3> QED
        BY <1>9, <3>1, <3>2, <3>3
    <2>2. \A p \in Pids : saved'[p].proc = saved[p].proc
      BY <1>0, <1>9, EntryDestroys DEF Trap, SyscallReturn, StackFault
    <2>3. Booted' => Booted
      BY <2>1 DEF Booted
    <2> QED
      BY <1>0, <2>1, <2>2, <2>3, LeafFrame
  <1>10. CASE PitStartShell
    <2>1. PICK pid \in Pids : IsFree(pid) /\ Launch(pid, "shell", "pit", pit_count)
      BY <1>10 DEF PitStartShell
    <2>2. ~Booted' /\ pit_count' # 0
      BY <1>0, <1>10, ProcessesAssumption DEF PitStartShell, Booted, TypeOK
    <2>3. pid_counter' = pid /\ in_use'[pid]
      BY <1>0, <2>1, LaunchEffect
    <2>4. user_page' = pid /\ cpu'.proc = pid /\ cpu'.pc = "user"
      BY <1>0, <2>1, LaunchSaves
    <2> QED
      BY <1>0, <2>2, <2>3, <2>4 DEF LeafInv, Coherent, OneProgram
  <1>11. CASE PitReturnToFirst
    <2>1. /\ pit_count = NUMBER_OF_TERMINALS /\ pit_count' = pit_count + 1
          /\ UNCHANGED <<in_use, pid_counter, prev_pid, image, user_page, cpu>>
      BY <1>11 DEF PitReturnToFirst
    <2>2. /\ ~Booted /\ pit_count # 0 /\ pit_count' # 0
      BY <2>1, ProcessesAssumption DEF Booted
    <2>3. /\ \A p \in Pids : in_use[p] => p <= LastShell
          /\ pid_counter = LastShell
      BY <1>0, <2>1, <2>2, Numbers DEF IInv, BootOrder
    <2>4. OneProgram'
      BY <1>0, <2>1, <2>3, Numbers DEF OneProgram
    <2>5. Coherent'
      BY <2>1, <2>2 DEF LeafInv, Coherent
    <2> QED
      BY <1>0, <2>4, <2>5 DEF LeafInv
  <1>12. CASE PitTick \/ \E target \in Terminals : SwitchTerminal(target)
    <2>1. /\ UNCHANGED <<in_use, pid_counter, prev_pid, image, user_page, pit_count, cpu>>
          /\ saved' = FramesAfterEntry /\ cpu.intr
      BY <1>12 DEF PitTick, SwitchTerminal
    <2>2. cpu'.pc # "lost"
      BY <2>1 DEF LeafInv, Coherent
    <2>3. Booted' => Booted
      BY <2>1 DEF Booted
    <2> QED
      BY <1>0, <2>1, <2>2, <2>3, EntryDestroys, LeafFrame
  <1>13. CASE HaltCloseRtc
    <2>1. /\ cpu.pc = "release" /\ cpu'.pc = "release" /\ cpu'.proc = cpu.proc
          /\ UNCHANGED <<in_use, pid_counter, prev_pid, image, saved, user_page, pit_count>>
      BY <1>0, <1>13 DEF HaltCloseRtc, CpuStates
    <2>2. Booted' => Booted
      BY <2>1 DEF Booted
    <2> QED
      BY <1>0, <2>1, <2>2, LeafFrame
  <1>14. CASE UNCHANGED vars
    BY <1>0, <1>14 DEF vars, LeafInv, Coherent, OneProgram, Booted
  <1> QED
    BY <1>1, <1>2, <1>3, <1>4, <1>5, <1>6, <1>7, <1>8, <1>9, <1>10, <1>11, <1>12, <1>13, <1>14
       DEF Next, SysExecute, SysHalt, Interrupt

\* Without programs that execute others, no switch, tick, exception or exit lets
\* a process run in another's page or with another's PCB.
THEOREM RunningKeepsPage ==
    ASSUME "shell" \notin Commands
    PROVE  Spec => []RunningOwnsPage
  <1>1. LeafInv /\ [Next]_vars => LeafInv'
    BY LeafStep
  <1>2. LeafInv => RunningOwnsPage
    BY DEF LeafInv, Coherent, RunningOwnsPage, Executing
  <1> QED
    BY <1>1, <1>2, InitLeaf, PTL DEF Spec

\* Every path of sys_execute and sys_halt gives back the PCB that it took.
THEOREM PcbsReturned ==
    ASSUME "shell" \notin Commands
    PROVE  Spec => []NoPcbLeaked
  <1>1. LeafInv /\ [Next]_vars => LeafInv'
    BY LeafStep
  <1>2. LeafInv => NoPcbLeaked
    <2> SUFFICES ASSUME LeafInv, Executing, Booted, NEW p \in Pids,
                        p >= NUMBER_OF_TERMINALS, in_use[p]
                 PROVE  p = cpu.proc
      BY DEF NoPcbLeaked
    <2>1. p > LastShell
      BY Numbers DEF LeafInv, IInv
    <2> QED
      BY <2>1 DEF LeafInv, Coherent, OneProgram, Executing
  <1> QED
    BY <1>1, <1>2, InitLeaf, PTL DEF Spec

-----------------------------------------------------------------------------
(***************************************************************************)
(* The refinement of ProcessTree.  execute and the ticks that start shells *)
(* are Start, the jump at the end of sys_halt is End, and every other step *)
(* leaves the tree as it is: sys_halt has cleared in_use by then, but the  *)
(* process counts as alive as long as it is Ending.                        *)
(***************************************************************************)
\* A step that changes neither the process, nor who is alive, nor where a program
\* returns to does not change the tree.
LEMMA TreeStutters ==
    ASSUME cpu'.proc = cpu.proc, Alive' = Alive,
           \A p \in Pids : p \in Alive \ BaseShells => saved'[p].proc = saved[p].proc
    PROVE  UNCHANGED Tree!treeVars
  <1>1. ParentOf' = ParentOf
    <2>1. \A p \in Pids : (IF p \in Alive' \ BaseShells THEN saved'[p].proc ELSE NoPid)
                        = (IF p \in Alive \ BaseShells THEN saved[p].proc ELSE NoPid)
      OBVIOUS
    <2> QED
      BY <2>1 DEF ParentOf
  <1> QED
    BY <1>1 DEF Tree!treeVars

\* in_use stays, and the process is neither at the end of its life before nor
\* after, or its PCB is in use.
LEMMA SameAlive ==
    ASSUME TypeOK, in_use' = in_use, cpu'.proc = cpu.proc,
           \/ cpu'.pc \in HaltPlaces \cup {"lost"} <=> cpu.pc \in HaltPlaces \cup {"lost"}
           \/ cpu.proc \in Pids /\ in_use[cpu.proc]
    PROVE  Alive' = Alive
  BY DEF Alive, Ending

\* The start of a program is a Start of the tree.
LEMMA LaunchStarts ==
    ASSUME TypeOK, NEW pid \in Pids, ~in_use[pid], NEW program, NEW from, NEW t,
           Launch(pid, program, from, t),
           cpu.pc \notin HaltPlaces \cup {"lost"}
    PROVE  Tree!Start(pid)
  <1>1. /\ in_use'[pid]
        /\ \A p \in Pids : p # pid => in_use'[p] = in_use[p] /\ saved'[p].proc = saved[p].proc
        /\ saved'[pid].proc = cpu.proc /\ cpu'.proc = pid /\ cpu'.pc = "user"
    BY LaunchEffect, LaunchSaves
  <1>2. Alive = {p \in Pids : in_use[p]} /\ Alive' = {p \in Pids : in_use'[p]}
    BY <1>1 DEF Alive, Ending, HaltPlaces
  <1>3. pid \notin Alive /\ Alive' = Alive \cup {pid}
    BY <1>1, <1>2
  <1>4. ParentOf' = [ParentOf EXCEPT ![pid] = IF pid \in BaseShells THEN NoPid ELSE cpu.proc]
    <2>1. \A p \in Pids : (IF p \in Alive' \ BaseShells THEN saved'[p].proc ELSE NoPid)
                        = IF p = pid THEN IF pid \in BaseShells THEN NoPid ELSE cpu.proc
                          ELSE IF p \in Alive \ BaseShells THEN saved[p].proc ELSE NoPid
      BY <1>1, <1>3
    <2> QED
      BY <2>1 DEF ParentOf
  <1> QED
    BY <1>1, <1>3, <1>4 DEF Tree!Start

\* Every step is a step of the tree or leaves it as it is.
LEMMA TreeStep ==
    ASSUME LeafInv, LeafInv', [Next]_vars
    PROVE  [Tree!TreeNext]_(Tree!treeVars)
  <1> USE DEF table, memory, terminal, screen
  <1>0. /\ IInv /\ IInv' /\ TypeOK /\ TypeOK'
        /\ in_use \in [Pids -> BOOLEAN] /\ pid_counter \in Pids /\ cpu \in CpuStates
        /\ prev_pid \in Pids
    BY DEF LeafInv, IInv, TypeOK
  <1>1. ASSUME NEW command \in Commands, ExecuteProgram(command)
        PROVE  Tree!TreeNext
    <2>1. PICK pid \in Pids : IsFree(pid) /\ Launch(pid, command, "syscall", curr_terminal)
      BY <1>1 DEF ExecuteProgram
    <2>2. cpu.pc \notin HaltPlaces \cup {"lost"}
      BY <1>1 DEF ExecuteProgram, HaltPlaces
    <2> QED
      BY <1>0, <2>1, <2>2, LaunchStarts DEF IsFree, Tree!TreeNext
  <1>2. CASE (\E command \in Commands : ExecuteRefused(command)) \/ ExecuteFull
    <2>1. cpu.pc = "syscall" /\ cpu' = UserMode(cpu.proc) /\ saved' = saved
      BY <1>2 DEF ExecuteRefused, ExecuteFull
    <2>2. in_use' = in_use
      <3>1. CASE ExecuteFull
        BY <3>1 DEF ExecuteFull
      <3>2. ASSUME NEW pid \in Pids, IsFree(pid), Refuse(pid) PROVE in_use' = in_use
        BY <1>0, <3>2 DEF Refuse, IsFree
      <3> QED
        BY <1>2, <3>1, <3>2 DEF ExecuteRefused
    <2>3. cpu'.pc = "user" /\ cpu'.proc = cpu.proc
      BY <2>1 DEF UserMode
    <2> QED
      BY <1>0, <2>1, <2>2, <2>3, SameAlive, TreeStutters DEF HaltPlaces
  <1>3. CASE Halt \/ Exception
    <2>1. /\ cpu.pc \in {"user", "syscall"} /\ cpu'.proc = cpu.proc /\ in_use' = in_use
      BY <1>0, <1>3 DEF Halt, Exception, CpuStates
    <2>2. \A p \in Pids : saved'[p].proc = saved[p].proc
      BY <1>0, <1>3, EntryDestroys DEF Halt, Exception
    <2>3. cpu.proc \in Pids /\ in_use[cpu.proc]
      BY <1>0, <2>1 DEF LeafInv, Coherent
    <2>4. Alive' = Alive
      BY <1>0, <2>1, <2>3, SameAlive
    <2> QED
      BY <2>1, <2>2, <2>4, TreeStutters
  <1>4. CASE HaltRelease
    <2>1. /\ cpu.pc = "release" /\ cpu'.pc \in HaltPlaces /\ cpu'.proc = cpu.proc
          /\ in_use' = [in_use EXCEPT ![pid_counter] = FALSE] /\ saved' = saved
      BY <1>0, <1>4 DEF HaltRelease, CpuStates, HaltPlaces
    <2>2. cpu.proc = pid_counter
      BY <2>1 DEF LeafInv, Coherent
    <2>3. Alive' = Alive
      BY <1>0, <2>1, <2>2 DEF Alive, Ending, HaltPlaces
    <2> QED
      BY <2>1, <2>3, TreeStutters
  <1>5. CASE HaltRelaunch
    <2>1. PICK pid \in Pids : IsFree(pid) /\ Launch(pid, "shell", "halt", curr_terminal)
      BY <1>5 DEF HaltRelaunch
    <2>2. Booted /\ cpu.pc = "relaunch"
      BY <1>0, <1>5 DEF HaltRelaunch, IInv, BootOrder, HaltPlaces
    <2>3. pid_counter = LastShell /\ ~in_use[LastShell] /\ cpu.proc = LastShell
      BY <1>0, <2>2 DEF LeafInv, Coherent, IInv, ShellsKept
    <2>4. pid = LastShell
      <3>1. \A p \in Pids : p < LastShell => in_use[p]
        BY <1>0, <2>2, Numbers DEF IInv, ShellsKept
      <3>2. ~(LastShell < pid)
        BY <1>0, <2>1, <2>3, Numbers DEF IsFree
      <3>3. ~(pid < LastShell)
        BY <2>1, <3>1 DEF IsFree
      <3> QED
        BY <1>0, <3>2, <3>3, Numbers
    <2>5. /\ in_use'[pid] /\ cpu'.proc = pid /\ cpu'.pc = "user"
          /\ \A p \in Pids : p # pid => in_use'[p] = in_use[p] /\ saved'[p].proc = saved[p].proc
      BY <1>0, <2>1, LaunchEffect, LaunchSaves
    <2>6. Alive' = Alive
      BY <2>2, <2>3, <2>4, <2>5 DEF Alive, Ending, HaltPlaces
    <2>7. LastShell \in BaseShells
      BY <1>0, Numbers DEF BaseShells
    <2> QED
      BY <2>3, <2>4, <2>5, <2>6, <2>7, TreeStutters
  <1>6. CASE HaltSlot \/ HaltPop \/ HaltPage
    <2>1. /\ cpu.pc \in HaltPlaces /\ cpu'.pc \in HaltPlaces /\ cpu'.proc = cpu.proc
          /\ in_use' = in_use /\ saved' = saved
      BY <1>0, <1>6 DEF HaltSlot, HaltPop, HaltPage, CpuStates, HaltPlaces
    <2> QED
      BY <1>0, <2>1, SameAlive, TreeStutters
  <1>7. CASE HaltResume
    <2>1. /\ cpu.pc = "resume" /\ cpu' = ReturnInto(saved[pid_counter])
          /\ in_use' = in_use /\ saved' = saved
      BY <1>7 DEF HaltResume
    <2>2. Booted
      BY <1>0, <2>1 DEF IInv, BootOrder, HaltPlaces
    <2>3. /\ pid_counter > LastShell /\ saved[pid_counter].from = "syscall"
          /\ cpu.proc = pid_counter
          /\ \A p \in Pids : p > LastShell => ~in_use[p]
      BY <2>1, <2>2 DEF LeafInv, IInv, ReturnChain, OneProgram, Coherent
    <2>4. CASE cpu' = Lost
      <3>1. cpu'.pc = "lost" /\ cpu'.proc = cpu.proc
        BY <1>0, <2>4, LostRegisters
      <3> QED
        BY <1>0, <2>1, <3>1, SameAlive, TreeStutters DEF HaltPlaces
    <2>5. CASE cpu' = UserMode(saved[pid_counter].proc)
      <3>1. cpu'.pc = "user" /\ cpu'.proc = saved[pid_counter].proc
        BY <2>5 DEF UserMode
      <3>2. /\ Alive = {p \in Pids : in_use[p]} \cup {pid_counter}
            /\ Alive' = {p \in Pids : in_use[p]}
        BY <2>1, <2>3, <3>1 DEF Alive, Ending, HaltPlaces
      <3>3. pid_counter \in Alive \ BaseShells /\ ~in_use[pid_counter]
        BY <1>0, <2>3, <3>2, Numbers DEF BaseShells
      <3>4. Alive' = Alive \ {pid_counter}
        BY <3>2, <3>3
      <3>5. ParentOf' = [ParentOf EXCEPT ![pid_counter] = NoPid]
        <4>1. \A p \in Pids : (IF p \in Alive' \ BaseShells THEN saved'[p].proc ELSE NoPid)
                            = IF p = pid_counter THEN NoPid
                              ELSE IF p \in Alive \ BaseShells THEN saved[p].proc ELSE NoPid
          BY <2>1, <3>4
        <4> QED
          BY <4>1 DEF ParentOf
      <3>6. cpu'.proc = ParentOf[cpu.proc]
        BY <1>0, <2>3, <3>1, <3>3 DEF ParentOf
      <3>7. Tree!End
        BY <2>3, <3>3, <3>4, <3>5, <3>6 DEF Tree!End
      <3> QED
        BY <3>7 DEF Tree!TreeNext
    <2> QED
      BY <2>1, <2>3, <2>4, <2>5 DEF ReturnInto
  <1>8. CASE Trap \/ SyscallReturn \/ StackFault
    <2>1. /\ cpu.pc \in {"user", "syscall"} /\ cpu'.proc = cpu.proc /\ in_use' = in_use
      <3>1. CASE Trap
        BY <1>0, <3>1 DEF Trap, CpuStates
      <3>2. CASE SyscallReturn
        BY <3>2 DEF SyscallReturn, UserMode
      <3>3. CASE StackFault
        BY <1>0, <3>3, LostRegisters DEF StackFault
      <3> QED
        BY <1>8, <3>1, <3>2, <3>3
    <2>2. \A p \in Pids : saved'[p].proc = saved[p].proc
      BY <1>0, <1>8, EntryDestroys DEF Trap, SyscallReturn, StackFault
    <2>3. cpu.proc \in Pids /\ in_use[cpu.proc]
      BY <1>0, <2>1 DEF LeafInv, Coherent
    <2>4. Alive' = Alive
      BY <1>0, <2>1, <2>3, SameAlive
    <2> QED
      BY <2>1, <2>2, <2>4, TreeStutters
  <1>9. CASE PitStartShell
    <2>1. PICK pid \in Pids : IsFree(pid) /\ Launch(pid, "shell", "pit", pit_count)
      BY <1>9 DEF PitStartShell
    <2>2. cpu.pc \notin HaltPlaces \cup {"lost"}
      BY <1>0, <1>9, ProcessesAssumption
         DEF PitStartShell, LeafInv, Coherent, IInv, BootOrder, Booted, TypeOK
    <2> QED
      BY <1>0, <2>1, <2>2, LaunchStarts DEF IsFree, Tree!TreeNext
  <1>10. CASE PitReturnToFirst \/ PitTick \/ \E target \in Terminals : SwitchTerminal(target)
    <2>1. UNCHANGED <<in_use, cpu>> /\ saved' = FramesAfterEntry
      BY <1>10 DEF PitReturnToFirst, PitTick, SwitchTerminal
    <2>2. Alive' = Alive
      BY <2>1 DEF Alive, Ending
    <2> QED
      BY <1>0, <2>1, <2>2, EntryDestroys, TreeStutters
  <1>11. CASE HaltCloseRtc
    <2>1. /\ cpu'.pc = cpu.pc /\ cpu'.proc = cpu.proc /\ in_use' = in_use /\ saved' = saved
      BY <1>0, <1>11 DEF HaltCloseRtc, CpuStates
    <2>2. Alive' = Alive
      BY <2>1 DEF Alive, Ending
    <2> QED
      BY <2>1, <2>2, TreeStutters
  <1>12. CASE UNCHANGED vars
    BY <1>12, TreeStutters DEF vars, Alive, Ending
  <1> QED
    BY <1>1, <1>2, <1>3, <1>4, <1>5, <1>6, <1>7, <1>8, <1>9, <1>10, <1>11, <1>12
       DEF Next, SysExecute, SysHalt, Interrupt

\* Without programs that execute others the kernel keeps what its callers rely on:
\* execute and halt walk a tree of processes depth first, whatever the ticks,
\* switches and exceptions between their statements.
THEOREM TreeImplemented ==
    ASSUME "shell" \notin Commands
    PROVE  Spec => ImplementsProcessTree
  <1>1. LeafInv /\ [Next]_vars => LeafInv'
    BY LeafStep
  <1>2. Init => Tree!TreeInit
    <2> SUFFICES ASSUME Init PROVE Tree!TreeInit
      OBVIOUS
    <2>1. Alive = {}
      BY DEF Init, Alive, Ending, HaltPlaces
    <2> QED
      BY <2>1 DEF Init, Tree!TreeInit, ParentOf
  <1>3. LeafInv /\ LeafInv' /\ [Next]_vars => [Tree!TreeNext]_(Tree!treeVars)
    BY TreeStep
  <1> QED
    BY <1>1, <1>2, <1>3, InitLeaf, PTL DEF Spec, ImplementsProcessTree, Tree!TreeSpec

-----------------------------------------------------------------------------
(***************************************************************************)
(* The kernel stacks.  Under the use that the kernel is made for, with no  *)
(* switch under a program and not more base shells ended than procs has    *)
(* slots for, the slot on top of the current terminal is the running       *)
(* program's, the one below it a base shell's: a tick puts the stack into  *)
(* esp0 that sys_execute put there, and the activation of sys_execute lies *)
(* on a base shell's stack, where no entry writes.                         *)
(***************************************************************************)
OrderedUse ==
    /\ "shell" \notin Commands
    /\ SwitchDuring \subseteq {"shell"}
    /\ MaxRestarts + 2 < PCB_SIZE

\* The program's slot is on top of the current terminal's, not yet popped.
Pushed == pid_counter > LastShell /\ cpu.pc \in {"user", "syscall", "release", "slot", "pop"}
Top == procs[curr_terminal][curr_process[curr_terminal]]

ShellSlot(t) == IF Pushed /\ t = curr_terminal THEN curr_process[t] - 1 ELSE curr_process[t]

Slotted ==
    /\ \A t \in Terminals : t < pit_count =>
          ShellSlot(t) \in 1 .. restarts + 1 /\ procs[t][ShellSlot(t)] \in Terminals
    /\ \A t \in Terminals : t >= pit_count => curr_process[t] = 0
    /\ Pushed => Top = IF cpu.pc = "pop" THEN NoPid ELSE pid_counter

Stacks ==
    /\ cpu.pc # "lost"
    /\ Booted /\ pid_counter > LastShell =>
          saved[pid_counter].intact /\ saved[pid_counter].stack \in Terminals
    /\ pid_counter > LastShell /\ cpu.pc \in {"user", "syscall", "release", "slot"} =>
          esp0 = pid_counter
    /\ pid_counter <= LastShell \/ cpu.pc = "resume" => esp0 \in Terminals
    /\ pid_counter <= LastShell => cpu.stack \in Terminals

Exits ==
    /\ restarts <= MaxRestarts
    /\ pid_counter <= LastShell /\ cpu.pc \in {"release", "relaunch"} => restarts < MaxRestarts

StackInv == LeafInv /\ Slotted /\ Stacks /\ Exits

\* A push below the end of procs writes the next slot of one terminal.
LEMMA PushWrites ==
    ASSUME TypeOK, NEW t \in Terminals, NEW pid \in Pids, PushSlot(t, pid),
           curr_process[t] + 1 < PCB_SIZE
    PROVE  /\ curr_process' = [curr_process EXCEPT ![t] = curr_process[t] + 1]
           /\ procs'[t][curr_process[t] + 1] = pid
           /\ procs'[t][curr_process[t]] = procs[t][curr_process[t]]
           /\ \A u \in Terminals : u # t => procs'[u] = procs[u]
  <1> DEFINE i == curr_process[t] + 1
  <1>1. curr_process[t] \in Slots /\ i \in Slots /\ i # curr_process[t] /\ i # PCB_SIZE
    BY ProcessesAssumption DEF TypeOK, Slots, MinSlot
  <1>2. procs \in [Terminals -> [Slots -> Pids \cup {NoPid}]]
    BY DEF TypeOK
  <1>3. /\ curr_process' = [curr_process EXCEPT ![t] = i]
        /\ procs' = [procs EXCEPT ![t] = [procs[t] EXCEPT ![i] = pid]]
    BY <1>1 DEF PushSlot
  <1> HIDE DEF i
  <1>4. [procs[t] EXCEPT ![i] = pid][i] = pid
    BY <1>1, <1>2
  <1>5. [procs[t] EXCEPT ![i] = pid][curr_process[t]] = procs[t][curr_process[t]]
    BY <1>1, <1>2
  <1>6. procs'[t] = [procs[t] EXCEPT ![i] = pid]
    BY <1>2, <1>3
  <1>7. \A u \in Terminals : u # t => procs'[u] = procs[u]
    BY <1>2, <1>3
  <1>8. procs'[t][i] = pid /\ procs'[t][curr_process[t]] = procs[t][curr_process[t]]
    BY <1>4, <1>5, <1>6
  <1> QED
    BY <1>3, <1>7, <1>8 DEF i

\* Steps that write no slot.
LEMMA SlottedFrame ==
    ASSUME Slotted, UNCHANGED <<procs, curr_process, pid_counter, pit_count, restarts>>,
           Pushed' <=> Pushed,
           Pushed => curr_terminal' = curr_terminal /\ (cpu'.pc = "pop" <=> cpu.pc = "pop")
    PROVE  Slotted'
  BY DEF Slotted, ShellSlot, Top

\* No entry to the kernel writes over the activation of the running program.
LEMMA ActivationKept ==
    ASSUME LeafInv, Stacks, Booted, pid_counter > LastShell
    PROVE  /\ FramesAfterEntry[pid_counter].intact
           /\ FramesAfterEntry[pid_counter].stack \in Terminals
  <1>1. TypeOK /\ pid_counter \in Pids /\ pid_counter \notin Terminals
    BY Numbers DEF LeafInv, IInv, TypeOK
  <1>2. saved[pid_counter].intact /\ saved[pid_counter].stack \in Terminals
    BY DEF Stacks
  <1>3. cpu.pc = "user" => esp0 = pid_counter
    BY DEF Stacks
  <1> QED
    BY <1>1, <1>2, <1>3, EntryDestroys

\* The initial state.
LEMMA InitStack == ASSUME Init PROVE StackInv
  <1>1. LeafInv
    BY InitLeaf
  <1>2. pid_counter = 0 /\ 0 \in Terminals /\ 0 < LastShell
    BY ProcessesAssumption DEF Init, Terminals, LastShell
  <1>3. Slotted
    BY <1>2, ProcessesAssumption DEF Init, Slotted, Pushed, Terminals
  <1>4. Stacks
    BY <1>2, ProcessesAssumption DEF Init, Stacks, Booted, LastShell
  <1>5. Exits
    BY ProcessesAssumption DEF Init, Exits
  <1> QED
    BY <1>1, <1>3, <1>4, <1>5 DEF StackInv

\* Every step keeps the stacks.
LEMMA StackStep ==
    ASSUME OrderedUse, StackInv, [Next]_vars
    PROVE  StackInv'
  <1> USE DEF table, memory, terminal, screen, bounds
  <1>0. /\ LeafInv /\ LeafInv' /\ IInv /\ IInv' /\ TypeOK /\ TypeOK'
        /\ Slotted /\ Stacks /\ Exits
        /\ pid_counter \in Pids /\ cpu \in CpuStates /\ curr_terminal \in Terminals
        /\ 0 \in Terminals /\ prev_pid \in Pids
        /\ restarts \in Nat /\ MaxRestarts \in Nat /\ PCB_SIZE \in Nat
    BY LeafStep, ProcessesAssumption DEF OrderedUse, StackInv, LeafInv, IInv, TypeOK, Terminals
  <1>b. /\ curr_process \in [Terminals -> Slots] /\ Slots \subseteq Int
        /\ procs \in [Terminals -> [Slots -> Pids \cup {NoPid}]]
        /\ pit_count \in Nat /\ Terminals \subseteq Int
        /\ Booted => \A t \in Terminals : t < pit_count
    <2>1. TypeOK
      BY <1>0
    <2>2. /\ curr_process \in [Terminals -> Slots]
          /\ procs \in [Terminals -> [Slots -> Pids \cup {NoPid}]]
      BY ONLY <2>1 DEF TypeOK
    <2>3. pit_count \in Nat
      BY ONLY <2>1, ProcessesAssumption DEF TypeOK
    <2>4. Slots \subseteq Int /\ Terminals \subseteq Int
      BY ONLY ProcessesAssumption DEF Slots, MinSlot, Terminals
    <2>5. Booted => \A t \in Terminals : t < pit_count
      BY ONLY <2>3, ProcessesAssumption DEF Booted, Terminals
    <2> QED
      BY ONLY <2>2, <2>3, <2>4, <2>5
  <1> SUFFICES Slotted' /\ Stacks' /\ Exits'
    BY <1>0 DEF StackInv
  <1>1. ASSUME NEW command \in Commands, ExecuteProgram(command)
        PROVE  Slotted' /\ Stacks' /\ Exits'
    <2>1. PICK pid \in Pids : IsFree(pid) /\ Launch(pid, command, "syscall", curr_terminal)
      BY <1>1 DEF ExecuteProgram
    <2>2. /\ Booted /\ Booted' /\ cpu.pc = "syscall"
          /\ UNCHANGED <<curr_terminal, pit_count, restarts>>
      BY <1>1 DEF ExecuteProgram, Booted
    <2>3. pid_counter = LastShell
      <3>1. cpu.proc = pid_counter /\ user_page = pid_counter
        BY <1>0, <2>2 DEF LeafInv, Coherent
      <3>2. image[pid_counter] = "shell"
        BY <1>1, <3>1 DEF ExecuteProgram, RunsShell
      <3> QED
        BY <1>0, <2>2, <3>2, Numbers DEF LeafInv, OneProgram, IInv, ShellsKept
    <2>4. pid \notin Terminals /\ pid > LastShell
      BY <1>0, <2>1, <2>2, Numbers DEF IInv, ShellsKept, IsFree
    <2>5. ~Pushed /\ cpu.stack \in Terminals
      BY <1>0, <2>3, Numbers DEF Pushed, Stacks
    <2>6. /\ curr_process[curr_terminal] \in 1 .. restarts + 1
          /\ procs[curr_terminal][curr_process[curr_terminal]] \in Terminals
      BY <1>0, <1>b, <2>2, <2>5 DEF Slotted, ShellSlot
    <2>7. curr_process[curr_terminal] + 1 < PCB_SIZE
      BY <1>0, <1>b, <2>6 DEF OrderedUse, Exits
    <2>8. /\ curr_process' = [curr_process EXCEPT ![curr_terminal] = curr_process[curr_terminal] + 1]
          /\ procs'[curr_terminal][curr_process[curr_terminal] + 1] = pid
          /\ procs'[curr_terminal][curr_process[curr_terminal]]
                = procs[curr_terminal][curr_process[curr_terminal]]
          /\ \A u \in Terminals : u # curr_terminal => procs'[u] = procs[u]
      BY <1>0, <2>1, <2>7, PushWrites DEF Launch
    <2>9. /\ pid_counter' = pid /\ esp0' = pid /\ cpu'.pc = "user"
          /\ saved'[pid].intact /\ saved'[pid].stack = cpu.stack
      BY <1>0, <2>1, <2>2, LaunchEffect, LaunchSaves DEF StackOnEntry
    <2>10. Pushed'
      BY <2>4, <2>9 DEF Pushed, LastShell
    <2>11. Slotted'
      <3>1. ASSUME NEW t \in Terminals, t < pit_count'
            PROVE  ShellSlot(t)' \in 1 .. restarts' + 1 /\ procs'[t][ShellSlot(t)'] \in Terminals
        <4>1. CASE t = curr_terminal
          <5>1. ShellSlot(t)' = curr_process[t]
            <6>1. curr_process[t] \in Int /\ curr_process'[t] = curr_process[t] + 1
              BY <1>b, <2>8, <4>1
            <6>2. ShellSlot(t)' = curr_process'[t] - 1
              BY <2>2, <2>10, <4>1 DEF ShellSlot
            <6> QED
              BY <6>1, <6>2
          <5> QED
            BY <2>2, <2>6, <2>8, <4>1, <5>1
        <4>2. CASE t # curr_terminal
          <5>1. ShellSlot(t)' = ShellSlot(t) /\ procs'[t] = procs[t]
            BY <1>b, <2>2, <2>5, <2>8, <4>2 DEF ShellSlot
          <5> QED
            BY <1>0, <2>2, <3>1, <5>1 DEF Slotted
        <4> QED
          BY <4>1, <4>2
      <3>2. \A t \in Terminals : ~(t >= pit_count')
        BY <1>b, <2>2
      <3>3. Top' = pid
        BY <1>0, <1>b, <2>2, <2>8 DEF Top
      <3> QED
        BY <2>9, <3>1, <3>2, <3>3 DEF Slotted
    <2>12. Stacks'
      BY <1>0, <2>4, <2>5, <2>9, Numbers DEF Stacks, LastShell
    <2>13. Exits'
      BY <1>0, <2>2, <2>9 DEF Exits
    <2> QED
      BY <2>11, <2>12, <2>13
  <1>2. CASE (\E command \in Commands : ExecuteRefused(command)) \/ ExecuteFull \/ SyscallReturn
    <2>1. /\ cpu.pc = "syscall" /\ cpu' = UserMode(cpu.proc)
          /\ UNCHANGED <<pid_counter, saved, procs, curr_process, curr_terminal, pit_count,
                         restarts, esp0>>
      BY <1>2 DEF ExecuteRefused, Refuse, ExecuteFull, SyscallReturn
    <2>2. cpu'.pc = "user" /\ cpu'.stack = 0
      BY <2>1 DEF UserMode
    <2>3. Slotted'
      BY <1>0, <2>1, <2>2, SlottedFrame DEF Pushed
    <2>4. Stacks'
      BY <1>0, <2>1, <2>2 DEF Stacks, Booted
    <2> QED
      BY <1>0, <2>1, <2>2, <2>3, <2>4 DEF Exits
  <1>3. CASE Halt \/ Exception \/ Trap
    <2>1. /\ cpu.pc \in {"user", "syscall"} /\ cpu'.pc \in {"release", "syscall"}
          /\ UNCHANGED <<pid_counter, procs, curr_process, curr_terminal, pit_count,
                         restarts, esp0>>
          /\ cpu'.stack = StackOnEntry /\ saved' \in {saved, FramesAfterEntry}
      BY <1>0, <1>3 DEF Halt, Exception, Trap, CpuStates, StackOnEntry
    <2>2. Slotted'
      BY <1>0, <2>1, SlottedFrame DEF Pushed
    <2>3. Stacks'
      <3>1. Booted /\ pid_counter > LastShell =>
                saved'[pid_counter].intact /\ saved'[pid_counter].stack \in Terminals
        BY <1>0, <2>1, ActivationKept DEF Stacks
      <3>2. pid_counter <= LastShell => cpu'.stack \in Terminals
        BY <1>0, <2>1 DEF Stacks, StackOnEntry
      <3> QED
        BY <1>0, <2>1, <3>1, <3>2 DEF Stacks, Booted
    <2>4. Exits'
      <3>1. CASE Trap
        BY <1>0, <2>1, <3>1 DEF Exits, Trap, CpuStates
      <3>2. CASE Halt \/ Exception
        <4>1. Booted /\ MayEnd
          BY <3>2 DEF Halt, Exception
        <4>2. pid_counter <= LastShell => IsBaseShell(pid_counter)
          BY <1>0, <4>1, Numbers DEF IInv, ShellsKept, IsBaseShell
        <4> QED
          BY <1>0, <2>1, <4>1, <4>2, ProcessesAssumption DEF Exits, MayEnd
      <3> QED
        BY <1>3, <3>1, <3>2
    <2> QED
      BY <2>2, <2>3, <2>4
  <1>4. CASE HaltRelease
    <2>1. /\ cpu.pc = "release" /\ cpu'.stack = cpu.stack
          /\ cpu'.pc = IF Relaunches(pid_counter) THEN "relaunch" ELSE "slot"
          /\ UNCHANGED <<pid_counter, saved, procs, curr_process, curr_terminal, pit_count,
                         restarts, esp0>>
      BY <1>0, <1>4 DEF HaltRelease, CpuStates
    <2>2. pid_counter > LastShell => cpu'.pc = "slot"
      BY <1>0, <2>1, Numbers DEF Relaunches, IsBaseShell
    <2>3. Slotted'
      BY <1>0, <2>1, <2>2, SlottedFrame DEF Pushed
    <2>4. Stacks'
      BY <1>0, <2>1, <2>2 DEF Stacks, Booted
    <2>5. Exits'
      BY <1>0, <2>1, <2>2 DEF Exits
    <2> QED
      BY <2>3, <2>4, <2>5
  <1>5. CASE HaltRelaunch
    <2>1. PICK pid \in Pids : IsFree(pid) /\ Launch(pid, "shell", "halt", curr_terminal)
      BY <1>5 DEF HaltRelaunch
    <2>2. /\ Booted /\ cpu.pc = "relaunch" /\ restarts' = restarts + 1
          /\ UNCHANGED <<curr_terminal, pit_count>>
      BY <1>0, <1>5 DEF HaltRelaunch, IInv, BootOrder, HaltPlaces
    <2>3. pid_counter = LastShell /\ ~in_use[LastShell]
      BY <1>0, <2>2 DEF IInv, ShellsKept
    <2>4. pid = LastShell
      <3>1. \A p \in Pids : p < LastShell => in_use[p]
        BY <1>0, <2>2, Numbers DEF IInv, ShellsKept
      <3>2. ~(LastShell < pid)
        BY <1>0, <2>1, <2>3, Numbers DEF IsFree
      <3>3. ~(pid < LastShell)
        BY <2>1, <3>1 DEF IsFree
      <3> QED
        BY <1>0, <3>2, <3>3, Numbers
    <2>5. ~Pushed /\ restarts < MaxRestarts
      BY <1>0, <2>2, <2>3, Numbers DEF Pushed, Exits
    <2>6. curr_process[curr_terminal] \in 1 .. restarts + 1
      BY <1>0, <1>b, <2>2, <2>5 DEF Slotted, ShellSlot
    <2>7. curr_process[curr_terminal] + 1 < PCB_SIZE
      BY <1>0, <1>b, <2>5, <2>6 DEF OrderedUse
    <2>8. /\ curr_process' = [curr_process EXCEPT ![curr_terminal] = curr_process[curr_terminal] + 1]
          /\ procs'[curr_terminal][curr_process[curr_terminal] + 1] = pid
          /\ \A u \in Terminals : u # curr_terminal => procs'[u] = procs[u]
      BY <1>0, <2>1, <2>7, PushWrites DEF Launch
    <2>9. pid_counter' = pid /\ esp0' = pid /\ cpu'.pc = "user" /\ cpu'.stack = 0
      BY <1>0, <2>1, LaunchEffect, LaunchSaves
    <2>10. ~Pushed' /\ LastShell \in Terminals
      BY <1>0, <2>4, <2>9, Numbers DEF Pushed, LastShell
    <2>11. Slotted'
      <3>1. ASSUME NEW t \in Terminals, t < pit_count'
            PROVE  ShellSlot(t)' \in 1 .. restarts' + 1 /\ procs'[t][ShellSlot(t)'] \in Terminals
        <4>1. CASE t = curr_terminal
          <5>1. ShellSlot(t)' = curr_process[t] + 1
            BY <1>b, <2>8, <2>10, <4>1 DEF ShellSlot
          <5> QED
            BY <1>0, <1>b, <2>2, <2>4, <2>6, <2>8, <2>10, <4>1, <5>1
        <4>2. CASE t # curr_terminal
          <5>1. ShellSlot(t)' = ShellSlot(t) /\ procs'[t] = procs[t]
            BY <1>b, <2>5, <2>8, <2>10, <4>2 DEF ShellSlot
          <5>2. ShellSlot(t) \in 1 .. restarts + 1 /\ procs[t][ShellSlot(t)] \in Terminals
            BY <1>0, <2>2, <3>1 DEF Slotted
          <5> QED
            BY <1>0, <2>2, <5>1, <5>2
        <4> QED
          BY <4>1, <4>2
      <3>2. \A t \in Terminals : ~(t >= pit_count')
        BY <1>b, <2>2
      <3> QED
        BY <2>10, <3>1, <3>2 DEF Slotted
    <2>12. Stacks'
      BY <1>0, <2>4, <2>9, <2>10, Numbers DEF Stacks, LastShell
    <2>13. Exits'
      BY <1>0, <2>2, <2>5, <2>9 DEF Exits
    <2> QED
      BY <2>11, <2>12, <2>13
  <1>6. CASE HaltSlot \/ HaltPop \/ HaltPage \/ HaltResume
    <2>1. /\ cpu.pc \in {"slot", "pop", "page", "resume"} /\ UNCHANGED <<curr_terminal, pit_count, restarts>>
      BY <1>6 DEF HaltSlot, HaltPop, HaltPage, HaltResume
    <2>2. Booted /\ Booted'
      BY <1>0, <2>1 DEF IInv, BootOrder, HaltPlaces, Booted
    <2>3. /\ pid_counter > LastShell /\ prev_pid = LastShell /\ saved[pid_counter].from = "syscall"
          /\ saved[pid_counter].intact /\ saved[pid_counter].stack \in Terminals
          /\ LastShell \in Terminals
      BY <1>0, <2>1, <2>2, Numbers DEF IInv, ReturnChain, LeafInv, OneProgram, Stacks
    <2>4. CASE HaltSlot
      <3>1. /\ cpu.pc = "slot" /\ cpu'.pc = "pop"
            /\ UNCHANGED <<pid_counter, saved, curr_process, esp0>>
            /\ procs' = [procs EXCEPT ![curr_terminal] =
                           [procs[curr_terminal] EXCEPT ![curr_process[curr_terminal]] = NoPid]]
        BY <1>0, <2>4 DEF HaltSlot, CpuStates
      <3>2. Pushed /\ Pushed'
        BY <2>3, <3>1 DEF Pushed, LastShell
      <3>3. /\ \A u \in Terminals : u # curr_terminal => procs'[u] = procs[u]
            /\ procs'[curr_terminal] = [procs[curr_terminal] EXCEPT ![curr_process[curr_terminal]] = NoPid]
        BY <1>0, <1>b, <3>1
      <3>4. \A i \in Slots : procs'[curr_terminal][i] =
                 IF i = curr_process[curr_terminal] THEN NoPid ELSE procs[curr_terminal][i]
        BY <1>0, <1>b, <3>3
      <3>5. Slotted'
        <4>1. ASSUME NEW t \in Terminals, t < pit_count
              PROVE  /\ ShellSlot(t)' = ShellSlot(t)
                     /\ procs'[t][ShellSlot(t)] = procs[t][ShellSlot(t)]
          <5>1. ShellSlot(t)' = ShellSlot(t)
            BY <2>1, <3>1, <3>2 DEF ShellSlot
          <5>2. CASE t = curr_terminal
            <6>1. ShellSlot(t) = curr_process[t] - 1 /\ ShellSlot(t) \in 1 .. restarts + 1
              BY <1>0, <3>2, <4>1, <5>2 DEF ShellSlot, Slotted
            <6>2. ShellSlot(t) \in Slots /\ ShellSlot(t) # curr_process[t]
              BY <1>0, <1>b, <6>1 DEF Slots, MinSlot
            <6> QED
              BY <3>4, <5>1, <5>2, <6>2
          <5> QED
            BY <3>3, <5>1, <5>2
        <4>2. Top' = NoPid
          BY <1>0, <1>b, <2>1, <3>1, <3>4 DEF Top
        <4>3. \A t \in Terminals : ~(t >= pit_count')
          BY <1>b, <2>1, <2>2
        <4> QED
          BY <1>0, <2>1, <3>1, <4>1, <4>2, <4>3 DEF Slotted
      <3> QED
        BY <1>0, <2>1, <2>2, <2>3, <3>1, <3>5, Numbers DEF Stacks, Exits, LastShell
    <2>5. CASE HaltPop
      <3>1. /\ cpu.pc = "pop" /\ cpu'.pc = "page"
            /\ UNCHANGED <<pid_counter, saved, procs, esp0>>
            /\ curr_process' = [curr_process EXCEPT ![curr_terminal] = curr_process[curr_terminal] - 1]
        BY <1>0, <2>5 DEF HaltPop, PopSlot, CpuStates
      <3>2. Pushed /\ ~Pushed'
        BY <2>3, <3>1 DEF Pushed
      <3>3. \A t \in Terminals : ShellSlot(t)' = ShellSlot(t)
        BY <1>0, <1>b, <3>1, <3>2 DEF ShellSlot
      <3>4. Slotted'
        BY <1>0, <1>b, <2>1, <2>2, <3>1, <3>2, <3>3 DEF Slotted
      <3> QED
        BY <1>0, <2>1, <2>2, <2>3, <3>1, <3>4, Numbers DEF Stacks, Exits, LastShell
    <2>6. CASE HaltPage
      <3>1. /\ cpu.pc = "page" /\ cpu'.pc = "resume" /\ esp0' = prev_pid
            /\ UNCHANGED <<pid_counter, saved, procs, curr_process>>
        BY <1>0, <2>6 DEF HaltPage, CpuStates
      <3>2. Slotted'
        BY <1>0, <2>1, <3>1, SlottedFrame DEF Pushed
      <3> QED
        BY <1>0, <2>1, <2>2, <2>3, <3>1, <3>2, Numbers DEF Stacks, Exits, LastShell
    <2>7. CASE HaltResume
      <3>1. /\ cpu.pc = "resume" /\ cpu' = UserMode(saved[pid_counter].proc)
            /\ pid_counter' = LastShell
            /\ UNCHANGED <<saved, procs, curr_process, esp0>>
        BY <2>3, <2>7 DEF HaltResume, ReturnInto
      <3>2. cpu'.pc = "user" /\ cpu'.stack = 0
        BY <3>1 DEF UserMode
      <3>3. ~Pushed /\ ~Pushed'
        BY <1>0, <3>1, Numbers DEF Pushed, LastShell
      <3>4. Slotted'
        BY <1>0, <2>1, <3>1, <3>3 DEF Slotted, ShellSlot
      <3> QED
        BY <1>0, <2>1, <2>2, <2>3, <3>1, <3>2, <3>4, Numbers DEF Stacks, Exits, LastShell
    <2> QED
      BY <1>6, <2>4, <2>5, <2>6, <2>7
  <1>7. ~StackFault
    <2>1. cpu.pc = "user" => esp0 \in Pids
      BY <1>0, Numbers DEF Stacks
    <2> QED
      BY <2>1 DEF StackFault
  <1>8. CASE PitStartShell
    <2>1. PICK pid \in Pids : IsFree(pid) /\ Launch(pid, "shell", "pit", pit_count)
      BY <1>8 DEF PitStartShell
    <2>2. /\ pit_count \in Terminals /\ pit_count' = pit_count + 1 /\ ~Booted /\ ~Booted'
          /\ restarts' = restarts
      BY <1>0, <1>8, <1>b, ProcessesAssumption DEF PitStartShell, Booted, Terminals
    <2>3. pid_counter' = pid /\ esp0' = pid /\ cpu'.pc = "user" /\ cpu'.stack = 0
      BY <1>0, <2>1, LaunchEffect, LaunchSaves
    <2>4. pid = pit_count
      BY <1>0, <1>b, <2>2, <2>3 DEF IInv, BootOrder
    <2>5. pid_counter <= LastShell /\ pid <= LastShell
      BY <1>0, <2>2, <2>4, Numbers, ProgramsAfterBoot
    <2>6. ~Pushed /\ ~Pushed'
      BY <1>0, <2>3, <2>5, Numbers DEF Pushed, LastShell
    <2>7. curr_process[pit_count] = 0
      BY <1>0, <1>b, <2>2 DEF Slotted
    <2>8. /\ curr_process' = [curr_process EXCEPT ![pit_count] = 1]
          /\ procs'[pit_count][1] = pid
          /\ \A u \in Terminals : u # pit_count => procs'[u] = procs[u]
      <3>1. curr_process[pit_count] + 1 = 1 /\ 1 < PCB_SIZE
        BY <2>7, ProcessesAssumption
      <3> QED
        BY <1>0, <2>1, <2>2, <3>1, PushWrites DEF Launch
    <2>9. Slotted'
      <3>1. \A t \in Terminals : ShellSlot(t) = curr_process[t] /\ ShellSlot(t)' = curr_process'[t]
        BY <2>6 DEF ShellSlot
      <3>2. ASSUME NEW t \in Terminals, t < pit_count'
            PROVE  curr_process'[t] \in 1 .. restarts' + 1 /\ procs'[t][curr_process'[t]] \in Terminals
        <4>1. CASE t = pit_count
          BY <1>0, <1>b, <2>2, <2>4, <2>8, <4>1
        <4>2. CASE t # pit_count
          <5>1. t < pit_count
            BY <1>b, <2>2, <3>2, <4>2
          <5>2. curr_process[t] \in 1 .. restarts + 1 /\ procs[t][curr_process[t]] \in Terminals
            BY <1>0, <3>1, <5>1 DEF Slotted
          <5> QED
            BY <1>b, <2>2, <2>8, <4>2, <5>2
        <4> QED
          BY <4>1, <4>2
      <3>3. \A t \in Terminals : t >= pit_count' => curr_process'[t] = 0
        BY <1>0, <1>b, <2>2, <2>8 DEF Slotted
      <3> QED
        BY <2>6, <3>1, <3>2, <3>3 DEF Slotted
    <2>10. Stacks'
      BY <1>0, <2>2, <2>3, <2>4, <2>5, Numbers DEF Stacks, LastShell
    <2> QED
      BY <1>0, <2>2, <2>3, <2>9, <2>10 DEF Exits
  <1>9. CASE PitReturnToFirst \/ PitTick
    <2>1. /\ UNCHANGED <<pid_counter, procs, curr_process, restarts, cpu>>
          /\ saved' = FramesAfterEntry
      BY <1>9 DEF PitReturnToFirst, PitTick
    <2>2. CASE PitReturnToFirst
      <3>1. /\ pit_count = NUMBER_OF_TERMINALS /\ pit_count' = pit_count + 1
            /\ esp0' = procs[0][curr_process[0]]
        BY <2>2 DEF PitReturnToFirst, SetTss
      <3>2. pid_counter = LastShell
        BY <1>0, <3>1, ProcessesAssumption DEF IInv, BootOrder, Booted, LastShell
      <3>3. ~Pushed /\ ~Pushed'
        BY <1>0, <2>1, <3>2, Numbers DEF Pushed, LastShell
      <3>4. \A t \in Terminals : t < pit_count /\ t < pit_count'
        BY <3>1, ProcessesAssumption DEF Terminals
      <3>5. Slotted'
        <4>1. \A t \in Terminals : ShellSlot(t)' = ShellSlot(t) /\ procs'[t] = procs[t]
          BY <2>1, <3>3 DEF ShellSlot
        <4>2. \A t \in Terminals : ~(t >= pit_count')
          BY <1>b, <3>1, <3>4
        <4> QED
          BY <1>0, <2>1, <3>3, <3>4, <4>1, <4>2 DEF Slotted
      <3>6. esp0' \in Terminals
        BY <1>0, <3>1, <3>3, <3>4 DEF Slotted, ShellSlot
      <3>7. Stacks'
        BY <1>0, <2>1, <3>2, <3>6, Numbers DEF Stacks, LastShell
      <3> QED
        BY <1>0, <2>1, <3>5, <3>7 DEF Exits
    <2>3. CASE PitTick
      <3>1. Booted /\ UNCHANGED <<curr_terminal, pit_count>> /\ esp0' = Top
        BY <2>3 DEF PitTick, SetTss, Top
      <3>2. Slotted'
        BY <1>0, <2>1, <3>1, SlottedFrame DEF Pushed
      <3>3. pid_counter > LastShell /\ cpu.pc \in {"user", "syscall", "release", "slot"} =>
                esp0' = pid_counter
        BY <1>0, <3>1 DEF Slotted, Pushed
      <3>4. pid_counter <= LastShell \/ cpu.pc = "resume" => esp0' \in Terminals
        <4>1. ~Pushed => Top \in Terminals
          BY <1>0, <1>b, <3>1 DEF Slotted, ShellSlot, Top
        <4>2. pid_counter <= LastShell \/ cpu.pc = "resume" => ~Pushed
          BY <1>0, Numbers DEF Pushed
        <4> QED
          BY <3>1, <4>1, <4>2
      <3>5. pid_counter > LastShell =>
                saved'[pid_counter].intact /\ saved'[pid_counter].stack \in Terminals
        BY <1>0, <2>1, <3>1, ActivationKept
      <3>6. Stacks'
        BY <1>0, <2>1, <3>1, <3>3, <3>4, <3>5 DEF Stacks
      <3> QED
        BY <1>0, <2>1, <3>2, <3>6 DEF Exits
    <2> QED
      BY <1>9, <2>2, <2>3
  <1>10. ASSUME NEW target \in Terminals, SwitchTerminal(target)
         PROVE  Slotted' /\ Stacks' /\ Exits'
    <2>1. /\ UNCHANGED <<pid_counter, procs, curr_process, restarts, cpu, esp0, pit_count>>
          /\ saved' = FramesAfterEntry /\ image[user_page] = "shell"
      BY <1>10 DEF SwitchTerminal, OrderedUse
    <2>2. ~Pushed
      <3>1. SUFFICES ASSUME Pushed PROVE FALSE
        OBVIOUS
      <3>2. cpu.pc \in {"user", "syscall", "release", "slot", "pop"} /\ pid_counter > LastShell
        BY <3>1 DEF Pushed
      <3>3. Booted
        BY <1>0, <3>2, ProgramsAfterBoot
      <3>4. image[pid_counter] = "leaf" /\ user_page = pid_counter
        BY <1>0, <3>2, <3>3 DEF LeafInv, OneProgram, Coherent
      <3> QED
        BY <2>1, <3>4
    <2>3. Slotted'
      BY <1>0, <2>1, <2>2, SlottedFrame DEF Pushed
    <2>4. Stacks'
      BY <1>0, <2>1, ActivationKept DEF Stacks, Booted
    <2> QED
      BY <1>0, <2>1, <2>3, <2>4 DEF Exits
  <1>11. CASE HaltCloseRtc
    <2>1. /\ cpu'.pc = cpu.pc /\ cpu'.stack = cpu.stack
          /\ UNCHANGED <<pid_counter, saved, procs, curr_process, curr_terminal, pit_count,
                         restarts, esp0>>
      BY <1>0, <1>11 DEF HaltCloseRtc, CpuStates
    <2>2. Slotted'
      BY <1>0, <2>1, SlottedFrame DEF Pushed
    <2>3. Stacks'
      BY <1>0, <2>1 DEF Stacks, Booted
    <2> QED
      BY <1>0, <2>1, <2>2, <2>3 DEF Exits
  <1>12. CASE UNCHANGED vars
    BY <1>0, <1>12, SlottedFrame DEF vars, Pushed, Stacks, Exits, Booted
  <1> QED
    BY <1>1, <1>2, <1>3, <1>4, <1>5, <1>6, <1>7, <1>8, <1>9, <1>10, <1>11, <1>12
       DEF Next, SysExecute, SysHalt, Interrupt

\* Under an ordered use the slots of the terminals agree with the running process, so
\* a tick leaves a program on its own kernel stack.
THEOREM TicksKeepStack ==
    ASSUME OrderedUse
    PROVE  Spec => []TickKeepsOwnStack
  <1>1. Init => StackInv
    BY InitStack
  <1>2. StackInv /\ [Next]_vars => StackInv'
    BY StackStep
  <1>3. StackInv => TickKeepsOwnStack
    <2> SUFFICES ASSUME StackInv, cpu.pc = "user", Booted, pid_counter >= NUMBER_OF_TERMINALS
                 PROVE  esp0 = pid_counter /\ Top = pid_counter
      BY DEF TickKeepsOwnStack, Top
    <2>1. TypeOK /\ pid_counter \in Pids
      BY DEF StackInv, LeafInv, IInv, TypeOK
    <2>2. pid_counter > LastShell
      BY <2>1, Numbers
    <2> QED
      BY <2>2 DEF StackInv, Stacks, Slotted, Pushed
  <1> QED
    BY <1>1, <1>2, <1>3, PTL DEF Spec

\* Under an ordered use no entry to the kernel destroys the activation that sys_halt
\* returns into, and none uses an address outside the kernel stacks.
THEOREM ActivationsAreSafe ==
    ASSUME OrderedUse
    PROVE  Spec => []ParentActivationSafe
  <1>1. Init => StackInv
    BY InitStack
  <1>2. StackInv /\ [Next]_vars => StackInv'
    BY StackStep
  <1>3. StackInv => ParentActivationSafe
    <2> SUFFICES ASSUME StackInv
                 PROVE  /\ cpu.pc # "lost"
                        /\ Executing /\ pid_counter >= NUMBER_OF_TERMINALS =>
                              saved[pid_counter].intact
      BY DEF ParentActivationSafe
    <2>1. TypeOK /\ pid_counter \in Pids
      BY DEF StackInv, LeafInv, IInv, TypeOK
    <2>2. pid_counter > LastShell => Booted
      BY ProgramsAfterBoot DEF StackInv, LeafInv
    <2> QED
      BY <2>1, <2>2, Numbers DEF StackInv, Stacks
  <1> QED
    BY <1>1, <1>2, <1>3, PTL DEF Spec
=============================================================================
