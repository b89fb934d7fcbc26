-------------------------- MODULE ProcessesProofs --------------------------
(***************************************************************************)
(* Proofs about Processes, for every number of PCBs and terminals and      *)
(* every choice of commands, switches and exceptions.                      *)
(***************************************************************************)
EXTENDS Processes, TLAPS

(***************************************************************************)
(* The inductive invariant behind the survival of the base shells.  During *)
(* the boot PCBs are handed out in order; afterwards pid_counter never     *)
(* falls below the last base shell, because sys_halt takes it from         *)
(* prev_pid only for a PCB above the base shells, and prev_pid was then    *)
(* last written by a process that had itself been reached after the boot.  *)
(***************************************************************************)
LastShell == NUMBER_OF_TERMINALS - 1

BootOrder ==
    ~Booted =>
        /\ \A p \in Pids : in_use[p] <=> p < pit_count
        /\ pid_counter = IF pit_count = 0 THEN 0 ELSE pit_count - 1
        /\ prev_pid < NUMBER_OF_TERMINALS
        /\ \A t \in Terminals : t < pit_count => image[t] = "shell"
        /\ cpu.pc \notin HaltPlaces

ShellsKept ==
    Booted =>
        /\ pid_counter >= LastShell
        /\ \A t \in Terminals : image[t] = "shell"
        /\ \A t \in Terminals : in_use[t] \/ (t = LastShell /\ cpu.pc = "relaunch")
        /\ cpu.pc = "relaunch" => pid_counter = LastShell /\ ~in_use[LastShell]

ReturnChain ==
    Booted =>
        /\ pid_counter > LastShell =>
              prev_pid >= LastShell /\ saved[pid_counter].from = "syscall"
        /\ prev_pid > LastShell => saved[prev_pid].from = "syscall"
        /\ cpu.pc \in {"slot", "pop", "page", "resume"} => pid_counter > LastShell

IInv == TypeOK /\ BootOrder /\ ShellsKept /\ ReturnChain

-----------------------------------------------------------------------------
\* The memory after an entry to the kernel still has the shape of saved, and
\* only the intact fields differ.
LEMMA EntryKeepsFrames ==
    ASSUME TypeOK
    PROVE  /\ FramesAfterEntry \in [Pids -> Frames]
           /\ \A p \in Pids : FramesAfterEntry[p].from = saved[p].from
  <1>1. ASSUME NEW p \in Pids
        PROVE  /\ FramesAfterEntry[p] \in Frames
               /\ FramesAfterEntry[p].from = saved[p].from
    <2>1. saved[p] \in Frames
      BY DEF TypeOK
    <2>2. [saved[p] EXCEPT !.intact = FALSE] \in Frames
      BY <2>1 DEF Frames
    <2>3. [saved[p] EXCEPT !.intact = FALSE].from = saved[p].from
      BY <2>1 DEF Frames
    <2>4. FramesAfterEntry[p] \in {saved[p], [saved[p] EXCEPT !.intact = FALSE]}
      BY DEF FramesAfterEntry
    <2> QED
      BY <2>1, <2>2, <2>3, <2>4
  <1>2. FramesAfterEntry = [p \in Pids |-> FramesAfterEntry[p]]
    BY DEF FramesAfterEntry
  <1> QED
    BY <1>1, <1>2

\* The kernel stack in use after an entry is one of the kernel stacks.
LEMMA EntryStack ==
    ASSUME TypeOK, CanEnter
    PROVE  StackOnEntry \in Pids
  BY DEF TypeOK, CanEnter, StackOnEntry, CpuStates

\* terminal_t.procs and curr_process stay in their types when a pid is pushed,
\* also where the write lands on curr_process.
LEMMA PushSlotType ==
    ASSUME TypeOK, NEW t \in Terminals, NEW pid \in Pids, PushSlot(t, pid)
    PROVE  /\ procs' \in [Terminals -> [Slots -> Pids \cup {NoPid}]]
           /\ curr_process' \in [Terminals -> Slots]
  <1> DEFINE i == curr_process[t] + 1
  <1>1. /\ procs \in [Terminals -> [Slots -> Pids \cup {NoPid}]]
        /\ curr_process \in [Terminals -> Slots]
    BY DEF TypeOK
  <1>2. curr_process[t] \in Slots /\ Slots = -1 .. PCB_SIZE - 1 /\ PCB_SIZE \in Nat
    BY <1>1, ProcessesAssumption DEF Slots, MinSlot
  <1>3. CASE i = PCB_SIZE
    <2>1. pid \in Slots
      BY <1>2 DEF Pids
    <2>2. curr_process' = [curr_process EXCEPT ![t] = pid] /\ procs' = procs
      BY <1>3 DEF PushSlot
    <2> QED
      BY <1>1, <2>1, <2>2
  <1>4. CASE i # PCB_SIZE
    <2>1. i \in Slots
      BY <1>2, <1>4
    <2>2. /\ curr_process' = [curr_process EXCEPT ![t] = i]
          /\ procs' = [procs EXCEPT ![t] = [procs[t] EXCEPT ![i] = pid]]
      BY <1>4 DEF PushSlot
    <2>3. [procs[t] EXCEPT ![i] = pid] \in [Slots -> Pids \cup {NoPid}]
      BY <1>1
    <2> QED
      BY <1>1, <2>1, <2>2, <2>3
  <1> QED
    BY <1>3, <1>4

\* A successful launch leaves everything it writes in its type.
LEMMA LaunchType ==
    ASSUME TypeOK, CanEnter, NEW pid \in Pids, NEW program \in Programs,
           NEW from \in {"pit", "syscall", "halt"}, NEW t \in Terminals,
           Launch(pid, program, from, t)
    PROVE  /\ prev_pid' \in Pids /\ pid_counter' \in Pids
           /\ in_use' \in [Pids -> BOOLEAN]
           /\ user_page' \in Pids /\ esp0' \in Pids \cup {NoPid}
           /\ image' \in [Pids -> Programs \cup {NoProgram}]
           /\ saved' \in [Pids -> Frames]
           /\ procs' \in [Terminals -> [Slots -> Pids \cup {NoPid}]]
           /\ curr_process' \in [Terminals -> Slots]
           /\ cpu' \in CpuStates
  <1> DEFINE frame == [proc |-> cpu.proc, stack |-> StackOnEntry,
                       from |-> from, intact |-> TRUE]
  <1>1. PushSlot(t, pid)
    BY DEF Launch
  <1>2. frame \in Frames
    <2>1. cpu.proc \in Pids \cup {NoPid}
      BY DEF TypeOK, CpuStates
    <2> QED
      BY <2>1, EntryStack DEF Frames
  <1>3. saved' \in [Pids -> Frames]
    <2>1. saved' = [FramesAfterEntry EXCEPT ![pid] = frame]
      BY DEF Launch
    <2> HIDE DEF frame
    <2> QED
      BY <1>2, <2>1, EntryKeepsFrames
  <1>4. cpu' \in CpuStates
    <2>1. 0 \in Pids
      BY ProcessesAssumption DEF Pids
    <2> QED
      BY <2>1 DEF Launch, UserMode, CpuStates, Places
  <1>5. /\ prev_pid' \in Pids /\ pid_counter' \in Pids
        /\ user_page' \in Pids /\ esp0' \in Pids \cup {NoPid}
    BY DEF Launch, TypeOK
  <1>6. /\ in_use' \in [Pids -> BOOLEAN]
        /\ image' \in [Pids -> Programs \cup {NoProgram}]
    BY DEF Launch, TypeOK
  <1> QED
    BY <1>1, <1>3, <1>4, <1>5, <1>6, PushSlotType

\* Init is in the types.
LEMMA InitType == Init => TypeOK
  <1> SUFFICES ASSUME Init PROVE TypeOK
    OBVIOUS
  <1>1. 0 \in Pids /\ 0 \in Terminals /\ 0 \in Slots
    BY ProcessesAssumption DEF Pids, Terminals, Slots, MinSlot
  <1>2. 0 \in 0 .. NUMBER_OF_TERMINALS + 1
    BY ProcessesAssumption
  <1>3. NoFrame \in Frames
    BY <1>1 DEF NoFrame, Frames
  <1>4. cpu \in CpuStates
    BY <1>1 DEF Init, CpuStates, Places
  <1> QED
    BY <1>1, <1>2, <1>3, <1>4 DEF Init, TypeOK

\* The registers after a return to user mode, after a change of place, and
\* after the CPU is lost.
LEMMA CpuType ==
    ASSUME TypeOK
    PROVE  /\ UserMode(cpu.proc) \in CpuStates
           /\ Lost \in CpuStates
           /\ \A place \in Places : [cpu EXCEPT !.pc = place] \in CpuStates
  <1>1. cpu \in CpuStates /\ 0 \in Pids
    BY ProcessesAssumption DEF TypeOK, Pids
  <1>2. UserMode(cpu.proc) \in CpuStates
    BY <1>1 DEF UserMode, CpuStates, Places
  <1>3. Lost \in CpuStates
    BY <1>1 DEF Lost, CpuStates, Places
  <1>4. ASSUME NEW place \in Places
        PROVE  [cpu EXCEPT !.pc = place] \in CpuStates
    BY <1>1 DEF CpuStates
  <1> QED
    BY <1>2, <1>3, <1>4

\* sys_halt returns into something of the type of a CPU state.
LEMMA ReturnType ==
    ASSUME TypeOK, NEW frame \in Frames
    PROVE  ReturnInto(frame) \in CpuStates
  <1>1. frame.proc \in Pids \cup {NoPid} /\ frame.stack \in Pids
    BY DEF Frames
  <1>2. cpu \in CpuStates /\ 0 \in Pids
    BY ProcessesAssumption DEF TypeOK, Pids
  <1>3. UserMode(frame.proc) \in CpuStates
    BY <1>1, <1>2 DEF UserMode, CpuStates, Places
  <1>4. [cpu EXCEPT !.proc = frame.proc, !.stack = frame.stack, !.pc = "slot"] \in CpuStates
    BY <1>1, <1>2 DEF CpuStates, Places, HaltPlaces
  <1> QED
    BY <1>3, <1>4, CpuType DEF ReturnInto

\* Every step of the kernel keeps the types.
LEMMA TypeStep ==
    ASSUME TypeOK, [Next]_vars
    PROVE  TypeOK'
  <1> USE DEF table, memory, terminal, screen
  <1>0. /\ cpu \in CpuStates /\ curr_terminal \in Terminals
        /\ saved \in [Pids -> Frames] /\ pid_counter \in Pids
    BY DEF TypeOK, bounds
  <1>1. ASSUME NEW command \in Commands, ExecuteProgram(command)
        PROVE  TypeOK'
    <2>1. PICK pid \in Pids : Launch(pid, command, "syscall", curr_terminal)
      BY <1>1 DEF ExecuteProgram
    <2>2. command \in Programs /\ CanEnter
      BY <1>1 DEF ExecuteProgram, CanEnter
    <2> QED
      BY <1>0, <1>1, <2>1, <2>2, LaunchType DEF ExecuteProgram, TypeOK, bounds
  <1>2. ASSUME NEW command \in Commands, ExecuteRefused(command)
        PROVE  TypeOK'
    BY <1>2, CpuType DEF ExecuteRefused, Refuse, TypeOK, bounds
  <1>3. CASE ExecuteFull
    BY <1>3, CpuType DEF ExecuteFull, TypeOK, bounds
  <1>4. CASE Halt
    BY <1>4, CpuType DEF Halt, TypeOK, bounds, Places, HaltPlaces
  <1>5. CASE Exception
    <2>1. [cpu EXCEPT !.stack = StackOnEntry, !.pc = "release", !.intr = FALSE] \in CpuStates
      BY <1>0, <1>5, EntryStack DEF Exception, CpuStates, Places, HaltPlaces
    <2> QED
      BY <1>5, <2>1, EntryKeepsFrames DEF Exception, TypeOK, bounds
  <1>6. CASE HaltRelease
    <2>1. cpu' \in CpuStates
      BY <1>6, CpuType DEF HaltRelease, Places, HaltPlaces
    <2> QED
      BY <1>6, <2>1 DEF HaltRelease, TypeOK, bounds
  <1>7. CASE HaltRelaunch
    <2>1. PICK pid \in Pids : Launch(pid, "shell", "halt", curr_terminal)
      BY <1>7 DEF HaltRelaunch
    <2>2. "shell" \in Programs /\ CanEnter
      BY <1>7 DEF HaltRelaunch, CanEnter, Programs
    <2> QED
      BY <1>0, <1>7, <2>1, <2>2, LaunchType DEF HaltRelaunch, TypeOK, bounds
  <1>8. CASE HaltSlot
    <2>1. procs' \in [Terminals -> [Slots -> Pids \cup {NoPid}]]
      <3> DEFINE new == [procs[curr_terminal] EXCEPT ![curr_process[curr_terminal]] = NoPid]
      <3>1. new \in [Slots -> Pids \cup {NoPid}]
        BY <1>0 DEF TypeOK, bounds
      <3>2. procs' = [procs EXCEPT ![curr_terminal] = new]
        BY <1>8 DEF HaltSlot
      <3> QED
        BY <3>1, <3>2 DEF TypeOK, bounds
    <2> QED
      BY <1>8, <2>1, CpuType DEF HaltSlot, TypeOK, bounds, Places, HaltPlaces
  <1>9. CASE HaltPop
    <2>1. curr_process[curr_terminal] - 1 \in Slots
      BY <1>0, <1>9, ProcessesAssumption DEF HaltPop, TypeOK, Slots, MinSlot
    <2> QED
      BY <1>9, <2>1, CpuType DEF HaltPop, PopSlot, TypeOK, bounds, Places, HaltPlaces
  <1>10. CASE HaltPage
    BY <1>10, CpuType DEF HaltPage, TypeOK, bounds, Places, HaltPlaces
  <1>11. CASE HaltResume
    <2>1. cpu' \in CpuStates
      BY <1>0, <1>11, ReturnType DEF HaltResume
    <2> QED
      BY <1>11, <2>1 DEF HaltResume, TypeOK, bounds
  <1>12. CASE Trap
    <2>1. [cpu EXCEPT !.stack = esp0, !.pc = "syscall"] \in CpuStates
      BY <1>0, <1>12 DEF Trap, CanEnter, CpuStates, Places
    <2> QED
      BY <1>12, <2>1, EntryKeepsFrames DEF Trap, TypeOK, bounds
  <1>13. CASE SyscallReturn
    BY <1>13, CpuType DEF SyscallReturn, TypeOK, bounds
  <1>14. CASE PitStartShell
    <2>1. pit_count \in Terminals /\ pit_count + 1 \in 0 .. NUMBER_OF_TERMINALS + 1
      BY <1>14, ProcessesAssumption DEF PitStartShell, TypeOK, Terminals
    <2>2. PICK pid \in Pids : Launch(pid, "shell", "pit", pit_count)
      BY <1>14 DEF PitStartShell
    <2>3. "shell" \in Programs /\ CanEnter
      BY <1>14 DEF PitStartShell, Programs
    <2> QED
      BY <1>14, <2>1, <2>2, <2>3, LaunchType DEF PitStartShell, TypeOK, bounds
  <1>15. CASE PitReturnToFirst
    <2>1. /\ 0 \in Terminals
          /\ NUMBER_OF_TERMINALS + 1 \in 0 .. NUMBER_OF_TERMINALS + 1
      BY ProcessesAssumption DEF Terminals
    <2>2. esp0' \in Pids \cup {NoPid}
      BY <1>15, <2>1 DEF PitReturnToFirst, SetTss, TypeOK
    <2> QED
      BY <1>15, <2>1, <2>2, EntryKeepsFrames DEF PitReturnToFirst, TypeOK, bounds
  <1>16. CASE PitTick
    <2>1. esp0' \in Pids \cup {NoPid}
      BY <1>0, <1>16 DEF PitTick, SetTss, TypeOK
    <2> QED
      BY <1>16, <2>1, EntryKeepsFrames DEF PitTick, TypeOK, bounds
  <1>17. ASSUME NEW target \in Terminals, SwitchTerminal(target)
         PROVE  TypeOK'
    BY <1>17, EntryKeepsFrames DEF SwitchTerminal, TypeOK, bounds
  <1>18. CASE StackFault
    BY <1>18, CpuType DEF StackFault, TypeOK, bounds
  <1>19. CASE HaltCloseRtc
    BY <1>19, CpuType DEF HaltCloseRtc, TypeOK, bounds, CpuStates
  <1>20. CASE UNCHANGED vars
    BY <1>20 DEF vars, TypeOK, bounds
  <1> QED
    BY <1>1, <1>2, <1>3, <1>4, <1>5, <1>6, <1>7, <1>8, <1>9, <1>10, <1>11, <1>12,
       <1>13, <1>14, <1>15, <1>16, <1>17, <1>18, <1>19, <1>20
       DEF Next, SysExecute, SysHalt, Interrupt

\* Type correctness of the process tables, whatever the user does.
THEOREM TypeCorrect == Spec => []TypeOK
  <1>1. Init => TypeOK
    BY InitType
  <1>2. TypeOK /\ [Next]_vars => TypeOK'
    BY TypeStep
  <1> QED
    BY <1>1, <1>2, PTL DEF Spec

-----------------------------------------------------------------------------
\* What a launch does to the tables the invariant is about.
LEMMA LaunchEffect ==
    ASSUME TypeOK, NEW pid \in Pids, NEW program, NEW from, NEW t,
           Launch(pid, program, from, t)
    PROVE  /\ pid_counter' = pid /\ prev_pid' = pid_counter
           /\ in_use'[pid] /\ image'[pid] = program
           /\ saved'[pid].from = from
           /\ cpu'.pc = "user"
           /\ \A p \in Pids : p # pid =>
                 /\ in_use'[p] = in_use[p]
                 /\ image'[p] = image[p]
                 /\ saved'[p].from = saved[p].from
  <1> DEFINE frame == [proc |-> cpu.proc, stack |-> StackOnEntry,
                       from |-> from, intact |-> TRUE]
  <1>1. frame.from = from
    OBVIOUS
  <1>2. saved' = [FramesAfterEntry EXCEPT ![pid] = frame]
    BY DEF Launch
  <1>3. /\ saved'[pid].from = from
        /\ \A p \in Pids : p # pid => saved'[p].from = saved[p].from
    <2> HIDE DEF frame
    <2> QED
      BY <1>1, <1>2, EntryKeepsFrames
  <1>4. cpu'.pc = "user"
    BY DEF Launch, UserMode
  <1>5. /\ in_use'[pid] /\ image'[pid] = program
        /\ \A p \in Pids : p # pid => in_use'[p] = in_use[p] /\ image'[p] = image[p]
    BY DEF Launch, TypeOK
  <1> QED
    BY <1>3, <1>4, <1>5 DEF Launch

\* The initial state satisfies the invariant.
LEMMA InitInv == Init => IInv
  BY InitType, ProcessesAssumption
     DEF Init, IInv, BootOrder, ShellsKept, ReturnChain, Booted, HaltPlaces, Pids, Terminals

\* A step that leaves the tables alone and does not move the CPU to another
\* place of sys_halt keeps the invariant.
LEMMA Frame ==
    ASSUME IInv, TypeOK',
           UNCHANGED <<in_use, pid_counter, prev_pid, image, pit_count>>,
           \A p \in Pids : saved'[p].from = saved[p].from,
           \/ cpu'.pc = cpu.pc
           \/ cpu'.pc \in {"user", "syscall", "lost"} /\ cpu.pc # "relaunch"
    PROVE  IInv'
  <1>1. pid_counter \in Pids /\ prev_pid \in Pids
    BY DEF IInv, TypeOK
  <1> QED
    BY <1>1 DEF IInv, BootOrder, ShellsKept, ReturnChain, Booted, HaltPlaces

\* Every step keeps the invariant.
LEMMA InvStep ==
    ASSUME IInv, [Next]_vars
    PROVE  IInv'
  <1> USE DEF table, memory, terminal, screen
  <1> DEFINE N == NUMBER_OF_TERMINALS
  <1>0. /\ TypeOK /\ TypeOK'
        /\ N \in Nat /\ N > 1 /\ PCB_SIZE \in Nat /\ N < PCB_SIZE
        /\ pid_counter \in Pids /\ prev_pid \in Pids
        /\ Terminals \subseteq Pids
        /\ in_use \in [Pids -> BOOLEAN]
        /\ pit_count \in 0 .. N + 1
    <2>1. TypeOK /\ TypeOK'
      BY TypeStep DEF IInv
    <2>2. N \in Nat /\ N > 1 /\ PCB_SIZE \in Nat /\ N < PCB_SIZE
      BY ONLY ProcessesAssumption
    <2>3. /\ pid_counter \in Pids /\ prev_pid \in Pids
          /\ in_use \in [Pids -> BOOLEAN] /\ pit_count \in 0 .. N + 1
      BY ONLY <2>1 DEF TypeOK
    <2>4. Terminals \subseteq Pids
      BY ONLY ProcessesAssumption DEF Pids, Terminals
    <2> QED
      BY ONLY <2>1, <2>2, <2>3, <2>4
  <1>1. ASSUME NEW command \in Commands, ExecuteProgram(command)
        PROVE  IInv'
    <2>1. PICK pid \in Pids : IsFree(pid) /\ Launch(pid, command, "syscall", curr_terminal)
      BY <1>1 DEF ExecuteProgram
    <2>2. Booted /\ Booted' /\ pid_counter >= LastShell /\ cpu.pc = "syscall"
      BY <1>1 DEF ExecuteProgram, IInv, ShellsKept, Booted
    <2>3. pid \notin Terminals
      BY <2>1, <2>2 DEF IInv, ShellsKept, IsFree
    <2>4. pid > LastShell
      BY <1>0, <2>3 DEF Terminals, Pids, LastShell
    <2>5. /\ pid_counter' = pid /\ prev_pid' = pid_counter /\ cpu'.pc = "user"
          /\ saved'[pid].from = "syscall"
          /\ \A p \in Pids : p # pid =>
                in_use'[p] = in_use[p] /\ image'[p] = image[p] /\ saved'[p].from = saved[p].from
      BY <1>0, <2>1, LaunchEffect
    <2>6. ShellsKept'
      BY <1>0, <2>2, <2>3, <2>4, <2>5 DEF IInv, ShellsKept, LastShell, Pids
    <2>7. ReturnChain'
      BY <1>0, <2>2, <2>4, <2>5 DEF IInv, ReturnChain, LastShell, Pids
    <2> QED
      BY <1>0, <2>2, <2>6, <2>7 DEF IInv, BootOrder
  <1>2. ASSUME NEW command \in Commands, ExecuteRefused(command)
        PROVE  IInv'
    <2>1. PICK pid \in Pids : IsFree(pid) /\ Refuse(pid)
      BY <1>2 DEF ExecuteRefused
    <2>2. in_use' = in_use /\ pid_counter' = pid_counter
      BY <1>0, <2>1 DEF Refuse, IsFree
    <2>3. Booted /\ Booted' /\ prev_pid' = pid_counter /\ cpu'.pc = "user"
          /\ cpu.pc = "syscall" /\ image' = image /\ saved' = saved
      BY <1>2 DEF ExecuteRefused, UserMode, Booted
    <2> QED
      BY <1>0, <2>2, <2>3
         DEF IInv, BootOrder, ShellsKept, ReturnChain, LastShell, Pids
  <1>3. CASE ExecuteFull
    <2>1. Booted /\ Booted' /\ prev_pid' = pid_counter /\ cpu'.pc = "user"
          /\ cpu.pc = "syscall" /\ image' = image /\ saved' = saved
          /\ in_use' = in_use /\ pid_counter' = pid_counter
      BY <1>3 DEF ExecuteFull, UserMode, Booted
    <2> QED
      BY <1>0, <2>1
         DEF IInv, BootOrder, ShellsKept, ReturnChain, LastShell, Pids
  <1>4. CASE Halt
    <2>1. Booted /\ cpu.pc = "syscall" /\ cpu'.pc = "release"
      BY <1>0, <1>4 DEF Halt, TypeOK, CpuStates
    <2> QED
      BY <1>0, <1>4, <2>1
         DEF Halt, IInv, BootOrder, ShellsKept, ReturnChain, Booted
  <1>5. CASE Exception
    <2>1. /\ Booted /\ cpu.pc \in {"user", "syscall"} /\ cpu'.pc = "release"
          /\ saved' = FramesAfterEntry
      BY <1>0, <1>5 DEF Exception, TypeOK, CpuStates
    <2>2. \A p \in Pids : saved'[p].from = saved[p].from
      BY <1>0, <2>1, EntryKeepsFrames
    <2> QED
      BY <1>0, <1>5, <2>1, <2>2
         DEF Exception, IInv, BootOrder, ShellsKept, ReturnChain, Booted
  <1>6. CASE HaltRelease
    <2>1. Booted /\ cpu.pc = "release"
      BY <1>6 DEF HaltRelease, IInv, BootOrder, HaltPlaces
    <2>2. /\ pid_counter >= LastShell
          /\ \A t \in Terminals : in_use[t] /\ image[t] = "shell"
      BY <2>1 DEF IInv, ShellsKept
    <2>3. in_use' = [in_use EXCEPT ![pid_counter] = FALSE]
      BY <1>6 DEF HaltRelease
    <2>4. /\ Booted' /\ pid_counter' = pid_counter /\ prev_pid' = prev_pid
          /\ image' = image /\ saved' = saved
      BY <1>6, <2>1 DEF HaltRelease, Booted
    <2>5. CASE pid_counter = LastShell
      <3>1. IsBaseShell(pid_counter)
        BY <1>0, <2>5 DEF IsBaseShell, LastShell
      <3>2. cpu'.pc = "relaunch"
        BY <1>0, <1>6, <3>1 DEF HaltRelease, Relaunches, TypeOK, CpuStates
      <3>3. LastShell \in Terminals /\ LastShell \in Pids
        BY <1>0 DEF LastShell, Terminals, Pids
      <3>4. \A t \in Terminals : in_use'[t] \/ t = LastShell
        BY <1>0, <2>2, <2>3, <2>5
      <3>5. ~in_use'[LastShell]
        BY <1>0, <2>3, <2>5, <3>3
      <3>6. ShellsKept'
        BY <2>2, <2>4, <2>5, <3>2, <3>4, <3>5 DEF ShellsKept, LastShell
      <3>7. ReturnChain'
        BY <2>1, <2>4, <3>2 DEF IInv, ReturnChain
      <3> QED
        BY <1>0, <2>4, <3>6, <3>7 DEF IInv, BootOrder
    <2>6. CASE pid_counter > LastShell
      <3>1. ~IsBaseShell(pid_counter) /\ pid_counter \notin Terminals
        BY <1>0, <2>6 DEF IsBaseShell, LastShell, Terminals, Pids
      <3>2. cpu'.pc = "slot"
        BY <1>0, <1>6, <3>1 DEF HaltRelease, Relaunches, TypeOK, CpuStates
      <3>3. \A t \in Terminals : in_use'[t]
        BY <1>0, <2>2, <2>3, <3>1
      <3>4. ShellsKept'
        BY <2>2, <2>4, <3>2, <3>3 DEF ShellsKept, LastShell
      <3>5. ReturnChain'
        BY <2>1, <2>4, <2>6, <3>2 DEF IInv, ReturnChain, LastShell
      <3> QED
        BY <1>0, <2>4, <3>4, <3>5 DEF IInv, BootOrder
    <2> QED
      BY <1>0, <2>2, <2>5, <2>6 DEF LastShell, Pids
  <1>7. CASE HaltRelaunch
    <2>1. PICK pid \in Pids : IsFree(pid) /\ Launch(pid, "shell", "halt", curr_terminal)
      BY <1>7 DEF HaltRelaunch
    <2>2. Booted /\ Booted' /\ cpu.pc = "relaunch"
      BY <1>7 DEF HaltRelaunch, IInv, BootOrder, HaltPlaces, Booted
    <2>3. /\ pid_counter = LastShell /\ ~in_use[LastShell]
          /\ \A t \in Terminals : (in_use[t] \/ t = LastShell) /\ image[t] = "shell"
      BY <2>2 DEF IInv, ShellsKept
    <2>4. pid = LastShell
      <3>1. pid \in Terminals
        BY <1>0, <2>1, <2>3 DEF IsFree, LastShell, Pids, Terminals
      <3> QED
        BY <2>1, <2>3, <3>1 DEF IsFree
    <2>5. /\ pid_counter' = pid /\ prev_pid' = pid_counter /\ cpu'.pc = "user"
          /\ in_use'[pid] /\ image'[pid] = "shell"
          /\ \A p \in Pids : p # pid =>
                in_use'[p] = in_use[p] /\ image'[p] = image[p] /\ saved'[p].from = saved[p].from
      BY <1>0, <2>1, LaunchEffect
    <2>6. ShellsKept'
      BY <1>0, <2>2, <2>3, <2>4, <2>5 DEF ShellsKept, LastShell, Pids
    <2>7. ReturnChain'
      BY <1>0, <2>2, <2>3, <2>4, <2>5 DEF ReturnChain, LastShell, Pids
    <2> QED
      BY <1>0, <2>2, <2>6, <2>7 DEF IInv, BootOrder
  <1>8. CASE HaltSlot \/ HaltPop \/ HaltPage
    <2>1. /\ cpu.pc \in {"slot", "pop", "page"}
          /\ cpu'.pc \in {"pop", "page", "resume"}
          /\ UNCHANGED <<in_use, pid_counter, prev_pid, image, saved, pit_count>>
      BY <1>0, <1>8 DEF HaltSlot, HaltPop, HaltPage, TypeOK, CpuStates
    <2>2. Booted /\ Booted'
      BY <2>1 DEF IInv, BootOrder, HaltPlaces, Booted
    <2> QED
      BY <1>0, <2>1, <2>2 DEF IInv, BootOrder, ShellsKept, ReturnChain
  <1>9. CASE HaltResume
    <2>1. /\ cpu.pc = "resume" /\ pid_counter' = prev_pid
          /\ UNCHANGED <<in_use, prev_pid, image, saved, pit_count>>
          /\ cpu' = ReturnInto(saved[pid_counter])
      BY <1>9 DEF HaltResume
    <2>2. Booted /\ Booted'
      BY <2>1 DEF IInv, BootOrder, HaltPlaces, Booted
    <2>3. /\ pid_counter > LastShell /\ prev_pid >= LastShell
          /\ saved[pid_counter].from = "syscall"
      BY <2>1, <2>2 DEF IInv, ReturnChain
    <2>4. cpu'.pc \in {"user", "lost"}
      BY <1>0, <2>1, <2>3 DEF ReturnInto, UserMode, Lost, TypeOK, CpuStates
    <2>5. ShellsKept'
      BY <2>1, <2>2, <2>3, <2>4 DEF IInv, ShellsKept, LastShell
    <2>6. ReturnChain'
      BY <2>1, <2>2, <2>3, <2>4 DEF IInv, ReturnChain, LastShell
    <2> QED
      BY <1>0, <2>2, <2>5, <2>6 DEF IInv, BootOrder
  <1>10. CASE Trap
    <2>1. /\ cpu.pc = "user" /\ cpu'.pc = "syscall" /\ saved' = FramesAfterEntry
          /\ UNCHANGED <<in_use, pid_counter, prev_pid, image, pit_count>>
      BY <1>0, <1>10 DEF Trap, TypeOK, CpuStates
    <2> QED
      BY <1>0, <2>1, EntryKeepsFrames, Frame
  <1>11. CASE SyscallReturn
    <2>1. /\ cpu.pc = "syscall" /\ cpu'.pc = "user"
          /\ UNCHANGED <<in_use, pid_counter, prev_pid, image, saved, pit_count>>
      BY <1>11 DEF SyscallReturn, UserMode
    <2> QED
      BY <1>0, <2>1, Frame
  <1>12. CASE PitStartShell
    <2>1. PICK pid \in Pids : IsFree(pid) /\ Launch(pid, "shell", "pit", pit_count)
      BY <1>12 DEF PitStartShell
    <2>2. pit_count < N /\ pit_count' = pit_count + 1 /\ ~Booted /\ ~Booted'
      BY <1>0, <1>12 DEF PitStartShell, Booted
    <2>3. /\ \A p \in Pids : in_use[p] <=> p < pit_count
          /\ pid_counter = IF pit_count = 0 THEN 0 ELSE pit_count - 1
          /\ \A t \in Terminals : t < pit_count => image[t] = "shell"
      BY <2>2 DEF IInv, BootOrder
    <2>4. pid = pit_count
      <3>1. pit_count \in Pids
        BY <1>0, <2>2 DEF Pids
      <3>2. ~(pid < pit_count) /\ \A q \in Pids : q < pid => q < pit_count
        BY <2>1, <2>3 DEF IsFree
      <3> QED
        BY <1>0, <3>1, <3>2 DEF Pids
    <2>5. /\ pid_counter' = pid /\ prev_pid' = pid_counter /\ cpu'.pc = "user"
          /\ in_use'[pid] /\ image'[pid] = "shell"
          /\ \A p \in Pids : p # pid => in_use'[p] = in_use[p] /\ image'[p] = image[p]
      BY <1>0, <2>1, LaunchEffect
    <2>6. \A p \in Pids : in_use'[p] <=> p < pit_count'
      <3>1. ASSUME NEW p \in Pids PROVE in_use'[p] <=> p < pit_count'
        <4>1. CASE p = pid
          BY <1>0, <2>2, <2>4, <2>5, <4>1
        <4>2. CASE p # pid
          <5>1. in_use'[p] <=> p < pit_count
            BY <2>3, <2>5, <4>2
          <5>2. p < pit_count <=> p < pit_count'
            BY <1>0, <2>2, <2>4, <4>2 DEF Pids
          <5> QED
            BY <5>1, <5>2
        <4> QED
          BY <4>1, <4>2
      <3> QED
        BY <3>1
    <2>7. \A t \in Terminals : t < pit_count' => image'[t] = "shell"
      BY <1>0, <2>2, <2>3, <2>4, <2>5 DEF Pids, Terminals
    <2>8. BootOrder'
      BY <1>0, <2>2, <2>3, <2>4, <2>5, <2>6, <2>7 DEF BootOrder, HaltPlaces, Pids
    <2> QED
      BY <1>0, <2>2, <2>8 DEF IInv, ShellsKept, ReturnChain
  <1>13. CASE PitReturnToFirst
    <2>1. /\ pit_count = N /\ pit_count' = N + 1 /\ ~Booted /\ Booted'
          /\ UNCHANGED <<in_use, pid_counter, prev_pid, image, cpu>>
      BY <1>0, <1>13 DEF PitReturnToFirst, Booted
    <2>2. /\ \A p \in Pids : in_use[p] <=> p < N
          /\ pid_counter = N - 1 /\ prev_pid < N
          /\ \A t \in Terminals : t < N => image[t] = "shell"
          /\ cpu.pc \notin HaltPlaces
      BY <1>0, <2>1 DEF IInv, BootOrder
    <2>3. \A t \in Terminals : t < N
      BY <1>0 DEF Terminals
    <2>4. ShellsKept'
      BY <1>0, <2>1, <2>2, <2>3 DEF ShellsKept, LastShell, HaltPlaces, Terminals
    <2>5. ReturnChain'
      BY <1>0, <2>1, <2>2 DEF ReturnChain, LastShell, HaltPlaces, Pids
    <2> QED
      BY <1>0, <2>1, <2>4, <2>5 DEF IInv, BootOrder
  <1>14. CASE PitTick \/ \E target \in Terminals : SwitchTerminal(target)
    <2>1. /\ UNCHANGED <<in_use, pid_counter, prev_pid, image, pit_count, cpu>>
          /\ saved' = FramesAfterEntry
      BY <1>14 DEF PitTick, SwitchTerminal
    <2> QED
      BY <1>0, <2>1, EntryKeepsFrames, Frame
  <1>15. CASE StackFault
    <2>1. /\ cpu.pc = "user" /\ cpu'.pc = "lost"
          /\ UNCHANGED <<in_use, pid_counter, prev_pid, image, saved, pit_count>>
      BY <1>0, <1>15 DEF StackFault, Lost, TypeOK, CpuStates
    <2> QED
      BY <1>0, <2>1, Frame
  <1>16. CASE HaltCloseRtc
    <2>1. /\ cpu'.pc = cpu.pc
          /\ UNCHANGED <<in_use, pid_counter, prev_pid, image, saved, pit_count>>
      BY <1>0, <1>16 DEF HaltCloseRtc, TypeOK, CpuStates
    <2> QED
      BY <1>0, <2>1, Frame
  <1>17. CASE UNCHANGED vars
    BY <1>0, <1>17, Frame DEF vars
  <1> QED
    BY <1>1, <1>2, <1>3, <1>4, <1>5, <1>6, <1>7, <1>8, <1>9, <1>10, <1>11, <1>12,
       <1>13, <1>14, <1>15, <1>16, <1>17
       DEF Next, SysExecute, SysHalt, Interrupt

\* The inductive invariant holds in every reachable state.
THEOREM Invariance == Spec => []IInv
  <1>1. IInv /\ [Next]_vars => IInv'
    BY InvStep
  <1> QED
    BY <1>1, InitInv, PTL DEF Spec

\* Bug #20 of the bug log stays fixed whatever the user does: no sequence of
\* commands, exits, exceptions, ticks and switches loses a base shell.
THEOREM BaseShellsSurvive == Spec => []BaseShellsStay
  <1>1. IInv => BaseShellsStay
    <2> SUFFICES ASSUME IInv, Booted PROVE BaseShellsStay
      BY DEF BaseShellsStay
    <2> QED
      BY DEF IInv, ShellsKept, BaseShellsStay, LastShell
  <1> QED
    BY <1>1, Invariance, PTL

\* The activation sys_halt restores was saved by an execute system call, never
\* by pit_handler or by a relaunch.
THEOREM HaltReturnsRight == Spec => []HaltReturnsToCaller
  <1>1. IInv => HaltReturnsToCaller
    <2> SUFFICES ASSUME IInv, cpu.pc \in {"slot", "pop", "page", "resume"}
                 PROVE  HaltReturnsToCaller
      BY DEF HaltReturnsToCaller
    <2>1. Booted
      BY DEF IInv, BootOrder, HaltPlaces
    <2>2. pid_counter > LastShell /\ saved[pid_counter].from = "syscall"
      BY <2>1 DEF IInv, ReturnChain
    <2>3. pid_counter \in Pids /\ NUMBER_OF_TERMINALS \in Nat
      BY ProcessesAssumption DEF IInv, TypeOK
    <2> QED
      BY <2>2, <2>3 DEF HaltReturnsToCaller, LastShell, Pids
  <1> QED
    BY <1>1, Invariance, PTL
=============================================================================
