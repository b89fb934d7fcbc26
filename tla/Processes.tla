----------------------------- MODULE Processes -----------------------------
(***************************************************************************)
(* Process control of the kernel: sys_execute, sys_halt, the exception     *)
(* handlers that end in sys_halt, the timer interrupt that starts the      *)
(* three base shells and afterwards rewrites tss.esp0, and the Alt-Fn      *)
(* terminal switch, as far as it changes curr_terminal.                    *)
(*                                                                         *)
(* There is one CPU and no context switch: pit_handler saves and restores  *)
(* the same slot, so a process runs until it executes another or halts.    *)
(* The concurrency is that of interrupts.  Syscalls enter through a trap   *)
(* gate (IF stays on), interrupts and exceptions through interrupt gates   *)
(* (IF off), and sys_execute starts with cli(), so sys_execute is one step *)
(* and sys_halt is one step per statement that an interrupt can separate.  *)
(*                                                                         *)
(* A kernel stack is named by the pid in 8MB - pid*8KB - 4, a user page by *)
(* the pid in 8MB + pid*4MB.                                               *)
(***************************************************************************)
EXTENDS Integers

CONSTANTS
    PCB_SIZE,              \* number of PCBs, and of slots in terminal_t.procs
    NUMBER_OF_TERMINALS,   \* terminals, base shells and the 3 of sys_halt's test
    Commands,              \* kinds of command lines given to sys_execute
    SwitchDuring,          \* programs during which the user switches terminals
    FaultIn,               \* programs that may raise an exception
    MaxRestarts,           \* bound: how often a base shell exits
    MaxSwitches            \* bound: how often terminals are switched under a program

Programs == {"shell", "leaf"}    \* "leaf": a program that calls no execute
NoProgram == "empty"
NoPid == -1
Pids == 0 .. PCB_SIZE - 1
Terminals == 0 .. NUMBER_OF_TERMINALS - 1

\* A command line names a program or is refused by one of the error paths.
Refused == {"null", "long name", "long args", "no such file", "not executable"}

ASSUME ProcessesAssumption ==
    /\ PCB_SIZE \in Nat /\ NUMBER_OF_TERMINALS \in Nat
    /\ 1 < NUMBER_OF_TERMINALS /\ NUMBER_OF_TERMINALS < PCB_SIZE
    /\ Commands \subseteq Programs \cup Refused
    /\ SwitchDuring \subseteq Programs
    /\ FaultIn \subseteq Programs
    /\ MaxRestarts \in Nat
    /\ MaxSwitches \in Nat

\* procs[-1] is the word before the array, screen_start, which is 0 at boot.
MinSlot == -1
Slots == MinSlot .. PCB_SIZE - 1

VARIABLES
    in_use,         \* all_pcbs[].in_use
    pid_counter,    \* the process the kernel believes is running
    prev_pid,       \* the process sys_halt returns to: one global variable
    flag_exception, \* set by an exception handler, cleared by sys_halt
    saved,          \* the activation that all_pcbs[].old_ebp/old_esp point to
    image,          \* program loaded in each user page
    user_page,      \* user page that the 128MB directory entry maps
    esp0,           \* tss.esp0
    procs,          \* terminals[].procs
    curr_process,   \* terminals[].curr_process
    curr_terminal,
    on_screen,
    pit_count,
    cpu,            \* the registers: process, kernel stack, place, interrupt flag
    eax,            \* what the last sys_execute returned
    restarts,       \* number of base shell exits, for the bound
    switches        \* number of terminal switches under a program, for the bound

table == <<in_use, pid_counter, prev_pid>>
memory == <<saved, image, user_page>>
terminal == <<procs, curr_process>>
screen == <<curr_terminal, on_screen, pit_count>>
bounds == <<restarts, switches>>
vars == <<table, flag_exception, memory, esp0, terminal, screen,
          cpu, eax, bounds>>

(***************************************************************************)
(* Where the CPU is.  "idle" is the hlt loop of the boot code, "lost" the  *)
(* state after the CPU has used a stack or an activation that does not     *)
(* exist any more: what happens next is undefined, and nothing does here.  *)
(***************************************************************************)
HaltPlaces == {"release", "relaunch", "slot", "pop", "page", "resume"}
Places == {"idle", "user", "syscall", "lost"} \cup HaltPlaces

CpuStates == [proc : Pids \cup {NoPid}, stack : Pids, pc : Places, intr : BOOLEAN]

\* An activation of sys_execute: the process it will return into, the kernel
\* stack it lies on, who called it, and whether the stack still holds it.
Frames == [proc : Pids \cup {NoPid}, stack : Pids,
           from : {"none", "pit", "syscall", "halt"}, intact : BOOLEAN]

NoFrame == [proc |-> NoPid, stack |-> 0, from |-> "none", intact |-> FALSE]

Lost == [cpu EXCEPT !.pc = "lost", !.intr = FALSE]

UserMode(p) == [proc |-> p, stack |-> 0, pc |-> "user", intr |-> TRUE]

Booted == pit_count > NUMBER_OF_TERMINALS

\* The PCBs of the base shells: sys_halt relaunches a shell for them.
IsBaseShell(p) == p > 0 /\ p < NUMBER_OF_TERMINALS

-----------------------------------------------------------------------------
(***************************************************************************)
(* Entering the kernel.  From user mode the CPU loads esp0 and writes from *)
(* the top of that stack, destroying an activation that lies there; in the *)
(* kernel it stays on the stack it is on.                                  *)
(***************************************************************************)
CanEnter == cpu.pc = "user" => esp0 \in Pids

StackOnEntry == IF cpu.pc = "user" THEN esp0 ELSE cpu.stack

FramesAfterEntry ==
    [p \in Pids |->
        IF cpu.pc = "user" /\ saved[p].stack = esp0
        THEN [saved[p] EXCEPT !.intact = FALSE]
        ELSE saved[p]]

Init ==
    /\ in_use = [p \in Pids |-> FALSE]
    /\ pid_counter = 0
    /\ prev_pid = 0
    /\ flag_exception = FALSE
    /\ saved = [p \in Pids |-> NoFrame]
    /\ image = [p \in Pids |-> NoProgram]
    /\ user_page = 0
    /\ esp0 = 0
    /\ procs = [t \in Terminals |-> [i \in Slots |-> 0]]
    /\ curr_process = [t \in Terminals |-> 0]
    /\ curr_terminal = 0
    /\ on_screen = 0
    /\ pit_count = 0
    /\ cpu = [proc |-> NoPid, stack |-> 0, pc |-> "idle", intr |-> TRUE]
    /\ eax = "none"
    /\ restarts = 0
    /\ switches = 0

\* A stack pointer outside the kernel page: no entry from user mode succeeds.
StackFault ==
    /\ cpu.pc = "user"
    /\ esp0 \notin Pids
    /\ cpu' = Lost
    /\ UNCHANGED <<table, flag_exception, memory, esp0, terminal, screen,
                   eax, bounds>>

-----------------------------------------------------------------------------
(***************************************************************************)
(* sys_execute                                                             *)
(***************************************************************************)
\* Mutant of IsFree: the scan starts after the running process.
IsFreeAfterRunning(p) ==
    /\ ~in_use[p]
    /\ p > pid_counter

\* get_free_pcb: the lowest PCB not in use.
IsFree(p) ==
    /\ ~in_use[p]
    /\ \A q \in Pids : q < p => in_use[q]

\* Mutant of PushSlot: the slot is written before the index is advanced.
PushSlotPostIncrement(t, pid) ==
    /\ procs' = [procs EXCEPT ![t][curr_process[t]] = pid]
    /\ curr_process' = [curr_process EXCEPT ![t] = @ + 1]

\* procs[++curr_process] = pid.  The slot after the last one is the memory of
\* curr_process itself, so a write there sets curr_process.
PushSlot(t, pid) ==
    LET i == curr_process[t] + 1
    IN  IF i = PCB_SIZE
        THEN /\ curr_process' = [curr_process EXCEPT ![t] = pid]
             /\ UNCHANGED procs
        ELSE /\ curr_process' = [curr_process EXCEPT ![t] = i]
             /\ procs' = [procs EXCEPT ![t][i] = pid]

\* Mutant of Launch: the parent's page stays mapped while the child is loaded.
LaunchWithoutMapping(pid, program, from, t) ==
    /\ prev_pid' = pid_counter
    /\ pid_counter' = pid
    /\ in_use' = [in_use EXCEPT ![pid] = TRUE]
    /\ image' = [image EXCEPT ![user_page] = program]
    /\ UNCHANGED user_page
    /\ PushSlot(t, pid)
    /\ esp0' = pid
    /\ saved' = [FramesAfterEntry EXCEPT ![pid] =
                    [proc |-> cpu.proc, stack |-> StackOnEntry,
                     from |-> from, intact |-> TRUE]]
    /\ cpu' = UserMode(pid)

\* The successful path, from the allocated PCB to the iret into the program.
Launch(pid, program, from, t) ==
    /\ prev_pid' = pid_counter
    /\ pid_counter' = pid
    /\ in_use' = [in_use EXCEPT ![pid] = TRUE]
    /\ user_page' = pid
    /\ image' = [image EXCEPT ![pid] = program]
    /\ PushSlot(t, pid)
    /\ esp0' = pid
    /\ saved' = [FramesAfterEntry EXCEPT ![pid] =
                    [proc |-> cpu.proc, stack |-> StackOnEntry,
                     from |-> from, intact |-> TRUE]]
    /\ cpu' = UserMode(pid)

\* Only the shell calls execute.  A process that runs in another's page may
\* do anything.
RunsShell == image[user_page] = "shell" \/ cpu.proc # user_page

ExecuteProgram(command) ==
    /\ cpu.pc = "syscall" /\ Booted /\ RunsShell
    /\ command \in Programs
    /\ \E pid \in Pids :
          /\ IsFree(pid)
          /\ Launch(pid, command, "syscall", curr_terminal)
    /\ eax' = "none"
    /\ UNCHANGED <<flag_exception, screen, bounds>>

\* Mutant of Refuse: the error path forgets all_pcbs[pid_counter].in_use = 0.
RefuseKeepingPcb(pid) ==
    /\ in_use' = [in_use EXCEPT ![pid] = TRUE]
    /\ UNCHANGED pid_counter

\* Every error path gives the new PCB back and restores pid_counter.
Refuse(pid) ==
    /\ in_use' = [in_use EXCEPT ![pid] = FALSE]
    /\ UNCHANGED pid_counter

ExecuteRefused(command) ==
    /\ cpu.pc = "syscall" /\ Booted /\ RunsShell
    /\ command \in Refused
    /\ \E pid \in Pids : IsFree(pid) /\ Refuse(pid)
    /\ prev_pid' = pid_counter
    /\ cpu' = UserMode(cpu.proc)
    /\ eax' = "-1"
    /\ UNCHANGED <<flag_exception, memory, esp0, terminal, screen, bounds>>

\* "MAX Program Count reached"
ExecuteFull ==
    /\ cpu.pc = "syscall" /\ Booted /\ RunsShell
    /\ \A pid \in Pids : in_use[pid]
    /\ prev_pid' = pid_counter
    /\ cpu' = UserMode(cpu.proc)
    /\ eax' = "-1"
    /\ UNCHANGED <<in_use, pid_counter, flag_exception, memory, esp0,
                   terminal, screen, bounds>>

-----------------------------------------------------------------------------
(***************************************************************************)
(* sys_halt, one action per statement between which an interrupt may come. *)
(***************************************************************************)
MayEnd == IsBaseShell(pid_counter) => restarts < MaxRestarts

Halt ==
    /\ cpu.pc = "syscall" /\ Booted /\ MayEnd
    /\ cpu' = [cpu EXCEPT !.pc = "release"]
    /\ UNCHANGED <<table, flag_exception, memory, esp0, terminal, screen,
                   eax, bounds>>

\* exceptionN_C: the interrupt gate leaves IF off.
Exception ==
    /\ cpu.pc \in {"user", "syscall"} /\ Booted /\ MayEnd /\ CanEnter
    /\ image[user_page] \in FaultIn
    /\ flag_exception' = TRUE
    /\ saved' = FramesAfterEntry
    /\ cpu' = [cpu EXCEPT !.stack = StackOnEntry, !.pc = "release", !.intr = FALSE]
    /\ UNCHANGED <<table, image, user_page, esp0, terminal, screen,
                   eax, bounds>>

\* The loop of sys_close before in_use is cleared.  Closing an open RTC goes
\* through rtc_close to the sti() of rtc_set_frequency, so the rest of a halt
\* by exception runs with IF on.  The shell opens no file.
MayHoldRtc == image[user_page] = "leaf" \/ cpu.proc # user_page

HaltCloseRtc ==
    /\ cpu.pc = "release" /\ ~cpu.intr /\ MayHoldRtc
    /\ cpu' = [cpu EXCEPT !.intr = TRUE]
    /\ UNCHANGED <<table, flag_exception, memory, esp0, terminal, screen,
                   eax, bounds>>

\* Mutant of Relaunches: the test excludes the last base shell.
RelaunchesAllButLast(p) == p > 0 /\ p < NUMBER_OF_TERMINALS - 1

\* "if we are on base shell, relaunch shell"
Relaunches(p) == IsBaseShell(p)

HaltRelease ==
    /\ cpu.pc = "release"
    /\ in_use' = [in_use EXCEPT ![pid_counter] = FALSE]
    /\ cpu' = [cpu EXCEPT !.pc = IF Relaunches(pid_counter) THEN "relaunch" ELSE "slot"]
    /\ UNCHANGED <<pid_counter, prev_pid, flag_exception, memory, esp0,
                   terminal, screen, eax, bounds>>

\* sys_execute("shell") on the kernel stack of the process that ends.
HaltRelaunch ==
    /\ cpu.pc = "relaunch"
    /\ \E pid \in Pids :
          /\ IsFree(pid)
          /\ Launch(pid, "shell", "halt", curr_terminal)
    /\ restarts' = restarts + 1
    /\ UNCHANGED <<flag_exception, screen, eax, switches>>

HaltSlot ==
    /\ cpu.pc = "slot"
    /\ procs' = [procs EXCEPT ![curr_terminal][curr_process[curr_terminal]] = NoPid]
    /\ cpu' = [cpu EXCEPT !.pc = "pop"]
    /\ UNCHANGED <<table, flag_exception, memory, esp0, curr_process, screen,
                   eax, bounds>>

\* Mutants of PopSlot: the index is left where it is, or decremented twice.
PopSlotForgotten(i) == i
PopSlotTwice(i) == i - 2

PopSlot(i) == i - 1

HaltPop ==
    /\ cpu.pc = "pop"
    /\ curr_process[curr_terminal] > MinSlot
    /\ curr_process' = [curr_process EXCEPT ![curr_terminal] = PopSlot(@)]
    /\ cpu' = [cpu EXCEPT !.pc = "page"]
    /\ UNCHANGED <<table, flag_exception, memory, esp0, procs, screen,
                   eax, bounds>>

HaltPage ==
    /\ cpu.pc = "page"
    /\ user_page' = prev_pid
    /\ esp0' = prev_pid
    /\ cpu' = [cpu EXCEPT !.pc = "resume"]
    /\ UNCHANGED <<table, flag_exception, saved, image, terminal, screen,
                   eax, bounds>>

\* Where sys_execute returns to: the system call of the parent, or the rest of
\* the sys_halt that relaunched a shell.  pit_handler's activations lie on
\* the stack of shell 0 or of a shell that never runs again.
ReturnInto(frame) ==
    CASE ~frame.intact          -> Lost
      [] frame.from = "syscall" -> UserMode(frame.proc)
      [] frame.from = "halt"    -> [cpu EXCEPT !.proc = frame.proc,
                                               !.stack = frame.stack, !.pc = "slot"]
      [] OTHER                  -> Lost

\* The "inverse execute" and the jump to the label in sys_execute.  EAX holds
\* the status there, or 256 after an exception, but the statement behind the
\* label is "return 0", which replaces it.
HaltResume ==
    /\ cpu.pc = "resume"
    /\ cpu' = ReturnInto(saved[pid_counter])
    /\ pid_counter' = prev_pid
    /\ eax' = "0"
    /\ flag_exception' = FALSE
    /\ UNCHANGED <<in_use, prev_pid, memory, esp0, terminal, screen, bounds>>

-----------------------------------------------------------------------------
(***************************************************************************)
(* Interrupts and the other system calls.                                  *)
(***************************************************************************)
\* int 0x80, through the trap gate.
Trap ==
    /\ cpu.pc = "user" /\ CanEnter
    /\ saved' = FramesAfterEntry
    /\ cpu' = [cpu EXCEPT !.stack = esp0, !.pc = "syscall"]
    /\ eax' = "none"
    /\ UNCHANGED <<table, flag_exception, image, user_page, esp0, terminal,
                   screen, bounds>>

\* Any system call but execute and halt: nothing modelled here changes.
SyscallReturn ==
    /\ cpu.pc = "syscall"
    /\ cpu' = UserMode(cpu.proc)
    /\ UNCHANGED <<table, flag_exception, memory, esp0, terminal, screen,
                   eax, bounds>>

\* The first ticks: each starts a shell on its terminal and does not return.
PitStartShell ==
    /\ cpu.intr /\ CanEnter
    /\ pit_count < NUMBER_OF_TERMINALS
    /\ curr_terminal' = pit_count
    /\ pit_count' = pit_count + 1
    /\ \E pid \in Pids :
          /\ IsFree(pid)
          /\ Launch(pid, "shell", "pit", pit_count)
    /\ UNCHANGED <<flag_exception, on_screen, eax, bounds>>

\* tss.esp0 := the kernel stack of procs[curr_process] of terminal t.
SetTss(t) == esp0' = procs[t][curr_process[t]]

\* The tick after the last shell goes back to terminal 0.
PitReturnToFirst ==
    /\ cpu.intr /\ CanEnter
    /\ pit_count = NUMBER_OF_TERMINALS
    /\ curr_terminal' = 0
    /\ pit_count' = pit_count + 1
    /\ SetTss(0)
    /\ saved' = FramesAfterEntry
    /\ UNCHANGED <<table, flag_exception, image, user_page, terminal,
                   on_screen, cpu, eax, bounds>>

PitTick ==
    /\ cpu.intr /\ CanEnter
    /\ Booted
    /\ SetTss(curr_terminal)
    /\ saved' = FramesAfterEntry
    /\ UNCHANGED <<table, flag_exception, image, user_page, terminal, screen,
                   cpu, eax, bounds>>

\* A program other than the base shells is running or has not quite returned.
UnderProgram == pid_counter >= NUMBER_OF_TERMINALS

\* Alt-F1..F3: the keyboard handler calls switch_terminal_keypress, which does
\* nothing when the target is the terminal on the screen.
SwitchTerminal(target) ==
    /\ cpu.intr /\ CanEnter
    /\ image[user_page] \in SwitchDuring
    /\ target # on_screen
    /\ on_screen' = target
    /\ curr_terminal' = target
    /\ saved' = FramesAfterEntry
    /\ IF UnderProgram
       THEN switches < MaxSwitches /\ switches' = switches + 1
       ELSE UNCHANGED switches
    /\ UNCHANGED <<table, flag_exception, image, user_page, esp0, terminal,
                   pit_count, cpu, eax, restarts>>

-----------------------------------------------------------------------------
SysExecute ==
    \/ \E command \in Commands : ExecuteProgram(command) \/ ExecuteRefused(command)
    \/ ExecuteFull

SysHalt ==
    \/ Halt
    \/ Exception
    \/ HaltCloseRtc
    \/ HaltRelease
    \/ HaltRelaunch
    \/ HaltSlot
    \/ HaltPop
    \/ HaltPage
    \/ HaltResume

Interrupt ==
    \/ PitStartShell
    \/ PitReturnToFirst
    \/ PitTick
    \/ \E target \in Terminals : SwitchTerminal(target)
    \/ StackFault

Next ==
    \/ SysExecute
    \/ SysHalt
    \/ Trap
    \/ SyscallReturn
    \/ Interrupt

Spec == Init /\ [][Next]_vars

-----------------------------------------------------------------------------
(***************************************************************************)
(* Properties                                                              *)
(***************************************************************************)
\* The types of the kernel's process tables and of the CPU state.
TypeOK ==
    /\ in_use \in [Pids -> BOOLEAN]
    /\ pid_counter \in Pids
    /\ prev_pid \in Pids
    /\ flag_exception \in BOOLEAN
    /\ saved \in [Pids -> Frames]
    /\ image \in [Pids -> Programs \cup {NoProgram}]
    /\ user_page \in Pids
    /\ esp0 \in Pids \cup {NoPid}
    /\ procs \in [Terminals -> [Slots -> Pids \cup {NoPid}]]
    /\ curr_process \in [Terminals -> Slots]
    /\ curr_terminal \in Terminals
    /\ on_screen \in Terminals
    /\ pit_count \in 0 .. NUMBER_OF_TERMINALS + 1
    /\ cpu \in CpuStates
    /\ eax \in {"none", "-1", "0"}
    /\ restarts \in Nat
    /\ switches \in Nat

Executing == cpu.pc \in {"user", "syscall"}

\* The base shells survive everything a user can do (sys_halt relaunches them,
\* get_free_pcb never hands out their PCBs): after the boot every terminal's
\* PCB is in use, its page holds a shell, and the running PCB is the last
\* shell or one above it.
BaseShellsStay ==
    Booted =>
        /\ pid_counter >= NUMBER_OF_TERMINALS - 1
        /\ \A t \in Terminals :
              /\ image[t] = "shell"
              /\ in_use[t] \/ (t = pid_counter /\ cpu.pc = "relaunch")

\* sys_halt never returns into pit_handler or into the sys_halt of a shell it
\* has relaunched: the PCB whose old_ebp/old_esp it restores was filled by
\* an execute system call.
HaltReturnsToCaller ==
    cpu.pc \in {"slot", "pop", "page", "resume"} =>
        /\ pid_counter >= NUMBER_OF_TERMINALS
        /\ saved[pid_counter].from = "syscall"

\* The process whose registers are loaded, the one pid_counter names and the one
\* whose page update_user_addr has mapped are one and the same, and its PCB
\* cannot be allocated to another program.
RunningOwnsPage ==
    Executing =>
        /\ pid_counter = cpu.proc
        /\ user_page = cpu.proc
        /\ in_use[cpu.proc]

\* A PCB that sys_execute allocated is given back on every path: above the
\* base shells only the running program holds one (where programs do not
\* execute others).
NoPcbLeaked ==
    Executing /\ Booted =>
        \A p \in Pids : p >= NUMBER_OF_TERMINALS /\ in_use[p] => p = cpu.proc

\* The bookkeeping of terminal_t.procs, spread over sys_execute, sys_halt and
\* pit_handler, agrees with pid_counter: a tick leaves a program on the
\* kernel stack sys_execute gave it.
TickKeepsOwnStack ==
    (cpu.pc = "user" /\ Booted /\ pid_counter >= NUMBER_OF_TERMINALS) =>
        /\ esp0 = pid_counter
        /\ procs[curr_terminal][curr_process[curr_terminal]] = pid_counter

\* No entry to the kernel destroys the activation of sys_execute that the
\* running program's sys_halt will return into, and no entry uses an
\* address outside the kernel stacks.
ParentActivationSafe ==
    /\ cpu.pc # "lost"
    /\ Executing /\ pid_counter >= NUMBER_OF_TERMINALS => saved[pid_counter].intact

\* execute returns 256 after an exception: what the shell tests for, what
\* HALT_BY_EXCEPTION stands for and what sys_halt loads EAX with.
ExceptionReported ==
    [][cpu.pc = "resume" /\ flag_exception /\ cpu'.pc = "user" => eax' = "256"]_vars
=============================================================================
