# BigChungOS: formal models, checks and proofs

BigChungOS (`src/student-distrib`) is a small x86 kernel: three text terminals,
six processes, a read-only file system, a keyboard, an RTC and a PIT. This
directory holds TLA+ models of its control logic, TLC configurations that check
them on small instances, and TLAPS proofs of the properties that matter most.

## 1. Inventory

| component | code | state | operations | interacts with |
|---|---|---|---|---|
| Process control | `sys_calls.c`, `interrupt_handler.c` | `all_pcbs`, `pid_counter`, `prev_pid`, `flag_exception`, `tss.esp0` | `sys_execute`, `sys_halt`, `exceptionN_C`, `get_free_pcb`, `init_pcb` | paging (user page), slots of the terminals, file system (loader), file descriptors |
| Timer, terminal switching | `sched.c` | `terminals[]`, `curr_terminal`, `on_screen`, `pit_count` | `pit_handler`, `switch_terminal_keypress`, `start_terminals` | process control (`procs` gives `tss.esp0`), keyboard buffer, screen |
| Keyboard and line discipline | `keyboard.c`, `terminal.c` | `keyboard_buffer`, `kb_idx`, `char_count`, `enter_p_flag` | `keyboard_handler`, `terminal_read`, `terminal_write` | screen (echo), terminal switching |
| File descriptors | `sys_calls.c` | `all_pcbs[].fdt` | `sys_open`, `sys_close`, `sys_read`, `sys_write` | file system, RTC, terminal through `fop` tables |
| File system | `FileSystem.c` | boot block, `curr_dir`, `dir_is_open` | lookup by name and index, `read_data`, `dir_read`, `exec_check` | file descriptors, loader |
| RTC | `rtc.c` | `interrupt_flag`, RTC registers A to C | `rtc_open/read/write/close`, `handle_rtc` | PIC, file descriptors |
| PIC | `i8259.c` | `master_mask`, `slave_mask` | `enable_irq`, `disable_irq`, `send_eoi` | all interrupt handlers |
| Screen | `lib.c` | `screen_x/y`, `video_mem`, video buffers | `putc`, `rm_c`, `clear` | keyboard (echo), terminals |
| Paging | `memory.c` | page directory, two page tables, the TLB | `paging_init`, `update_user_addr`, `flush_tlb` | process control |
| Library | `lib.c`, `syscalls/ece391support.c` | registers and locals of a call | memory and string routines, `itoa` | everything that copies or compares |
| Boot | `kernel.c`, `boot.S`, `x86_desc.S` | descriptor tables | initialisation | all |
| User programs | `syscalls/`, `fish/` | grep: a buffer and three indices | system calls | process control, devices |

What is hard here:

* **Interrupts.** System calls enter through a trap gate and keep IF set
  (`interrupt_handler.c:198-205`); `sys_execute` starts with `cli()`, `sys_halt`
  does not, and `terminal_read` enables interrupts and disables them again
  just before the copy. The timer and the keyboard handler can come between any
  two of their statements and change what they are about to use.
* **State kept twice.** The running process is named by `pid_counter`, by
  `procs[curr_process]` of the current terminal, by the page directory, by
  `tss.esp0` and by the registers. They are written in different places.
* **One global for a stack.** The parent of the running process is the one
  variable `prev_pid`.
* **A kernel stack per PCB whose contents are the return address of `execute`.**
  `sys_halt` jumps back into an activation that must still be there.
* **A shared line.** There is one keyboard buffer; terminals take turns.
* **A shared cursor and output pointer.** `screen_x`, `screen_y` and `video_mem` are
  globals that a program's `putc` changes statement by statement while the keyboard
  handler echoes, erases, clears and switches through them.
* **Two-step device access.** The RTC is reached through an index port and a data
  port, the PIC through commands whose order matters, and interrupts nest.

What makes each component correct: processes form a stack per terminal and
`execute` returns to its caller, which runs in its own page again; base shells never
disappear; no PCB leaks. The line the user sees is the line the program
reads. Descriptors stay in their tables and files are read in order and in
full. An RTC read returns after an interrupt and never hangs, and a rate that is
set takes hold. The masks of the PIC describe the chips, and no line stays in
service. The cursor stays on the screen, no terminal is given another's page, and a switch
back shows what was left. A program reaches its own memory.

## 2. Modules

| module | contents |
|---|---|
| `Processes` | process control, the timer interrupt, the terminal switch as far as it concerns processes |
| `ProcessTree` | abstract: what `execute` and `halt` promise, a tree of processes walked depth first |
| `ProcessesImplTree` | the refinement mapping from `Processes` to `ProcessTree` |
| `ProcessesProofs` | TLAPS proofs about `Processes`, for every use |
| `ProcessTreeProofs` | TLAPS proofs about `Processes` under the uses it is right for, and of its refinement of `ProcessTree` |
| `Terminal` | keyboard handler, `terminal_read`, exchange of the line on a switch |
| `TerminalProofs` | TLAPS proofs about `Terminal` |
| `Files` | descriptor tables, directory position, `read_data`, the loader |
| `OpenFiles` | abstract: what open, read, close, execute and halt promise about files |
| `FilesImplOpenFiles` | the refinement mapping from `Files` to `OpenFiles`, and the disk TLC uses |
| `FilesProofs` | TLAPS proofs about `Files` and its refinement of `OpenFiles` |
| `Devices` | the two 8259s, the RTC, PIT and keyboard lines, nested interrupts, boot order, the RTC's system calls |
| `DevicesProofs` | TLAPS proofs about `Devices` |
| `Screen` | `putc` statement by statement, echo, backspace, Ctrl+L, switches, the boot ticks; pages and cursors |
| `ScreenProofs` | TLAPS proofs about `Screen` |
| `Library` | the memory, string and conversion routines of kernel and programs, one step per iteration |
| `LibraryProofs` | TLAPS proofs about `Library` |
| `Grep` | `do_one_file`: reading piecewise, carrying a cut line over |
| `Paging` | `paging_init`, `update_user_addr` and the TLB |
| `Routines` | composes `Library`, `Grep` and `Paging` for one run: code that no other actor takes part in |
| `RoutinesProofs` | TLAPS proofs about `Grep` and `Paging`, and about the composition |

### Processes

There is no context switch in this kernel: `pit_handler` saves and restores
ebp/esp in the same slot, so a process runs until it executes another or
halts. A state is the kernel's tables plus `cpu`, the registers: the process
whose program runs, the kernel stack in use, the place, and IF.

* Kernel stacks and user pages are named by the pid in `8MB - pid*8KB - 4` and
  `8MB + pid*4MB`. `saved[p]` is the activation of `sys_execute` that
  `all_pcbs[p].old_ebp/old_esp` points to: the process it resumes, the stack it
  lies on, its caller, and whether the stack still holds it (`intact`). An
  entry from user mode writes from the top of stack `esp0` and so destroys an
  activation saved on that stack.
* `ExecuteProgram`, `ExecuteRefused` and `ExecuteFull` are `sys_execute` (interrupts
  off, one step each); `Refused` names its five error paths.
* `Halt`/`Exception`, `HaltRelease`, `HaltRelaunch`, `HaltSlot`, `HaltPop`,
  `HaltPage` and `HaltResume` are `sys_halt`, one action per statement that an
  interrupt can separate. From an exception handler it begins with IF clear;
  closing an open RTC descriptor turns IF on (`HaltCloseRtc`, by `rtc.c:61`).
* `HaltResume` ends in front of the `return 0` of `sys_execute`, behind the label
  `here`: `execute` answers 0, whatever `sys_halt` has loaded into EAX.
* `PitStartShell`, `PitReturnToFirst` and `PitTick` are `pit_handler` at its
  first, fourth and later ticks; `SwitchTerminal` is Alt-Fn.
* `PushSlot` models `procs[++curr_process] = pid` with the layout of
  `terminal_t`: the word behind `procs` is `curr_process`.
* A CPU that uses a destroyed activation, or a stack outside the kernel page,
  is `"lost"`: nothing is claimed and nothing happens from there.

Abstracted: the command line is one of the classes the parser distinguishes;
programs are `shell` (calls execute) and `leaf` (does not); a program that runs
in another's page may do anything; system calls other than execute and halt
change nothing here. The user acts from the fourth timer tick on (`Booted`).
The counters `restarts` and `switches` with `MaxRestarts` and `MaxSwitches` bound the
exits of base shells and the terminal switches under a running program; switches
at a base shell are not bounded.

### Terminal

`TypeKey`, `TypeTab`, `Backspace`, `Enter` and `SwitchTerminal` are
`keyboard_handler`, which runs with interrupts off. `ReadCall`, `ReadProceed`,
`ReadTest`, `ReadScan`, `ReadScanned` and `ReadCopy` are `terminal_read`, one
action per read of shared memory until its `cli()`. `line` and `entered` are
history: what the user has typed, and the line entered but not yet read. A
line is *spoiled* when keys fall on it while an earlier line still waits: the
code overwrites the waiting line then, and nothing is claimed of either.
Modifiers and the character tables only choose the byte (`Keys`); Ctrl+L types its
letter like any key and otherwise changes only the screen. F11 is looked up
behind its table, so `Keys` may contain NUL. `MaxIndex` and `MaxScan` bound the index
and the scan once they have left the buffer.

### Files

The shell of one terminal executes programs and waits; programs execute
nothing (that is `Processes`). System calls run with interrupts enabled, but
no handler touches descriptors or files, so a call is one step, except that
`read_data` is a loop with a state (`data`) of its own and one step per block:
`ReadFile` or `Execute` begins it, `ReadBlock` is a turn, `ReadReturn` is the rest of
`file_read_helper`, `EnterProgram` the return of `exec_file_load`. `ReturnToUser`
is the iret; between a call and its return `answer` holds the result.

* `fdt[p][d]` has `exists`, the directory entry for `file_type`, `filename` and
  `inode`, and `file_bytes_read`. What a closed descriptor says of its file is
  forgotten (`ClosedFd`); its position is not, since `sys_open` does not reset it.
  Descriptors 0 and 1 never change. Calls with a bad descriptor or buffer
  and `sys_write` on a file or directory return -1 and are left out.
* `curr_dir` is one variable for all descriptors, as in the code: `RewoundBy` is
  `dir_open`, `RewoundFor` is `dir_close` for one or for all descriptors.
* A byte is where it lies on the disk (block and place), so a property can tell
  every wrong byte from the right one. `Inode`, `direntries` and `ElfBlocks` are the
  boot image; its copy by `dir_open` happens once, at boot (`kernel.c:159`).
* A name is a sequence of letters, compared up to `FILENAME_LEN` (`Truncated`).
* `file_bytes_read` is unsigned and a refused count adds -1 to it: below 0 lies
  2^32 - 1, which `Wrapped` stands for, with all positions behind every file.
* `ExecuteRefused` covers the error paths behind `init_pcb` that the name decides;
  the parser's other ones do the same to this state.

History: `answer` (shared with `OpenFiles`) and `listing`, which names the
descriptor whose listing no other call has disturbed and what it has read.

`OpenFiles` has no blocks, tables of free slots or shared position: each process has a
map from descriptors to a name and a position. It says nothing of directory reads
(`ListingComplete` does) and leaves the position open after a refused count.

### Devices

A state is both interrupt controllers (vector base, mask, lines in service), the
lines raised, the clock's registers, the CPU's interrupt flag, the handlers entered
and not left (`stack`), and the code below them (`task`): boot, or a system call.

* `Deliver(irq)` is the CPU's acknowledge of what the chips present; the handler
  (`HandleRtc`, `HandleKeyboard`, `StartShell`, `HandlePit`) is one step up to its
  `sti()` or `iret`. `handle_rtc` ends with `sti()`, so interrupts nest in it before its
  `iret`; `MaxNest` bounds the depth. `StartShell` is a tick that never returns.
* `i8259_init`, `init_rtc`, `init_keyboard`, `EnableInterrupts` and `init_PIT` are the
  order of `entry()`. `Read` is the clock's register A with its update bit.
* `rtc_write` runs as `ScaleStep` (one step per turn of the loop), `DisableInterrupts`,
  `SelectA`, `ReadA` and `WriteA`; `rtc_read` as `ReadCall`, `ReadSti` and `ReadReturn`.

What the model shows besides its properties: `init_rtc` reads register A although
`rtc.c:18` says B, so B becomes A's value with bit 6 set; the alarm interrupt is on,
and the clock stops its updates if A was in an update. `handle_rtc` acknowledges
either interrupt alike. The frequencies 0 and -2^31 pass the test for powers of two
(`rtc.c:104`, `Accepted`). The scale starts at 4 for a rate of 2 Hz, so a program gets
half the frequency it asks for (`HalfTheRequest`; section 4). `rtc_read` returns after at
least one interrupt (`ReadWaits`); the comment at `rtc.c:76-77` still speaks of 1024/freq
of them.

### Screen

A cell is written or blank; a page has more cells than the screen, and a write past
its end lands on the next. `PutcCall` to `PutcRestore` are the statements of a
program's `putc`, with what a statement reads and what it stores apart. The scroll is the
test (`PutcScroll`), the two arguments of `memmove`, which read `video_mem` each for
itself, a step per cell that it moves (`PutcMove`), the store of the row (`PutcBottom`) and two
steps per turn of the clearing loop, which computes its address from `video_mem`,
`screen_x` and `screen_y` each time (`PutcAddress`, `PutcPut`). The keyboard handler and the
timer run with interrupts off and are one step each; `Putc` is the same function in one step, for
them. `Program` writes any character at any time from the first shell on, also when the
current terminal is not the one on the screen. `MaxInputs` bounds characters and keys
together.

A switch sets `curr_terminal` too (`sched.c:243`), and the program of the terminal
that was left runs on: its output goes to the video memory, on the screen of the terminal
the user now sees. `OwnBuffers` says therefore only whose page a terminal is given.

* `left` is history: what each terminal showed when the user left it; cells that a
  write past the end of another page has hit (`Spill`) are excepted, and so is a
  terminal whose program has written since.
* `echo` is history: the cell at which the echo of the line on the screen began, while
  no output of a program has come between. A line of `MaxLine` characters, 127 in the
  code, fits into the rows above the last one (`LineAssumption`), so the cell at which it
  began is still on the screen when it ends.
* `astray` is history: a switch or a boot tick in the middle of a `putc` saves a cursor
  that may stand one column or row off the screen, and a later switch back restores
  it there. `Bug_Log.txt` calls cursors of this kind fixed (#35, #38). `astray` falls again
  when the next character or newline brings the cursor back; `CursorOnScreen` states what
  holds before and after.
* `ClearAnywhere` lets Ctrl+L fall while `video_mem` points to the page of another
  terminal; the run `screen_clear` shows what it does.

Also visible in the model: after boot terminal 0 starts with terminal 2's cursor; a
NUL from F11 is a character of the line but not on the screen, so its backspace erases
a character of the prompt; Ctrl+L leaves its `l` in the line; a `putc` that wraps at
the last cell while keys are typed writes past the page; the clearing loop starts at the
cursor's column, so the row it clears is shifted by what is typed before it.

### Library, Grep, Paging

`Library` is one call: `call` are its arguments, `entry` the memory before, `mem` the
memory, `r` the registers or locals. `Legal` calls are what the callers may pass. A
store of `WORD` bytes stands for `movsl` and `stosl`. `memmove` downwards leaves the
direction flag set (`r.step`); every routine that uses string instructions begins with
`cld`, so no other routine depends on it.
`memset_word` and `memset_dword` have no callers and are left out.

`Grep` has the file, the buffer with whatever the stack held before (`stale` is the
byte behind the buffer, which is compared without having been written), and the
indices. What it should print is defined without following it: a line is a pair of places
in the file (`Lines`), and the lines printed must be the matching ones in their order
(`PrintedAre`). A file holds letters, newlines and NULs, since grep reads every entry of the
directory, programs included. A NUL ends what `ece391_strcpy` carries and what
`ece391_fdputs` prints (`CString`), but not the search (`Matches`), and `last` counts the whole
piece. `GrepExact` and `GrepSound` speak of files without a NUL (`TextFile`); `GrepExact` also
excludes lines longer than the buffer, which are cut into pieces by design, and a stale
newline. `GrepGetsOn` speaks of every file; section 4 says what a NUL does.

`Paging` numbers 4 KB frames. `update_user_addr` is `ClearBase`, `SetBase` and
`flush_tlb`, and `Walk` lets the CPU load the entry between any two. The second page
table opens the video pages to every program.

## 3. Runs

| run | instance | shows |
|---|---|---|
| `process_tree` | 6 PCBs, 3 terminals as in the code; programs are leaves; switches at the shell; 3 base shell exits | `Processes` implements `ProcessTree`; page, pid, stack, slot and PCB agree (`RunningOwnsPage`, `TickKeepsOwnStack`, `NoPcbLeaked`), the parent's activation is never destroyed |
| `any_use` | 4 PCBs, 2 terminals; shells in shells, 1 switch under a program at any moment, 1 exit, exceptions anywhere | base shells survive, and `sys_halt` returns only into an execute system call |
| `line_discipline` | a buffer of 4 bytes, 2 terminals, reads of 0, 2 and 5 bytes | lines fit, the buffer holds the line, reads deliver it, a read with Enter down returns |
| `files` | a shell and one program with two descriptors each, blocks of 2 bytes, a directory, a file of 2 bytes, a program of 3; counts -1 to 2; names that match, and one that is a prefix | descriptors read their files in order and in full (`ReadsInOrder`, `ImplementsOpenFiles`), closed ones are clean, an undisturbed listing is complete |
| `devices` | both chips, boot and four timer ticks, requests of 0, -2^31, 3, 4, 8, 1024 and 2048 Hz, and the 2 Hz of open and close, handlers three deep | lines in service until the EOI, masks as the kernel believes, a rate that is set takes hold and is half of the request, `rtc_read` waits and returns |
| `screen` | 2 by 2 cells, a page of 5, 2 terminals, 4 characters and keys, lines of up to 2 characters | the cursor comes back to the screen, no terminal is given another's page, the echo follows the line, a switch back shows what was left |
| `routines` | 5 bytes of memory, words of 2, bytes 0 to 2, numbers to 15; a buffer of 3 and files of up to 6 bytes, patterns of 1 and 2; 6 processes | every routine does what it says for every legal call; on files without a NUL grep is exact and sound; a program reaches only its memory and the video pages; every iteration leaves less to do (`GetsOn`), and every call, and grep of every file, ends |
| `nested_shells`, `switch_under_program`, `exception_status`, `switch_mid_line`, `screen_clear` | see section 4 | a property each that the code violates |

Why the bounds are enough. `process_tree` uses the code's own sizes. Its three
exits are the most that leave all slots of `procs` in use without going
past them; the fourth is described in section 4. `any_use` needs one PCB pair above
the base shells for nesting and for a full table; one exit reaches the
relaunch from every stack, and one switch under a program separates a push from
its pop (switches at the base shells lead back). All safety properties of the passing
runs are proved for all sizes (section 5). In `line_discipline` 4 bytes
hold a full line, a line without NUL, a retyped line and every position of the
index; requests lie below, inside and above the line. In `files` one
file ends at the end of a block and one inside, on blocks in descending order;
counts end at, before and behind a boundary; two descriptors suffice for the
same file or directory twice, for a full table, and for a slot that is used again
by another process. No entry is a device: to this state it is an entry whose
descriptor can only be opened and closed, which the proofs include. In `devices` three
handlers deep is one of each line; the proofs have no bound on the depth. A screen of
2 by 2 has a wrap, a scroll and a wrap that scrolls, and a page of 5 cells a cell
behind the screen; a line of two characters fills the row above the last; four
inputs are a character of a program with three keys between any of its steps, among them a
switch and a switch back, or two characters that wrap and scroll with a switch
inside and one behind them; whatever the number, section 5 proves the same. In `routines` 5 bytes
hold overlaps in both directions with a word and a rest, strings of 0 to 4
characters, and numbers of one to four digits in radix 2; a file is up to
twice the buffer, so a line is cut, carried and cut again.

Fairness. `EnterAnswered` needs `WF(Reader)`: the reader's
instructions are executed again and again. The kernel has one CPU and no other
process is scheduled while a program waits in `terminal_read`; interrupt
handlers end, and the time between keys is long against a scan of 128 bytes.
Users need not type. `ReadReturns` (`Devices!FairSpec`) needs that the clock goes on
(`WF(ClockEvent)`), that a handler which has been entered runs (`WF(Handler)`), that the
CPU takes the clock's interrupt and goes on with the system call when it can again and
again (`SF`), and that the timer at 20 Hz and the user leave it the time: `[]<>Quiet`,
again and again no handler runs and neither of them waits for one. Handlers end within
a few hundred instructions, and the PIT leaves 50 ms between two. Nothing is assumed of
`handle_rtc` itself: a handler that forgets register C or an EOI violates the property.
`Returned` needs only that the code runs on.

`CHECK_DEADLOCK FALSE` is set in `any_use`, where the CPU may be lost, and in `routines`,
where a behaviour is one call and ends with it.

## 4. What the code does otherwise than its comments say

* `nested_shells`: `prev_pid` (`sys_calls.c:132`) is one variable. Run a program
  from a shell started in a shell, then exit the inner shell: `sys_halt` maps
  and names the page of the program that has ended, and its caller runs in it.
  Bug #39 of the log is likely this.
* `switch_under_program`: a switch sets `curr_terminal`, and the next tick points
  `tss.esp0` at the other terminal's shell stack while the program still runs.
  The next system call or interrupt overwrites the activation saved there.
* `exception_status`: `sys_halt` loads EAX with the status, or with 256 after an
  exception, and jumps to `here` in `sys_execute`, where `return 0` follows
  (`sys_calls.c:250-256`). `execute` answers 0 for every program that ended: the shell never prints
  "program terminated by exception", nor "program terminated abnormally".
* `switch_mid_line`: `char_count` is not exchanged by a switch; Enter on another
  terminal resets it and the first line can grow past the buffer.
* `screen_clear`: `clear` fills the page that `video_mem` points to. An early return of
  `putc`, or a switch in the middle of one, leaves it on the page of another terminal;
  Ctrl+L then wipes what that terminal had saved, and copies it over the buffer of the
  terminal on the screen.

Further divergences, seen while modelling and kept here without a run:

* An exception in a base shell leaves `flag_exception` set: the relaunch (`sys_calls.c:277-279`)
  precedes the reset. Since the value is lost in any case, nothing shows it.
* `rtc.c:40` calls the argument of `rtc_set_frequency` the "frequency that the RTC should be set
  to". The scale starts at 4 while the rate starts at that of 2 Hz (`rtc.c:47-49`), so every request
  above 2 Hz is halved: 1024 sets 512 Hz. `HalfTheRequest` states what the code does.
* grep copies a line that the buffer cuts off to its front by `ece391_strcpy`, which ends at a
  NUL, while `last` counts the whole piece (`ece391grep.c:34-37`, "copy from line_start to last").
  Behind the NUL the bytes of an earlier place of the file are searched as part of the line, and
  a match behind a NUL prints a string without the pattern.
* Relaunching a base shell pushes a slot that nothing pops. After
  four exits the slot for the next program is the memory of `curr_process`.
* Backspace (`keyboard.c:188`, Bug #32) leaves the newline that stood behind the character.
  Type `abc`, erase it, type `ls`: two newlines are delivered where the shell
  strips one. `LineDelivered` states what does hold.
* 32 characters of a name are compared (`FileSystem.c:20`). `sys_open` of a 33-character
  name opens the file whose 32-character name is its prefix, the case of Bug #28
  in `Bug_Log.txt`; the length checks of `sys_execute` hide it from `cat`.
* `filename` in `sys_execute` has 32 bytes and a name of 32 characters sets
  `filename[32]` (`sys_calls.c:180`); `sys_getargs` sets `buf[nbytes+1]`, two past the caller's count.
* The dispatcher lets call number 11 through (`sys_calls_link.S:14`, `cmpl $10` with `jg`
  on the number less one), one past the table.
* One shift flag serves two keys: releasing either ends both.

The passing runs exclude exactly these uses: `process_tree` has no nested
shells, no switch under a program and three exits (`Commands`, `SwitchDuring`,
`MaxRestarts`), `line_discipline` no switch in mid-line (`SwitchMidLine`), `files` no name longer
than `FILENAME_LEN`, `screen` no Ctrl+L while `video_mem` is astray (`ClearAnywhere`), and in
`routines` two properties of grep speak of files without a NUL (`TextFile`). `devices` states the
frequency that the code sets.

## 5. Proofs

Every safety property of the passing runs, invariant or action property, and both
refinements are theorems for all values of the constants, under the hypotheses named here.

`ProcessesProofs`, for all numbers of PCBs and terminals with
`1 < NUMBER_OF_TERMINALS < PCB_SIZE`, all command classes, and all choices of
where switches and exceptions happen:

* `TypeCorrect`: `Spec => []TypeOK`.
* `Invariance`: `IInv == TypeOK /\ BootOrder /\ ShellsKept /\ ReturnChain` is
  inductive. `BaseShellsStay` alone is not: that the PCB of a base shell is not
  given back depends on `pid_counter` never falling below the last shell, hence on
  `prev_pid` when `sys_halt` copies it, hence on who wrote `prev_pid` last.
  `ReturnChain` says that `prev_pid` is a base shell's or that of a process
  started by a system call, `BootOrder` that the first ticks hand out PCBs in order.
* `BaseShellsSurvive` and `HaltReturnsRight` follow from it. They hold in spite of
  the defects above: those corrupt nested programs, never the base shells' PCBs.

`ProcessTreeProofs`, for the uses that the kernel is right for, each named as a hypothesis
of the theorem; the runs of section 4 show what happens without it:

* With programs that execute no others (`"shell" \notin Commands`), and terminals switched
  and exceptions raised at any moment: `RunningKeepsPage` (`RunningOwnsPage`) and
  `PcbsReturned` (`NoPcbLeaked`). The invariant is `LeafInv == IInv /\ Coherent /\ OneProgram`:
  the registers, `pid_counter` and the page name one process in each place of `sys_halt`, and
  the only PCB in use above the base shells is its. The page and the leak need each other:
  which PCB `sys_halt` frees depends on `pid_counter`, which page it maps on `prev_pid`.
* `TreeImplemented`: `Spec => ImplementsProcessTree`, from `LeafInv`. The mapping keeps a
  process alive until `sys_halt` has come to its end (`Ending`), so of the steps of a halt only
  one ends a process in the tree and the others stutter.
* `TicksKeepStack` and `ActivationsAreSafe`, under `OrderedUse`: programs are leaves, terminals
  are switched at the shells, and base shells exit so seldom that `terminal_t.procs` has room
  (`MaxRestarts + 2 < PCB_SIZE`). `StackInv` adds `Slotted` (the slot of a running program
  is on top of the current terminal's until `sys_halt` pops it, all others name base shells), `Stacks` (`tss.esp0` is the
  stack of the running program, and its activation lies intact on a base shell's) and
  `Exits` (each exit costs a slot and is counted).

`TerminalProofs`, for all buffer sizes, numbers of terminals, keys and requests:

* `TypeCorrect`: `Spec => []TypeOK`, also with switches in mid-line.
* `LinesFit`: with `SwitchMidLine = FALSE`, `Spec => []LineFits`. The
  strengthening is `CountCovers`: the index never exceeds `char_count`.
* `BufferHolds`: with `SwitchMidLine = FALSE`, `Spec => []BufferHoldsLine`. The
  strengthening is `LineHeld`: while a line waits, the line on the screen is
  empty or spoiled, so the read that empties the buffer loses nothing; other
  terminals have no line begun and none waiting; a reader past its wait finds
  the flag still up.
* `LinesDelivered`: with `SwitchMidLine = FALSE`, `Spec => LineDelivered`, an action property:
  `terminal_read` hands over the line entered, cut to the count. `BuffersRest` says that behind
  the line only newlines and NULs stand, on every terminal, which a backspace could
  break and does not; `EnteredHeld` that the line entered stands in the buffer until it is
  read, and that the scan of the reader has met no NUL.

`FilesProofs`, for every file system, block size, number of processes and of
descriptors, all names and counts, assuming (but for the refinement) only that an inode
lists the blocks its length needs and that directory names begin with a dot:

* `TypeCorrect`, `DescriptorsStayKept`, `ListingsComplete` and `ReadsRight`:
  `Spec => []` of `TypeOK`, `DescriptorsKept`, `ListingComplete` and `ReadsInOrder`.
* `ReadsInOrder` is not inductive: it does not say where the loop is. The
  strengthening is the loop invariant `Turning`: the offset is the first position
  plus the bytes copied, it lies inside the block of the turn or the loop has
  come to its end, and the descriptor that is read stays open on the same file.
  `TurnCopies` is the lemma about one turn; it rests on `DivMod` and `InsideBlock`.
  `DescriptorsKept` and `ReadsInOrder` need each other: the position moves by what
  was copied, and reads begin inside the file because of the position.
* `OpenFilesImplemented`: `Spec => ImplementsOpenFiles` on an `OrderlyDisk`, with three hypotheses
  that the code needs. Names, also those that programs give, have at most `FILENAME_LEN`
  characters, since longer ones are compared up to there and match other files;
  entries have different names, since the first is found; and what `exec_check` takes for a
  program is a regular file, since it does not look at the type. The disk of the run is
  orderly. `Reading` adds to the invariant who runs `read_data`: a program's read, or the
  loader for a process that has no descriptor open yet. `Tables` is the mapping of
  the descriptor tables; opening is a search for a free slot here and a choice there, and the
  turns of the loop stutter.

`DevicesProofs`, for every state the BIOS may leave registers A and B in, every set of
requests and any depth of nested interrupts:

* `TypeCorrect`, and with it that the scale and the rate of `rtc_set_frequency` keep
  their relation (`RightScale`), so the rate never leaves its four bits.
* `ServiceEnds` and `ControllersStayReady`. `InService` is not inductive: that `send_eoi`
  clears the right line needs that only the handler entered last is before its EOI,
  and that it has interrupts off (`Interrupts`). `BootOrder` says what is initialised at
  each step of `entry()`.
* `RateHolds`: between `SelectA` and `WriteA` no handler runs, because interrupts are off
  (`Exclusive`), and before `init_rtc` none has been let in.
* `FrequencyIsHalved` and `ReadStaysWaiting` are action properties that follow from
  these: the first from the relation of scale, rate and request, for all that `Accepted` lets
  through; the second from `Waiting`: the flag that `rtc_read` spins on falls only in `handle_rtc`.

`LibraryProofs`, for every size of memory and word, all contents, arguments and lengths:

* `BlocksStayRight`: `memset`, `memcpy` and `memmove`. The invariant says of every address
  what is already written and that what is still to be read has not been overwritten,
  which for overlapping blocks is where the direction of `memmove` comes in.
* `ComparesStayRight`: the bytes compared so far are equal and none is the NUL (`Same`);
  `EndsTogether`, `EndsEqual` and `EndsDifferent` are the ways for the loop to end.
* `CopiesStayRight`: up to the index of the loop the destination holds the source's bytes,
  none of them the NUL, and the rest of the source is untouched (`CopyInv`); the padding of
  `strncpy` starts at its end.
* `ConversionsStayRight`: while `itoa` divides, the digits written are those of the quotients
  and the register holds the rest (`Remains`); `strrev` has swapped the outer bytes and left the
  inner ones (`Turned`). `Rest` and `NumberOf` are recursive functions; that such a function
  exists and obeys its equation is proved here (`Recursion`, from `Induct`) by the
  existence of a least number, `Least`, for sets where the library's theorems take operators.
* `LibraryTypeCorrect`: the registers keep their types and memory holds bytes, in all fifteen
  actions (`LibraryTypeOK`, which the run need not check again).
* `CallAlwaysGetsOn`: `LibrarySpec => CallGetsOn`. Every iteration makes the pair of `Loops`, the
  loops that are still ahead, and `Turns`, a number that bounds the iterations of the one
  that runs, smaller. A loop that counts has its counter for a bound; one that looks for a NUL
  has the end of memory, which it does not reach by `CopyInv`, `CompareInv` and `GivenText`.
  The invariant is all of the above (`CallInv`).

`RoutinesProofs`, about the other two parts of `Routines` and the whole:

* `ProgramsApart`, for every number of processes. In the middle of `update_user_addr` the
  entry, and a TLB filled then, may be another process's; the invariant claims the TLB
  only for a kernel that is idle, after the flush.
* `GrepStaysSound`, for every file without a NUL, every pattern and size of the buffer and whatever
  the stack held. The invariant `Window` says where the locals point to, for every file, and if the file
  holds no NUL (`Faithful`) that the buffer, from where the search stands, is a
  window on the file that ends where the file has been read to; the carried piece is
  the only way for old bytes to meet new ones, and it keeps its place in the file.
  `StringEnds` is the lemma about `CString`: bytes without a NUL are copied and printed whole.
* `GrepStaysExact`, for files with neither a NUL nor a line longer than the buffer, and a byte
  behind the buffer that is not a newline: `PrintedTo(Searched)` says that exactly the matching lines before the place
  of the search have been printed, in order. The search stands at the beginning of a line,
  or at the newline of a line that filled the buffer to its end and has been printed; there
  the byte behind the buffer is compared, and must not be a newline.
  Lines are compared by their places, so no induction over the file is needed.
* `GrepAlwaysGetsOn`: `GrepSpec => GrepGetsOn`, for every file, with NULs or without. The pair of `Rounds`, what is left of the file and
  whether its end has still to be seen, and `Steps`, what is left to do with the buffer, becomes
  smaller with every step. A read that brings nothing is the last one, since `CutOff` asks for
  `cnt`; with neither that test nor the one of `line_start` the last piece of a file without
  a newline would be carried over for ever.
* `PartsKeepTheirSpecs`, `PartsStayRight` and `PartsGetOn`: the composition keeps the specification of each part,
  so `Spec` of the run has all of these properties, `GetsOn` among them.

`ScreenProofs`, for every size of screen and page and number of terminals:

* `BuffersStayOwn`: `Spec => []OwnBuffers`, from the buffers of `pit_handler` and the switch
  (`BufferInv`).
* `CursorStaysOnScreen`: `Spec => []CursorOnScreen`, for the time when no cursor that was taken over
  off the screen is still off it. The strengthening `CursorInv` says what holds while `putc` has the
  cursor in hand: from the store of the column to the end of `memmove` only the row can be off
  the screen, and the store of the row that follows (`PutcBottom`) puts it back; a key
  in between moves the cursor to the screen or leaves it alone (`Nearer`).
* `TypeCorrect`: `Spec => []TypeOK`, with `TypeInv` for the history.
* `EchoStaysWithLine`: `Spec => []EchoTracksLine`. `EchoInv` says where the cursor stands
  (`Tracked`): as many cells behind the begin of the echo as the line has characters, through
  wraps, scrolls and backspaces. A scroll moves the begin up a row; by `LineAssumption` it
  does not leave the screen, since a line of 127 characters is shorter than 24 rows of 80.
* `SwitchesRestore`: without Ctrl+L astray (`~ClearAnywhere`), `Spec => SwitchRestores`.
  `LeftInv` says that the buffers of the terminals that are off the screen show what `left`
  remembers; `Covered` is the statement of each step: a cell of another page that it changes
  becomes a `stray` of its history, or the history is forgotten. Each cell of `memmove` and each
  turn of the clearing loop is such a step.

Only model-checked: the liveness properties `EnterAnswered`, `ReadReturns` and `Returned`.
They need fairness and `ENABLED`, which are outside the prover's reach; of `Returned` the
part that is safety, a measure that every step makes smaller, is proved (`PartsGetOn`). The
runs of section 4 show violations on an instance, which is all that a violation needs.

## 6. Not modelled

* The byte loop of the command parser and `sys_getargs`: `Processes` and `Files` take
  its outcomes; what its overruns hit is a matter of the compiler's stack layout.
* The dispatch through the jump table: one bound test and one indirect call.
* `disable_irq`, `memset_word`, `memset_dword`: no callers.
* `sys_vidmap`, one store of an address: the page of the terminal on the screen at the call, never
  the video memory, so what a program writes there is seen only after a switch away and back.
* Formatting in `printf` and `puts`, attribute bytes, the display's cursor ports.
* Multiboot checks, descriptor layouts and the assembly that loads them: straight-line
  code before interrupts are on.
* `cat`, `ls`, `hello` and the other small programs: loops of system calls. The fish
  demonstration and its emulation layer are the course's. The kernel's own tests are
  read as documentation.
* Compositions: which program a line of the keyboard reaches (`Terminal` with
  `Processes`), and the echo with the line buffer's limits (`Terminal` with `Screen`).
