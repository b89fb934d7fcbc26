------------------------------- MODULE Devices -------------------------------
(***************************************************************************)
(* The interrupt hardware as the kernel drives it: the two 8259 interrupt  *)
(* controllers, the real-time clock with its index and data ports, the     *)
(* interval timer and the keyboard controller, and the CPU that takes an   *)
(* interrupt wherever interrupts are on, inside a handler that has turned  *)
(* them on again too.                                                      *)
(*                                                                         *)
(* Code that runs with interrupts on is one action per access to a device; *)
(* a handler runs with interrupts off and is one action up to its sti() or *)
(* iret.                                                                   *)
(***************************************************************************)
EXTENDS Integers, Sequences, FiniteSets

CONSTANTS
    BiosA,           \* register A as the BIOS leaves it: divider and rate
    BiosB,           \* register B as the BIOS leaves it
    Frequencies,     \* what programs ask of rtc_write
    MaxNest          \* bound on interrupts taken inside interrupts

MAX_RATE == 1024
MIN_RATE == 2
INT_MAX == 2147483647            \* of the int32_t that rtc_write takes
INT_MIN == -INT_MAX - 1

ASSUME DevicesAssumption ==
    /\ BiosA \in 0 .. 127 /\ BiosB \in 0 .. 255
    /\ Frequencies \subseteq INT_MIN .. INT_MAX
    /\ MaxNest \in Nat \ {0}

NUMBER_OF_TERMINALS == 3
PIT == 0
KEYBOARD == 1
CASCADE == 2         \* the line of the master that the slave drives
RTC == 8
Irqs == {PIT, KEYBOARD, RTC}
Lines == 0 .. 7

VARIABLES
    master_mask, slave_mask,     \* the kernel's copies, as sets of masked lines
    master, slave,               \* the chips: base vector, mask, lines in service
    irr,                         \* interrupts raised and not yet taken
    index, regA, regB, regC,     \* the clock; of C only the interrupt flag
    pit_on, key_waiting,
    iflag,                       \* the interrupt flag of the CPU
    stack,                       \* handlers entered and not left, the latest last
    interrupt_flag,
    task,                        \* the code below the handlers: boot or a system call
    pit_count,
    served                       \* history: clock interrupts since rtc_read began

pic == <<master_mask, slave_mask, master, slave>>
clock == <<index, regA, regB, regC>>
lines == <<irr, pit_on, key_waiting>>
cpu == <<iflag, stack>>
vars == <<pic, clock, lines, cpu, interrupt_flag, task, pit_count, served>>

Tasks == [pc : {"i8259_init", "init_rtc", "init_keyboard", "sti", "init_PIT",
                "user", "scale", "cli", "selectA", "readA", "selectA2", "writeA",
                "read", "read_sti", "spin"},
          frequency : Frequencies \cup {MIN_RATE}, temp : Nat, rate : 0 .. 15,
          saved_a : 0 .. 255]
At(pc) ==
    [pc |-> pc, frequency |-> MIN_RATE, temp |-> 4, rate |-> BiosA % 16, saved_a |-> 0]

\* The chips as the BIOS leaves them: other vectors, interrupts masked or not.
Init ==
    /\ master_mask = Lines \ {CASCADE} /\ slave_mask = Lines
    /\ master = [base |-> 8, imr |-> {}, isr |-> {}]
    /\ slave = [base |-> 112, imr |-> {}, isr |-> {}]
    /\ irr = {} /\ pit_on = FALSE /\ key_waiting = FALSE
    /\ index = "A" /\ regA = BiosA /\ regB = BiosB /\ regC = FALSE
    /\ iflag = FALSE /\ stack = <<>>
    /\ interrupt_flag = 0
    /\ task = At("i8259_init")
    /\ pit_count = 0
    /\ served = 0

-----------------------------------------------------------------------------
(***************************************************************************)
(* The interrupt controllers                                               *)
(***************************************************************************)
\* Mutant of Unmasked: the copy of the mask is not kept.
UnmaskedChip(irq) ==
    IF irq >= 8
    THEN slave' = [slave EXCEPT !.imr = slave_mask \ {irq - 8}]
            /\ UNCHANGED <<master_mask, slave_mask, master>>
    ELSE master' = [master EXCEPT !.imr = master_mask \ {irq}]
            /\ UNCHANGED <<master_mask, slave_mask, slave>>

\* enable_irq
Unmasked(irq) ==
    IF irq >= 8
    THEN /\ slave_mask' = slave_mask \ {irq - 8}
         /\ slave' = [slave EXCEPT !.imr = slave_mask']
         /\ UNCHANGED <<master_mask, master>>
    ELSE /\ master_mask' = master_mask \ {irq}
         /\ master' = [master EXCEPT !.imr = master_mask']
         /\ UNCHANGED <<slave_mask, slave>>

\* Mutant of Acknowledged: the slave's EOI without the master's.
AcknowledgedSlaveOnly(irq) ==
    IF irq >= 8
    THEN slave' = [slave EXCEPT !.isr = @ \ {irq - 8}] /\ UNCHANGED master
    ELSE master' = [master EXCEPT !.isr = @ \ {irq}] /\ UNCHANGED slave

\* send_eoi: a specific EOI, and that of the cascade line after one of the slave's.
Acknowledged(irq) ==
    IF irq >= 8
    THEN /\ slave' = [slave EXCEPT !.isr = @ \ {irq - 8}]
         /\ master' = [master EXCEPT !.isr = @ \ {CASCADE}]
    ELSE /\ master' = [master EXCEPT !.isr = @ \ {irq}]
         /\ UNCHANGED slave

MasterLine(irq) == IF irq >= 8 THEN CASCADE ELSE irq

\* What the chips put through: unmasked, and of a higher priority (a lower
\* number) than every interrupt in service.
Presented(irq) ==
    /\ irq \in irr
    /\ MasterLine(irq) \notin master.imr
    /\ \A i \in master.isr : MasterLine(irq) < i
    /\ irq >= 8 => irq - 8 \notin slave.imr /\ \A i \in slave.isr : irq - 8 < i

Vector(irq) == IF irq >= 8 THEN slave.base + irq - 8 ELSE master.base + irq

\* The entries of the IDT that idt_vector gives to device handlers.
DeviceVectors == {32, 33, 40}

\* The CPU takes the presented interrupt of the highest priority.
Deliver(irq) ==
    /\ iflag
    /\ Len(stack) < MaxNest
    /\ Presented(irq)
    /\ \A other \in Irqs : Presented(other) => irq <= other
    /\ irr' = irr \ {irq}
    /\ master' = [master EXCEPT !.isr = @ \cup {MasterLine(irq)}]
    /\ slave' = IF irq >= 8 THEN [slave EXCEPT !.isr = @ \cup {irq - 8}] ELSE slave
    /\ stack' = Append(stack, [irq |-> irq, at |-> "entry"])
    /\ iflag' = FALSE
    /\ UNCHANGED <<master_mask, slave_mask, clock, pit_on, key_waiting,
                   interrupt_flag, task, pit_count, served>>

Top == stack[Len(stack)]
Popped == SubSeq(stack, 1, Len(stack) - 1)
Entered(irq) == stack # <<>> /\ Top = [irq |-> irq, at |-> "entry"]

-----------------------------------------------------------------------------
(***************************************************************************)
(* What the devices do by themselves                                       *)
(***************************************************************************)
Bit(byte, weight) == (byte \div weight) % 2 = 1
SetBit(byte, weight) == IF Bit(byte, weight) THEN byte ELSE byte + weight

\* A periodic or alarm interrupt that register B enables.  The line is raised
\* once: the next edge needs a read of register C.
ClockEvent ==
    /\ Bit(regB, 64) \/ Bit(regB, 32)
    /\ ~regC
    /\ regC' = TRUE
    /\ irr' = irr \cup {RTC}
    /\ UNCHANGED <<pic, index, regA, regB, pit_on, key_waiting, cpu, interrupt_flag,
                   task, pit_count, served>>

TimerTick ==
    /\ pit_on
    /\ irr' = irr \cup {PIT}
    /\ UNCHANGED <<pic, clock, pit_on, key_waiting, cpu, interrupt_flag, task,
                   pit_count, served>>

\* The controller holds one scan code until it is read.
Key ==
    /\ ~key_waiting
    /\ key_waiting' = TRUE
    /\ irr' = irr \cup {KEYBOARD}
    /\ UNCHANGED <<pic, clock, pit_on, cpu, interrupt_flag, task, pit_count, served>>

-----------------------------------------------------------------------------
(***************************************************************************)
(* The handlers                                                            *)
(***************************************************************************)
\* Mutant of ReadC: the clock's flag is not read.
ReadCForgotten == UNCHANGED regC

\* Reading register C lets the clock interrupt again.
ReadC == regC' = FALSE

\* handle_rtc: interrupts are on again before the iret.
HandleRtc ==
    /\ Entered(RTC)
    /\ index' = "C"
    /\ ReadC
    /\ Acknowledged(RTC)
    /\ interrupt_flag' = 0
    /\ iflag' = TRUE
    /\ stack' = [stack EXCEPT ![Len(stack)].at = "exit"]
    /\ served' = IF served < 2 THEN served + 1 ELSE served
    /\ UNCHANGED <<master_mask, slave_mask, regA, regB, lines, task, pit_count>>

\* keyboard_handler, of which here only the controller is of interest.
HandleKeyboard ==
    /\ Entered(KEYBOARD)
    /\ key_waiting' = FALSE
    /\ Acknowledged(KEYBOARD)
    /\ stack' = Popped
    /\ iflag' = TRUE
    /\ UNCHANGED <<master_mask, slave_mask, clock, irr, pit_on, interrupt_flag, task,
                   pit_count, served>>

\* pit_handler while shells are started: the EOI comes before sys_execute, which
\* leaves for the shell and abandons what was interrupted.
StartShell ==
    /\ Entered(PIT)
    /\ pit_count < NUMBER_OF_TERMINALS
    /\ pit_count' = pit_count + 1
    /\ Acknowledged(PIT)
    /\ stack' = <<>>
    /\ task' = At("user")
    /\ iflag' = TRUE
    /\ UNCHANGED <<master_mask, slave_mask, clock, lines, interrupt_flag, served>>

HandlePit ==
    /\ Entered(PIT)
    /\ pit_count >= NUMBER_OF_TERMINALS
    /\ pit_count' = NUMBER_OF_TERMINALS + 1
    /\ Acknowledged(PIT)
    /\ stack' = Popped
    /\ iflag' = TRUE
    /\ UNCHANGED <<master_mask, slave_mask, clock, lines, interrupt_flag, task, served>>

\* The iret of a handler that has turned interrupts on.
Iret ==
    /\ stack # <<>> /\ Top.at = "exit"
    /\ stack' = Popped
    /\ UNCHANGED <<pic, clock, lines, iflag, interrupt_flag, task, pit_count, served>>

-----------------------------------------------------------------------------
(***************************************************************************)
(* Boot: the part of entry() that sets up the devices                      *)
(***************************************************************************)
Below(pc) == stack = <<>> /\ task.pc = pc
Goto(pc) == task' = [task EXCEPT !.pc = pc]

i8259_init ==
    /\ Below("i8259_init")
    /\ master' = [base |-> 32, imr |-> master_mask, isr |-> {}]
    /\ slave' = [base |-> 40, imr |-> slave_mask, isr |-> {}]
    /\ irr' = {}
    /\ Goto("init_rtc")
    /\ UNCHANGED <<master_mask, slave_mask, clock, pit_on, key_waiting, cpu,
                   interrupt_flag, pit_count, served>>

\* Register A may be read while the clock updates, which shows in its bit 7.
Read(byte) == {byte, SetBit(byte, 128)}

\* Register B gets the value of register A and the periodic interrupt.
init_rtc ==
    /\ Below("init_rtc")
    /\ \E prev \in Read(regA) : regB' = SetBit(prev, 64)
    /\ index' = "B"
    /\ Unmasked(RTC)
    /\ Goto("init_keyboard")
    /\ UNCHANGED <<regA, regC, lines, cpu, interrupt_flag, pit_count, served>>

init_keyboard ==
    /\ Below("init_keyboard")
    /\ Unmasked(KEYBOARD)
    /\ Goto("sti")
    /\ UNCHANGED <<clock, lines, cpu, interrupt_flag, pit_count, served>>

EnableInterrupts ==
    /\ Below("sti")
    /\ iflag' = TRUE
    /\ Goto("init_PIT")
    /\ UNCHANGED <<pic, clock, lines, stack, interrupt_flag, pit_count, served>>

\* The kernel then halts in a loop until interrupts take it away.
init_PIT ==
    /\ Below("init_PIT")
    /\ pit_on' = TRUE
    /\ Unmasked(PIT)
    /\ task' = At("user")
    /\ UNCHANGED <<clock, irr, key_waiting, cpu, interrupt_flag, pit_count, served>>

Boot ==
    \/ i8259_init
    \/ init_rtc
    \/ init_keyboard
    \/ EnableInterrupts
    \/ init_PIT

-----------------------------------------------------------------------------
(***************************************************************************)
(* System calls on the clock                                               *)
(***************************************************************************)
UnchangedBelow == UNCHANGED <<pic, lines, stack, pit_count>>

AllStarted == pit_count = NUMBER_OF_TERMINALS + 1

\* rtc_set_frequency is entered from rtc_open, rtc_close and rtc_write.
SetFrequency(frequency) ==
    /\ Below("user") /\ AllStarted
    /\ task' = [At("scale") EXCEPT !.frequency = frequency, !.rate = 15]
    /\ UnchangedBelow /\ UNCHANGED <<clock, iflag, interrupt_flag, served>>

\* freq & (freq - 1) is zero for the powers of two, for zero and for INT_MIN, the
\* predecessor of which wraps; of these rtc_write takes what MAX_RATE allows.
Accepted == {INT_MIN, 0, 1, 2, 4, 8, 16, 32, 64, 128, 256, 512, MAX_RATE}

\* rtc_write; a frequency it refuses changes nothing.
Write == \E freq \in Frequencies \cap Accepted : SetFrequency(freq)

rtc_open == SetFrequency(MIN_RATE)
rtc_close == SetFrequency(MIN_RATE)

Scaling == task.frequency > task.temp /\ task.temp < MAX_RATE

\* Mutant of Scale: the rate falls twice as fast.
ScaleTwice == task' = [task EXCEPT !.temp = @ * MIN_RATE, !.rate = @ - 2]

\* Mutant of Scale: the rate is not lowered.
ScaleTempOnly == task' = [task EXCEPT !.temp = @ * MIN_RATE]

Scale == task' = [task EXCEPT !.temp = @ * MIN_RATE, !.rate = @ - 1]

ScaleStep ==
    /\ Below("scale")
    /\ IF Scaling THEN Scale ELSE Goto("cli")
    /\ UnchangedBelow /\ UNCHANGED <<clock, iflag, interrupt_flag, served>>

\* Mutant of Cli: interrupts stay on.
CliForgotten == iflag' = iflag

Cli == iflag' = FALSE

DisableInterrupts ==
    /\ Below("cli")
    /\ Cli
    /\ Goto("selectA")
    /\ UnchangedBelow /\ UNCHANGED <<clock, interrupt_flag, served>>

SelectA ==
    /\ \/ Below("selectA") /\ Goto("readA")
       \/ Below("selectA2") /\ Goto("writeA")
    /\ index' = "A"
    /\ UnchangedBelow /\ UNCHANGED <<regA, regB, regC, iflag, interrupt_flag, served>>

\* A read of register C would clear its flag: then the data is not modelled.
ReadA ==
    /\ Below("readA")
    /\ \E byte \in IF index = "A" THEN Read(regA) ELSE {0} :
            task' = [task EXCEPT !.pc = "selectA2", !.saved_a = byte]
    /\ regC' = (regC /\ index # "C")
    /\ UnchangedBelow /\ UNCHANGED <<index, regA, regB, iflag, interrupt_flag, served>>

\* The rate is the low half of register A, and bit 7 of A cannot be written.
WithRate(byte, rate) == ((byte \div 16) * 16 + rate) % 128

\* The data port writes the register that is selected; C cannot be written.
WriteA ==
    /\ Below("writeA")
    /\ regA' = IF index = "A" THEN WithRate(task.saved_a, task.rate) ELSE regA
    /\ iflag' = TRUE
    /\ Goto("user")
    /\ UnchangedBelow /\ UNCHANGED <<index, regB, regC, interrupt_flag, served>>

\* Mutant of RaiseFlag: the wait starts with the flag as it is.
RaiseFlagForgotten == UNCHANGED interrupt_flag

RaiseFlag == interrupt_flag' = 1

\* rtc_read, up to its wait
ReadCall ==
    /\ Below("user") /\ AllStarted
    /\ RaiseFlag
    /\ served' = 0
    /\ Goto("read_sti")
    /\ UnchangedBelow /\ UNCHANGED <<clock, iflag>>

ReadSti ==
    /\ Below("read_sti")
    /\ iflag' = TRUE
    /\ Goto("spin")
    /\ UnchangedBelow /\ UNCHANGED <<clock, interrupt_flag, served>>

\* while(interrupt_flag)
ReadReturn ==
    /\ Below("spin")
    /\ interrupt_flag = 0
    /\ Goto("user")
    /\ UnchangedBelow /\ UNCHANGED <<clock, iflag, interrupt_flag, served>>

\* What runs on by itself once a system call has been made.
SystemCall ==
    \/ ScaleStep
    \/ DisableInterrupts
    \/ SelectA
    \/ ReadA
    \/ WriteA
    \/ ReadSti
    \/ ReadReturn

Handler ==
    \/ HandleRtc
    \/ HandleKeyboard
    \/ StartShell
    \/ HandlePit

-----------------------------------------------------------------------------
Next ==
    \/ ClockEvent
    \/ TimerTick
    \/ Key
    \/ \E irq \in Irqs : Deliver(irq)
    \/ Handler
    \/ Iret
    \/ Boot
    \/ rtc_open
    \/ rtc_close
    \/ Write
    \/ ReadCall
    \/ SystemCall

Spec == Init /\ [][Next]_vars

\* The timer (20 Hz) and the user leave the CPU time: again and again no handler
\* runs and neither of them waits for one.
Quiet == stack = <<>> /\ irr \cap {PIT, KEYBOARD} = {}

\* The clock runs, the CPU executes what it has entered, and takes an interrupt
\* that the chips present to it again and again.
FairSpec ==
    /\ Spec
    /\ WF_vars(ClockEvent)
    /\ WF_vars(Handler)
    /\ SF_vars(Deliver(RTC))
    /\ SF_vars(SystemCall)
    /\ []<>Quiet

\* What the programs of Devices.cfg ask for: the ends of the range, 4 Hz where the
\* scale starts, and two requests that rtc_write refuses.
Requests == {INT_MIN, 0, 3, 4, 8, MAX_RATE, 2 * MAX_RATE}

-----------------------------------------------------------------------------
(***************************************************************************)
(* Properties                                                              *)
(***************************************************************************)
Chips == [base : Nat, imr : SUBSET Lines, isr : SUBSET Lines]
Frames == [irq : Irqs, at : {"entry", "exit"}]

\* The types of the devices', the CPU's and the kernel's state.
TypeOK ==
    /\ master_mask \in SUBSET Lines /\ slave_mask \in SUBSET Lines
    /\ master \in Chips /\ slave \in Chips
    /\ irr \in SUBSET Irqs
    /\ index \in {"A", "B", "C"}
    /\ regA \in 0 .. 127 /\ regB \in 0 .. 255 /\ regC \in BOOLEAN
    /\ pit_on \in BOOLEAN /\ key_waiting \in BOOLEAN
    /\ iflag \in BOOLEAN
    /\ stack \in Seq(Frames)
    /\ interrupt_flag \in {0, 1}
    /\ task \in Tasks
    /\ pit_count \in 0 .. NUMBER_OF_TERMINALS + 1
    /\ served \in 0 .. 2

\* An interrupt is in service in the chips exactly as long as its handler has
\* not sent the EOI: a missing EOI would block every interrupt of that priority
\* and below, for good.
InService ==
    LET entered == {stack[i].irq : i \in {j \in 1 .. Len(stack) : stack[j].at = "entry"}}
    IN  /\ master.isr = {MasterLine(irq) : irq \in entered}
        /\ slave.isr = {irq - 8 : irq \in entered \cap {RTC}}

\* With interrupts on, the chips use the vectors of the IDT, their masks are those
\* the kernel believes in, and the slave's line to the master is open.
ControllersReady ==
    iflag =>
        /\ \A irq \in Irqs : Vector(irq) \in DeviceVectors
        /\ master.imr = master_mask /\ slave.imr = slave_mask
        /\ CASCADE \notin master.imr /\ RTC - 8 \notin slave.imr

\* A system call and handle_rtc share the index port: whenever interrupts fall,
\* the divider in register A survives, and the rate is the one that the last
\* rtc_set_frequency computed.
RateTakesHold ==
    /\ regA \div 16 = BiosA \div 16
    /\ task.pc \in {"user", "read_sti", "spin"} => regA % 16 = task.rate

\* rtc_read returns only when an interrupt of the clock has been served since
\* it was called.
ReadWaits == [][ReadReturn => served > 0]_vars

\* rtc_read returns: handle_rtc acknowledges the clock and both chips, so another
\* interrupt comes.
ReadReturns == (task.pc = "read_sti") ~> (task.pc = "user")

\* What the rates 1 .. 15 of register A select, in interrupts per second.
Hertz == <<256, 128, 8192, 4096, 2048, 1024, 512, 256, 128, 64, 32, 16, 8, 4, 2>>

\* The scale of rtc_set_frequency starts at 4 for the rate that gives 2 Hz, so the
\* clock runs at half of what a program asks for, and at 2 Hz for 4 and below,
\* zero and the negative request included.
HalfTheRequest ==
    [][WriteA => Hertz[regA' % 16] = IF task.frequency > 2 * MIN_RATE
                                     THEN task.frequency \div 2
                                     ELSE MIN_RATE]_vars
=============================================================================
